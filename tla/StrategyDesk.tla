---------------------------- MODULE StrategyDesk ----------------------------
(***************************************************************************)
(* Which strategy the engine trades: the strategies table (db.ts, seed.ts),*)
(* the routes that write it (api.ts), the engine that caches the armed one *)
(* (engine.ts) and the form that edits it (StrategyConfig.tsx).  A stored  *)
(* strategy is [enabled, v, at]: v names its definition, at is updated_at. *)
(***************************************************************************)
EXTENDS Integers, Sequences, SequencesExt, FiniteSets

CONSTANTS
  Ids, None,
  MaxClock,    \* bound: writes to the table
  MaxStarts    \* bound: calls of start() and restarts of the server

VARIABLES
  table,   \* [Ids -> row or None]
  clock,   \* Date.now() at the last write
  active, state, starts, feed,  \* engine: activeStrategy, state, start() calls that
                                \* wait, the strategy whose pairs are subscribed
  form,    \* the page: draft, listed, saving, wire
  orphan, swapped, behind, calls
           \* history: an armed strategy was deleted; the armed one changed while a
           \* start waited; the page's list is older than the table; bound
deskVars == <<table, clock, active, state, starts, feed, form, orphan, swapped, behind, calls>>

Stored == {i \in Ids : table[i] # None}
Newest(rows) == CHOOSE i \in rows : \A j \in rows : table[j].at <= table[i].at
Copy(t, i) == [id |-> i, v |-> t[i].v, enabled |-> t[i].enabled]
Blank == [id |-> None, v |-> 0, enabled |-> FALSE]

(* getActiveStrategy                                                       *)
ArmedIn(t) ==
  LET armed == {i \in Ids : t[i] # None /\ t[i].enabled}
  IN  IF armed = {} THEN None
      ELSE LET i == CHOOSE i \in armed : \A j \in armed : t[j].at <= t[i].at
           IN  [id |-> i, v |-> t[i].v]

(* The server has seeded a disabled strategy before it listens.            *)
Init ==
  /\ \E i \in Ids : table = [j \in Ids |-> IF j = i THEN [enabled |-> FALSE, v |-> 1, at |-> 1] ELSE None]
  /\ clock = 1 /\ active = None /\ state = "STOPPED" /\ starts = <<>> /\ feed = None
  /\ form = [draft |-> Blank, listed |-> {}, saving |-> "listing", wire |-> None, dirty |-> FALSE]
  /\ orphan = FALSE /\ swapped = FALSE /\ behind = FALSE /\ calls = 0
-----------------------------------------------------------------------------
UpsertStrategy(t, i, enabled, now) == [t EXCEPT ![i] = [enabled |-> enabled, v |-> now, at |-> now]]

SetActiveKeepingOthers(t, i, now) ==   \* mutant: the others are not disarmed
  [t EXCEPT ![i].enabled = TRUE, ![i].at = now]

(* setActiveStrategy, one transaction                                      *)
SetActive(t, i, now) ==
  [j \in Ids |-> CASE t[j] = None -> None
                   [] t[j] # None /\ j = i -> [t[j] EXCEPT !.enabled = TRUE, !.at = now]
                   [] OTHER -> [t[j] EXCEPT !.enabled = FALSE]]

(* engine.reloadStrategy, after every write but a delete                   *)
ReloadStrategy ==
  /\ active' = ArmedIn(table')
  /\ feed' = IF state = "RUNNING" /\ active' # None THEN active' ELSE feed
  /\ swapped' = (swapped \/ (starts # <<>> /\ active' # active))

Written(i, enabled) ==
  LET saved == UpsertStrategy(table, i, enabled, clock + 1)
  IN  /\ clock < MaxClock /\ clock' = clock + 1
      /\ table' = IF enabled THEN SetActive(saved, i, clock + 1) ELSE saved
      /\ ReloadStrategy
      /\ UNCHANGED <<state, starts, orphan, calls>>

(* POST /api/strategies/:id/activate, by another client                    *)
Activate(i) ==
  /\ table[i] # None /\ clock < MaxClock /\ clock' = clock + 1
  /\ table' = SetActive(table, i, clock + 1)
  /\ ReloadStrategy /\ behind' = TRUE
  /\ UNCHANGED <<state, starts, form, orphan, calls>>

(* DELETE /api/strategies/:id, refused only while RUNNING                  *)
Delete(i) ==
  /\ table[i] # None /\ ~(table[i].enabled /\ state = "RUNNING")
  /\ table' = [table EXCEPT ![i] = None]
  /\ orphan' = (orphan \/ table[i].enabled) /\ behind' = TRUE
  /\ UNCHANGED <<clock, active, state, starts, feed, form, swapped, calls>>
-----------------------------------------------------------------------------
(* engine.start: the strategy is read before the venue is asked, and its   *)
(* pairs are subscribed when the answers are in.                           *)
Start ==
  /\ state \notin {"RUNNING", "STARTING"} /\ calls < MaxStarts /\ calls' = calls + 1
  /\ IF ArmedIn(table) = None
     THEN state' = "ERROR" /\ UNCHANGED <<active, starts>>
     ELSE state' = "STARTING" /\ active' = ArmedIn(table) /\ starts' = Append(starts, active')
  /\ orphan' = (orphan /\ ArmedIn(table) = None)
  /\ UNCHANGED <<table, clock, feed, form, swapped, behind>>
StartFails(n) ==
  /\ state' = "ERROR" /\ starts' = RemoveAt(starts, n)
  /\ UNCHANGED <<table, clock, active, feed, form, orphan, swapped, behind, calls>>
StartEnds(n) ==
  /\ state' = "RUNNING" /\ feed' = starts[n] /\ starts' = RemoveAt(starts, n)
  /\ UNCHANGED <<table, clock, active, form, orphan, swapped, behind, calls>>
Stop ==
  /\ state # "STOPPED" /\ state' = "STOPPED" /\ feed' = None
  /\ UNCHANGED <<table, clock, active, starts, form, orphan, swapped, behind, calls>>
RestartServer ==
  /\ calls < MaxStarts /\ calls' = calls + 1
  /\ active' = None /\ state' = "STOPPED" /\ starts' = <<>> /\ feed' = None
  /\ orphan' = FALSE /\ swapped' = FALSE
  /\ table' = IF Stored # {} THEN table
              ELSE [table EXCEPT ![CHOOSE i \in Ids : TRUE] = [enabled |-> FALSE, v |-> clock, at |-> clock]]
  /\ behind' = (behind \/ Stored = {})
  /\ UNCHANGED <<clock, form>>
-----------------------------------------------------------------------------
(* The page.  The fields stay editable while a request is on its way.      *)
OnForm == UNCHANGED <<table, clock, active, state, starts, feed, orphan, swapped, calls>>

EditDraft ==
  /\ form' = [form EXCEPT !.draft.enabled = ~@, !.dirty = TRUE] /\ OnForm /\ UNCHANGED behind
NewDraft == form' = [form EXCEPT !.draft = Blank, !.dirty = FALSE] /\ OnForm /\ UNCHANGED behind
PickSaved(s) ==
  /\ s \in form.listed
  /\ form' = [form EXCEPT !.draft = s, !.dirty = FALSE] /\ OnForm /\ UNCHANGED behind

(* save(): the draft of the click is posted; the answer becomes the draft, *)
(* then the list is read again and its armed (or newest) entry does.       *)
ClickSave ==
  /\ form.saving = "no" /\ form' = [form EXCEPT !.saving = "posting", !.wire = form.draft]
  /\ OnForm /\ UNCHANGED behind
PostArrives ==
  /\ form.saving = "posting"
  /\ \E i \in Ids :
       /\ IF form.wire.id = None THEN table[i] = None ELSE i = form.wire.id
       /\ Written(i, form.wire.enabled)
       /\ form' = [form EXCEPT !.saving = "posted", !.wire = [id |-> i, v |-> clock', enabled |-> form.wire.enabled]]
  /\ UNCHANGED behind
PostAnswered ==
  /\ form.saving = "posted"
  /\ form' = [form EXCEPT !.saving = "listing", !.draft = form.wire, !.wire = None, !.dirty = FALSE]
  /\ OnForm /\ UNCHANGED behind
ListRead ==
  /\ form.saving = "listing" /\ form.wire = None /\ behind' = FALSE
  /\ form' = [form EXCEPT !.saving = "listed",
       !.wire = [all |-> {Copy(table, i) : i \in Stored},
                 preferred |-> CASE ArmedIn(table) # None -> Copy(table, ArmedIn(table).id)
                                 [] ArmedIn(table) = None /\ Stored # {} -> Copy(table, Newest(Stored))
                                 [] OTHER -> None]]
  /\ OnForm
ListAnswered ==
  /\ form.saving = "listed"
  /\ form' = [form EXCEPT !.saving = "no", !.wire = None, !.listed = form.wire.all,
                          !.draft = IF form.wire.preferred = None THEN @ ELSE form.wire.preferred,
                          !.dirty = IF form.wire.preferred = None THEN @ ELSE FALSE]
  /\ OnForm /\ UNCHANGED behind
RequestFails ==
  /\ form.saving # "no" /\ behind' = (behind \/ form.saving # "posting")
  /\ form' = [form EXCEPT !.saving = "no", !.wire = None, !.dirty = TRUE] /\ OnForm

Next ==
  \/ \E i \in Ids : Activate(i) \/ Delete(i)
  \/ Start \/ Stop \/ RestartServer
  \/ \E n \in DOMAIN starts : StartFails(n) \/ StartEnds(n)
  \/ EditDraft \/ NewDraft \/ \E s \in form.listed : PickSaved(s)
  \/ ClickSave \/ PostArrives \/ PostAnswered \/ ListRead \/ ListAnswered \/ RequestFails
-----------------------------------------------------------------------------
TypeOk ==
  /\ \A i \in Stored : table[i].enabled \in BOOLEAN /\ table[i].v \in 1 .. MaxClock /\ table[i].at \in 1 .. MaxClock
  /\ clock \in 1 .. MaxClock /\ state \in {"STOPPED", "STARTING", "RUNNING", "ERROR"}
  /\ form.saving \in {"no", "posting", "posted", "listing", "listed"}
  /\ orphan \in BOOLEAN /\ swapped \in BOOLEAN /\ behind \in BOOLEAN /\ calls \in 0 .. MaxStarts

(* At most one strategy is armed.  The engine runs the armed one in the    *)
(* definition last saved, or none, unless an armed one was deleted under a *)
(* waiting start; it is subscribed to that one's pairs unless the armed one*)
(* changed while a start waited; and a draft nobody touched is what the    *)
(* table holds unless another client wrote since the list was read, or the *)
(* read after a save failed.                                               *)
OneArmedStrategy ==
  /\ \A i, j \in Stored : table[i].enabled /\ table[j].enabled => i = j
  /\ state = "RUNNING" /\ ~orphan => active = ArmedIn(table)
  /\ state = "RUNNING" /\ ~orphan /\ ~swapped /\ active # None => feed = active
  /\ form.saving = "no" /\ ~form.dirty /\ ~behind /\ form.listed # {} /\ form.draft.id # None =>
       table[form.draft.id] # None /\ form.draft = Copy(table, form.draft.id)
-----------------------------------------------------------------------------
(* The inductive invariant behind OneArmedStrategy, of PartsProofs.        *)
Rows    == [enabled : BOOLEAN, v : Nat, at : Nat]
Copies  == [id : Ids, v : Nat, enabled : BOOLEAN]
Drafts  == [id : Ids \cup {None}, v : Nat, enabled : BOOLEAN]
Listing == [all : SUBSET Copies, preferred : Copies \cup {None}]
Forms   == [draft : Drafts, listed : SUBSET Copies, dirty : BOOLEAN,
            saving : {"no", "posting", "posted", "listing", "listed"},
            wire : {None} \cup Drafts \cup Listing]

DeskTypes ==
  /\ table \in [Ids -> Rows \cup {None}] /\ clock \in Nat
  /\ starts \in Seq([id : Ids, v : Nat])
  /\ {orphan, swapped, behind} \subseteq BOOLEAN
  /\ form \in Forms
  /\ form.saving = "posting" => form.wire \in Drafts
  /\ form.saving = "posted" => form.wire \in Copies
  /\ form.saving = "listed" => form.wire \in Listing

ArmedIds(t) == {i \in Ids : t[i] # None /\ t[i].enabled}
OneArmed(t) == \A i, j \in ArmedIds(t) : i = j

(* What the engine has read is the armed strategy, from the call of start  *)
(* on, unless that one was deleted and no other was armed since.           *)
EngineFollows ==
  state \in {"STARTING", "RUNNING"} \/ starts # <<>> =>
    active = ArmedIn(table) \/ (orphan /\ ArmedIn(table) = None)

(* A start that waits will subscribe what the engine runs, unless the      *)
(* armed strategy changed meanwhile; so it does once it runs.              *)
FeedFollows == ~swapped =>
  /\ \A n \in DOMAIN starts : starts[n] = active
  /\ state = "RUNNING" /\ active # None => feed = active

IsStored(s) == table[s.id] # None /\ s = Copy(table, s.id)

(* The page's list, and a draft nobody touched, are what the table holds;  *)
(* so is the answer to the list request, which names the entry the draft   *)
(* becomes whenever there is one.                                          *)
FormFollows == ~behind =>
  /\ form.saving \in {"no", "posting"} =>
       /\ \A s \in form.listed : IsStored(s)
       /\ ~form.dirty /\ form.listed # {} /\ form.draft.id # None => IsStored(form.draft)
  /\ form.saving = "listed" =>
       /\ \A s \in form.wire.all : IsStored(s)
       /\ form.wire.all # {} => form.wire.preferred # None
       /\ form.wire.preferred # None => IsStored(form.wire.preferred)

DeskInv == DeskTypes /\ OneArmed(table) /\ EngineFollows /\ FeedFollows /\ FormFollows
=============================================================================
