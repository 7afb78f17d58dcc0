------------------------------- MODULE Settings -------------------------------
(***************************************************************************)
(* The settings of the site (services/settings.ts): a table of rows, the   *)
(* copy that a process reads once and serves from then on, and the updates *)
(* of administrators, which a process runs one after another.              *)
(*                                                                         *)
(* A value is what the validation tells apart: one that is kept as it is,  *)
(* one that is tidied, one that is refused.                                *)
(***************************************************************************)
EXTENDS Naturals, Sequences

CONSTANTS
  Fields,         \* keys of SITE_SETTING_KEYS
  HeadField,      \* customHeadHtml, which only a trusted installation may have
  Refusing,       \* the fields whose values are refused; the others are tidied
  PlainValues, Tidy, Messy, BadValue, NoHead,
  NoRow,
  Updates,        \* PUT /api/admin/settings, setup and the installation of the documentation
  Processes,
  MaxSettingsFaults,  \* bound on failing queries
  MaxSettingsStops    \* bound on restarts

VARIABLES
  table,       \* site_settings
  trusted,     \* allowHeadInjection of this installation
  copy,        \* current of each process
  initialized,
  readingRows,     \* initialization is pending
  writes,      \* the updates behind writeTail
  stage, patch,
  next,        \* what each update is going to leave
  promised,    \* history: the settings after every update that was saved
  faults, stops

settingsVars ==
  <<table, trusted, copy, initialized, readingRows, writes, stage, patch, next, promised,
    faults, stops>>

RawValues == PlainValues \union {Messy, BadValue}
Patches == UNION {[named -> RawValues] : named \in SUBSET Fields}

\* defaultSiteSettings, with what the environment sets.
Defaults == [f \in Fields |-> IF f = HeadField THEN NoHead ELSE Tidy]

\* trim, slice, normalizePath and the other cleaning functions.
Cleaned(value) == IF value \in PlainValues THEN value ELSE Tidy

\* parseStoredValue of the rows over the defaults (settingsFromRows).
Parsed(rows, allowed) ==
  [f \in Fields |->
     IF f = HeadField
     THEN IF rows[f] = NoRow \/ ~allowed THEN NoHead ELSE rows[f]
     ELSE IF rows[f] = NoRow THEN Defaults[f] ELSE Cleaned(rows[f])]

\* validatePatch: a field that the patch does not name is validated too.
Named(settings, p, f) == IF f \in DOMAIN p THEN p[f] ELSE settings[f]
IsRefused(settings, p) == \E f \in Refusing : Named(settings, p, f) = BadValue
Patched(settings, p, allowed) ==
  [f \in Fields |->
     IF f = HeadField
     THEN IF ~allowed THEN NoHead ELSE Named(settings, p, f)
     ELSE IF f \in DOMAIN p THEN Cleaned(p[f]) ELSE settings[f]]

SettingsInit ==
  /\ table = [f \in Fields |-> NoRow]
  /\ trusted \in BOOLEAN
  /\ copy = [i \in Processes |-> Defaults]
  /\ initialized = [i \in Processes |-> FALSE]
  /\ readingRows = [i \in Processes |-> FALSE]
  /\ writes = [i \in Processes |-> <<>>]
  /\ stage = [u \in Updates |-> "none"]
  /\ patch = [u \in Updates |-> [f \in {} |-> Tidy]]
  /\ next = [u \in Updates |-> Defaults]
  /\ promised = Defaults
  /\ faults = 0 /\ stops = 0

\* The end of an update, whatever its answer: the next one of writeTail may run.
Ends(i, u, answer) ==
  /\ stage' = [stage EXCEPT ![u] = answer]
  /\ writes' = [writes EXCEPT ![i] = SelectSeq(@, LAMBDA other : other # u)]

\* initialize: at the start of the application, and again by any update.
Boot(i) ==
  /\ ~initialized[i] /\ ~readingRows[i]
  /\ readingRows' = [readingRows EXCEPT ![i] = TRUE]
  /\ UNCHANGED <<table, trusted, copy, initialized, writes, stage, patch, next, promised,
                 faults, stops>>

ReadRows(i) ==
  /\ readingRows[i]
  /\ readingRows' = [readingRows EXCEPT ![i] = FALSE]
  /\ copy' = [copy EXCEPT ![i] = Parsed(table, trusted)]
  /\ initialized' = [initialized EXCEPT ![i] = TRUE]
  /\ UNCHANGED <<table, trusted, writes, stage, patch, next, promised, faults, stops>>

\* The list fails, and with it the update that waits for it.
FailRead(i) ==
  /\ readingRows[i] /\ faults < MaxSettingsFaults
  /\ readingRows' = [readingRows EXCEPT ![i] = FALSE]
  /\ faults' = faults + 1
  /\ LET waiting == {u \in Updates : stage[u] = "reading" /\ u = Head(writes[i])}
     IN  IF writes[i] # <<>> /\ waiting # {}
         THEN \E u \in waiting : Ends(i, u, "failed")
         ELSE UNCHANGED <<writes, stage>>
  /\ UNCHANGED <<table, trusted, copy, initialized, patch, next, promised, stops>>

RequestUpdate(i, u, p) ==
  /\ stage[u] = "none"
  /\ stage' = [stage EXCEPT ![u] = "queued"]
  /\ patch' = [patch EXCEPT ![u] = p]
  /\ writes' = [writes EXCEPT ![i] = Append(@, u)]
  /\ UNCHANGED <<table, trusted, copy, initialized, readingRows, next, promised, faults, stops>>

\* Faulty: updates do not wait for one another.
AnyTurn(i, u) == \E k \in 1 .. Len(writes[i]) : writes[i][k] = u

\* writeTail.then(run, run)
Turn(i, u) == writes[i] # <<>> /\ u = Head(writes[i])

Start(i, u) ==
  /\ Turn(i, u) /\ stage[u] = "queued"
  /\ stage' = [stage EXCEPT ![u] = "reading"]
  /\ readingRows' = [readingRows EXCEPT ![i] = ~initialized[i]]
  /\ UNCHANGED <<table, trusted, copy, initialized, writes, patch, next, promised, faults, stops>>

Validate(i, u) ==
  /\ Turn(i, u) /\ stage[u] = "reading" /\ initialized[i]
  /\ IF IsRefused(copy[i], patch[u])
     THEN Ends(i, u, "refused") /\ UNCHANGED next
     ELSE /\ stage' = [stage EXCEPT ![u] = "saving"]
          /\ next' = [next EXCEPT ![u] = Patched(copy[i], patch[u], trusted)]
          /\ UNCHANGED writes
  /\ UNCHANGED <<table, trusted, copy, initialized, readingRows, patch, promised, faults, stops>>

\* upsertAll of rowsFor: every row, in one transaction.
Save(i, u) ==
  /\ Turn(i, u) /\ stage[u] = "saving"
  /\ table' = next[u]
  /\ stage' = [stage EXCEPT ![u] = "saved"]
  /\ promised' = Patched(promised, patch[u], trusted)
  /\ UNCHANGED <<trusted, copy, initialized, readingRows, writes, patch, next, faults, stops>>

FailSave(i, u) ==
  /\ Turn(i, u) /\ stage[u] = "saving" /\ faults < MaxSettingsFaults
  /\ Ends(i, u, "failed")
  /\ faults' = faults + 1
  /\ UNCHANGED <<table, trusted, copy, initialized, readingRows, patch, next, promised, stops>>

AnswerUpdate(i, u) ==
  /\ Turn(i, u) /\ stage[u] = "saved"
  /\ copy' = [copy EXCEPT ![i] = next[u]]
  /\ Ends(i, u, "ok")
  /\ UNCHANGED <<table, trusted, initialized, readingRows, patch, next, promised, faults, stops>>

\* The process stops and starts again, perhaps with another environment.
RestartSettings(i) ==
  /\ stops < MaxSettingsStops
  /\ stops' = stops + 1
  /\ copy' = [copy EXCEPT ![i] = Defaults]
  /\ initialized' = [initialized EXCEPT ![i] = FALSE]
  /\ readingRows' = [readingRows EXCEPT ![i] = FALSE]
  /\ stage' = [u \in Updates |->
                 IF \E k \in 1 .. Len(writes[i]) : writes[i][k] = u THEN "lost" ELSE stage[u]]
  /\ writes' = [writes EXCEPT ![i] = <<>>]
  /\ trusted' \in BOOLEAN
  /\ UNCHANGED <<table, patch, next, promised, faults>>

UpdateStep(i, u) ==
  \/ Start(i, u) \/ Validate(i, u) \/ Save(i, u) \/ FailSave(i, u) \/ AnswerUpdate(i, u)

SettingsNext(offered) ==
  \E i \in Processes :
    \/ Boot(i) \/ ReadRows(i) \/ FailRead(i) \/ RestartSettings(i)
    \/ \E u \in Updates : UpdateStep(i, u) \/ \E p \in offered : RequestUpdate(i, u, p)

-----------------------------------------------------------------------------
(* Properties.                                                             *)

Saved(i) == {u \in Updates : Turn(i, u) /\ stage[u] = "saved"}

\* With one process: the table is what the updates that were saved add up to, whatever
\* fails, is refused or is restarted in between, and no update drops what another has
\* set (writeTail of createSettingsService); the copy is what a restart would read.
SettingsInv ==
  /\ table # [f \in Fields |-> NoRow] => table = promised
  /\ \A i \in Processes :
       initialized[i] /\ Saved(i) = {} => copy[i] = Parsed(table, trusted)

=============================================================================
