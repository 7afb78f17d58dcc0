------------------------------- MODULE EditingMC -------------------------------
(***************************************************************************)
(* Editing a page, for TLC: the rooms of collaborative editing, the editor *)
(* in a browser, presence, which tells who else is there, and the search   *)
(* tables that follow pages, comments and assets.  A behaviour is one of   *)
(* one part; the others rest in an initial state of theirs.                *)
(***************************************************************************)
EXTENDS Collab, WebEditor, Presence, PageIndex, TLC

CONSTANTS c1, c2, e1, e2, e3, d1, d2, a1, k1, q1, q2

VARIABLE part   \* "room", "editor", "presence" or "index"

editingVars == <<part, vars, editorVars, presenceVars, indexVars>>

\* A patient user in a room, and a hasty one.
SomeManners == {{"room"}, {"typing", "leaving", "unmerged", "turning", "crossing"}}

\* One user with two tabs, one of which edits.
OneUser == [t \in Tabs |-> "ann"]

\* SQLite, PostgreSQL with one request at a time, and SQLite's requests being lost.
Drivers == {{}, {"postgres"}, {"stop"}}

EditingInit ==
  /\ part \in {"room", "editor", "presence", "index"}
  /\ Init /\ EditorInit /\ PresenceInit /\ IndexInit
  /\ part # "editor" => manner = {"room"}
  /\ part # "index" => indexMode = {}

RoomStep == part = "room" /\ Next /\ UNCHANGED <<editorVars, presenceVars, indexVars>>
EditorStep ==
  part = "editor" /\ EditorNext /\ UNCHANGED <<vars, presenceVars, indexVars>>
PresenceStep ==
  part = "presence" /\ PresenceNext /\ UNCHANGED <<vars, editorVars, indexVars>>
IndexStep ==
  part = "index" /\ IndexNext /\ UNCHANGED <<vars, editorVars, presenceVars>>

EditingNext == (RoomStep \/ EditorStep \/ PresenceStep \/ IndexStep) /\ UNCHANGED part

EditingSpec == EditingInit /\ [][EditingNext]_editingVars

Interchangeable == Permutations(Clients) \cup Permutations(Edits)

=============================================================================
