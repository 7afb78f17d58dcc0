------------------------------- MODULE Collab -------------------------------
(***************************************************************************)
(* Collaborative editing of one page: the sockets (http/routes/realtime.ts,*)
(* realtime/runtime.ts), the room (realtime/collab.ts) and its autosave    *)
(* through pages.saveContent (http/app.ts).                                *)
(*                                                                         *)
(* A text is the set of edits it contains.  The room's Y.Doc only merges,  *)
(* so it grows; a page write replaces the page's text with another one.    *)
(*                                                                         *)
(* saveContent checks the row it read in one step and writes in another;   *)
(* anything may come between them.  The other writes of the page are one   *)
(* step each: PageStore has them apart.                                    *)
(***************************************************************************)
EXTENDS Naturals, FiniteSets

CONSTANTS
  Clients,     \* sockets that may join the room
  Edits,       \* edits that may be made, in the room or elsewhere
  None,
  Allowed,     \* what else may happen, see CollabActs
  MaxRooms,    \* bound on the rooms made for the page, one after the other
  MaxClock     \* bound on Date.now()

\* "api": other writers update the page.  "save": a member of the room presses
\* Save.  "lifecycle": the page is archived and restored, or moved away and back,
\* so that for a while there is no page to edit.  "overlap": a flush
\* may start while an earlier one has not answered.  "sameTime": two writes may
\* fall in the same millisecond.  "hangup": a socket may close while the server
\* still authenticates it.  "lateSeed": a room may be made from a seed that was
\* read before the last autosave was done.
CollabActs ==
  {"api", "save", "lifecycle", "overlap", "sameTime", "hangup", "lateSeed"}

VARIABLES
  page,     \* the page: its text, its version, and whether it is active
  clock,    \* the time of the last write
  live,     \* the clients whose socket is open
  opening,  \* the seed that an authenticating client has read, or None
  room,     \* the room, or None
  rooms,    \* how many rooms there have been
  saves,    \* the persist calls that have not answered
  made      \* history: every edit that reached a room

vars == <<page, clock, live, opening, room, rooms, saves, made>>

Times == 0 .. MaxClock

Page == [text : SUBSET Edits, updatedAt : Times, active : BOOLEAN]

Seed == [text : SUBSET Edits, updatedAt : Times \cup {None}]

Room == [id : 1 .. MaxRooms, doc : SUBSET Edits, conns : SUBSET Clients,
         dirty : BOOLEAN, seededUpdatedAt : Times \cup {None}]

ASSUME CollabAssumption ==
  /\ Allowed \subseteq CollabActs
  /\ MaxRooms \in Nat
  /\ MaxClock \in Nat
  /\ None \notin Nat \cup Room

\* A persist call: its room, its text, the version it expects; once it is checked, the
\* version it has read and the time of its write; then its answer.
Save == [room : 1 .. MaxRooms, text : SUBSET Edits,
         expected : Times \cup {None}, state : {"started"}]
   \cup [room : 1 .. MaxRooms, text : SUBSET Edits, expected : Times \cup {None},
         read : Times, now : Times, state : {"checked"}]
   \cup [room : 1 .. MaxRooms, updatedAt : Times \cup {None}, state : {"answered"}]

Init ==
  /\ page = [text |-> {}, updatedAt |-> 0, active |-> TRUE]
  /\ clock = 0
  /\ live = {}
  /\ opening = [c \in Clients |-> None]
  /\ room = None
  /\ rooms = 0
  /\ saves = {}
  /\ made = {}

-----------------------------------------------------------------------------
(* Writes of the page.                                                     *)

\* Date.now() of a write.
WriteTimes == {t \in Times : t = clock + 1 \/ ("sameTime" \in Allowed /\ t = clock)}

WritePage(text, active) ==
  \E now \in WriteTimes :
    /\ page' = [text |-> text, updatedAt |-> now, active |-> active]
    /\ clock' = now

FreshEdits == Edits \ (made \cup page.text)

\* An update by the API, by Git sync or by automation, on the page as it is.
ApiWrite ==
  /\ "api" \in Allowed
  /\ page.active
  /\ \E e \in FreshEdits : WritePage(page.text \cup {e}, TRUE)
  /\ UNCHANGED <<live, opening, room, rooms, saves, made>>

\* Save in the editor: pages.update with the text of the room.
ExplicitSave ==
  /\ "save" \in Allowed
  /\ room # None /\ room.conns \cap live # {}
  /\ page.active
  /\ WritePage(room.doc, TRUE)
  /\ UNCHANGED <<live, opening, room, rooms, saves, made>>

ArchiveOrRestore ==
  /\ "lifecycle" \in Allowed
  /\ WritePage(page.text, ~ page.active)
  /\ UNCHANGED <<live, opening, room, rooms, saves, made>>

-----------------------------------------------------------------------------
(* Sockets and rooms.                                                      *)

\* getByPath, and the seed that is made of its result.
SeedRead ==
  IF page.active THEN [text |-> page.text, updatedAt |-> page.updatedAt]
  ELSE [text |-> {}, updatedAt |-> None]

\* The server accepts the ticket and reads the page that would seed a room.
Connect(c) ==
  /\ c \notin live
  /\ opening[c] = None
  /\ room # None => c \notin room.conns
  /\ live' = live \cup {c}
  /\ opening' = [opening EXCEPT ![c] = SeedRead]
  /\ UNCHANGED <<page, clock, room, rooms, saves, made>>

\* hub.open: joins the room, and makes it from the client's seed when there is
\* none.  It does not look whether the socket is still open.
Open(c) ==
  /\ opening[c] # None
  /\ \/ /\ room # None
        /\ room' = [room EXCEPT !.conns = @ \cup {c}]
        /\ UNCHANGED rooms
     \/ /\ room = None
        /\ rooms < MaxRooms
        /\ "lateSeed" \in Allowed \/ (saves = {} /\ opening[c] = SeedRead)
        /\ rooms' = rooms + 1
        /\ room' = [id |-> rooms', doc |-> opening[c].text, conns |-> {c},
                    dirty |-> FALSE, seededUpdatedAt |-> opening[c].updatedAt]
  /\ opening' = [opening EXCEPT ![c] = None]
  /\ UNCHANGED <<page, clock, live, saves, made>>

\* scheduleSave: the timer runs and firstDirtyAt is set; flush clears both.
Scheduled(r) == [r EXCEPT !.dirty = TRUE]

\* A sync message with an edit.
Edit(c) ==
  /\ c \in live
  /\ room # None /\ c \in room.conns
  /\ \E e \in FreshEdits \ room.doc :
       /\ room' = Scheduled([room EXCEPT !.doc = @ \cup {e}])
       /\ made' = made \cup {e}
  /\ UNCHANGED <<page, clock, live, opening, rooms, saves>>

InFlight(r) == \E s \in saves : s.room = r.id

MayFlush(r) == "overlap" \in Allowed \/ ~ InFlight(r)

Persist(r) ==
  [room |-> r.id, text |-> r.doc, expected |-> r.seededUpdatedAt,
   state |-> "started"]

\* flush: starts a persist call when there is something to save.
Flushed(r) == saves \cup (IF r.dirty THEN {Persist(r)} ELSE {})

\* Faulty: a room is saved only when its last connection closes.
TimerFiresNever == FALSE /\ UNCHANGED vars

TimerFires ==
  /\ room # None /\ room.dirty
  /\ MayFlush(room)
  /\ saves' = Flushed(room)
  /\ room' = [room EXCEPT !.dirty = FALSE]
  /\ UNCHANGED <<page, clock, live, opening, rooms, made>>

\* hub.close: the last connection flushes and discards the room.
LeaveRoom(c) ==
  \/ /\ room.conns # {c}
     /\ room' = [room EXCEPT !.conns = @ \ {c}]
     /\ UNCHANGED saves
  \/ /\ room.conns = {c}
     /\ MayFlush(room)
     /\ saves' = Flushed(room)
     /\ room' = None

\* The socket closes.  The runtime does not know a client that is still being
\* authenticated.
Close(c) ==
  /\ c \in live
  /\ live' = live \ {c}
  /\ \/ /\ opening[c] # None
        /\ "hangup" \in Allowed
        /\ UNCHANGED <<room, saves>>
     \/ /\ room # None /\ c \in room.conns
        /\ LeaveRoom(c)
  /\ UNCHANGED <<page, clock, opening, rooms, made>>

-----------------------------------------------------------------------------
(* Persisting.                                                             *)

\* Faulty: any version is accepted.
AcceptsAny(s) == page.active

\* The checks of saveContent.
Accepts(s) ==
  /\ page.active
  /\ s.expected # None => page.updatedAt = s.expected

Answered(s, t) ==
  (saves \ {s}) \cup {[room |-> s.room, updatedAt |-> t, state |-> "answered"]}

Checked(s, now) ==
  [room |-> s.room, text |-> s.text, expected |-> s.expected, read |-> page.updatedAt,
   now |-> now, state |-> "checked"]

\* saveContent reads the row, checks it, and takes the time of its write.
CheckContent(s) ==
  /\ s \in saves /\ s.state = "started"
  /\ \/ /\ Accepts(s)
        /\ \E now \in WriteTimes :
             clock' = now /\ saves' = (saves \ {s}) \cup {Checked(s, now)}
     \/ /\ ~ Accepts(s)
        /\ saves' = Answered(s, None)
        /\ UNCHANGED clock
  /\ UNCHANGED <<page, live, opening, room, rooms, made>>

\* writeExistingPage writes the row by its id, whatever has become of it.
WriteContent(s) ==
  /\ s \in saves /\ s.state = "checked"
  /\ page' = [page EXCEPT !.text = s.text, !.updatedAt = s.now]
  /\ saves' = Answered(s, s.now)
  /\ UNCHANGED <<clock, live, opening, room, rooms, made>>

\* Faulty: the room goes on expecting the version it was seeded from.
LearnsNothing(s) == room

\* The answer of a persist call tells its room the version of its own write.
Learns(s) ==
  IF s.updatedAt # None /\ room # None /\ room.id = s.room
  THEN [room EXCEPT !.seededUpdatedAt = s.updatedAt] ELSE room

\* The promise of a persist call resolves: a room that is gone does not matter.
Resolve(s) ==
  /\ s \in saves /\ s.state = "answered"
  /\ saves' = saves \ {s}
  /\ room' = Learns(s)
  /\ UNCHANGED <<page, clock, live, opening, rooms, made>>

-----------------------------------------------------------------------------
Saving == \E s \in saves : CheckContent(s) \/ WriteContent(s) \/ Resolve(s)

Next ==
  \/ ApiWrite \/ ExplicitSave \/ ArchiveOrRestore
  \/ \E c \in Clients : Connect(c) \/ Open(c) \/ Edit(c) \/ Close(c)
  \/ TimerFires
  \/ Saving

\* setTimeout callbacks run, and database calls and their promises complete.
Spec == Init /\ [][Next]_vars /\ WF_vars(TimerFires) /\ WF_vars(Saving)

-----------------------------------------------------------------------------
\* The room, its sockets and its persist calls keep their shapes; the room is
\* the last one made and has somebody in it.
CollabTypeOK ==
  /\ page \in Page
  /\ clock \in Times
  /\ live \subseteq Clients
  /\ opening \in [Clients -> Seed \cup {None}]
  /\ room \in Room \cup {None}
  /\ room # None => room.id = rooms /\ room.conns # {}
  /\ rooms \in 0 .. MaxRooms
  /\ saves \subseteq Save
  /\ made \subseteq Edits

\* An autosave of a room that was seeded from a version of the page never drops
\* an edit from the page it replaces, unless somebody wrote the page between its
\* check and its write, whatever rooms, reconnections, saves by others and late
\* answers came before it (the stale check of saveContent and the seededUpdatedAt
\* that flush and its answer pass on).
SeededAutosavesKeepEdits ==
  [][\A s \in saves :
       WriteContent(s) /\ s.expected # None /\ page.updatedAt = s.read
         => page.text \subseteq page'.text]_vars

\* Every edit made in the room reaches the page ("hard cap on how long unsaved
\* edits can sit", collab.ts).  True when nobody else writes the page and a save
\* answers before the next one starts.
EditsAreSaved == \A e \in Edits : (e \in made) ~> (e \in page.text)

\* "final persist of the session before discarding the room" (collab.ts): when
\* the room is gone and nothing is in flight, no edit is missing.
ClosedSessionIsSaved ==
  (room = None /\ saves = {}) => made \subseteq page.text

\* "a room is shared across connections and discarded when empty"
\* (collab.test.ts): no sockets, no room.
EmptyRoomIsDiscarded ==
  (live = {} /\ \A c \in Clients : opening[c] = None) => room = None

\* The room keeps its shape, is discarded when it is empty, and has saved everything by
\* then, when nobody else writes the page.
RoomInv == CollabTypeOK /\ ClosedSessionIsSaved /\ EmptyRoomIsDiscarded

=============================================================================
