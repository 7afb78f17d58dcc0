---------------------------- MODULE CollabProofs ----------------------------
(***************************************************************************)
(* What holds of a collaboration room for any clients, edits and bounds.   *)
(*                                                                         *)
(* The invariant behind SeededAutosavesKeepEdits: whoever knows the page's *)
(* present version (a seed, the room, a persist call or its answer) has    *)
(* the page's present text, and no write that is under way will bring a    *)
(* version back that somebody knows.  The one behind RoomInv: while nobody *)
(* disturbs the room, an edit is in the page, or its room or a save has it.*)
(***************************************************************************)
EXTENDS Collab, TLAPS

\* The persist calls that are checked and not written.
Pending == {s \in saves : s.state = "checked"}

Unwritten(version) == \A s \in Pending : s.now # version

\* A text that goes with a version is the page's text, or more, when that is the
\* page's version.  A version is never later than the last Date.now(), and no write to come
\* has it.
Knows(version, text) ==
  version # None =>
    /\ version <= clock /\ Unwritten(version)
    /\ version = page.updatedAt => page.text \subseteq text

SeedsKnow ==
  \A c \in Clients : opening[c] # None => Knows(opening[c].updatedAt, opening[c].text)

RoomKnows == room # None => Knows(room.seededUpdatedAt, room.doc)

SaveKnows(s) ==
  /\ s.room <= rooms
  /\ s.state = "started" => Knows(s.expected, s.text)
  /\ s.state = "checked" => s.now <= clock /\ (s.expected # None => Knows(s.read, s.text))
  /\ s.state # "answered" /\ room # None /\ room.id = s.room => s.text \subseteq room.doc
  /\ s.state = "answered" /\ room # None /\ room.id = s.room => Knows(s.updatedAt, room.doc)

SavesKnow == \A s \in saves : SaveKnows(s)

\* The times of the writes to come are not the page's, and no two are the same.
PendingInv ==
  /\ page.updatedAt <= clock /\ Unwritten(page.updatedAt)
  /\ \A s, t \in Pending : s.now = t.now => s = t

KnowInv ==
  /\ CollabTypeOK
  /\ PendingInv
  /\ SeedsKnow /\ RoomKnows /\ SavesKnow

-----------------------------------------------------------------------------
LEMMA CollabTypeInit == Init => CollabTypeOK
BY CollabAssumption DEF Init, CollabTypeOK, Page, Times

LEMMA WritePageTypes ==
  ASSUME CollabTypeOK, NEW text \in SUBSET Edits, NEW active \in BOOLEAN,
         WritePage(text, active)
  PROVE  page' \in Page /\ clock' \in Times /\ page'.updatedAt = clock'
         /\ page'.text = text /\ page'.active = active
BY DEF WritePage, WriteTimes, Page, Times, CollabTypeOK

LEMMA SeedReadTypes ==
  ASSUME CollabTypeOK
  PROVE  SeedRead \in Seed
BY CollabAssumption DEF SeedRead, Seed, Page, Times, CollabTypeOK

\* A room with one more edit is a room.
LEMMA RoomEdited ==
  ASSUME NEW r \in Room, NEW e \in Edits
  PROVE  LET edited == Scheduled([r EXCEPT !.doc = @ \cup {e}])
         IN  /\ edited \in Room /\ edited # None
             /\ edited.id = r.id /\ edited.conns = r.conns /\ edited.doc = r.doc \cup {e}
             /\ edited.dirty /\ edited.seededUpdatedAt = r.seededUpdatedAt
<1> DEFINE grown == [r EXCEPT !.doc = @ \cup {e}]
<1>1. /\ grown \in Room /\ grown.id = r.id /\ grown.conns = r.conns
      /\ grown.doc = r.doc \cup {e} /\ grown.seededUpdatedAt = r.seededUpdatedAt
  BY DEF Room
<1> HIDE DEF grown
<1>2. Scheduled(grown) \in Room /\ Scheduled(grown).dirty = TRUE
      /\ Scheduled(grown).id = grown.id /\ Scheduled(grown).conns = grown.conns
      /\ Scheduled(grown).doc = grown.doc
      /\ Scheduled(grown).seededUpdatedAt = grown.seededUpdatedAt
  BY <1>1 DEF Scheduled, Room
<1>3. Scheduled(grown) # None
  BY <1>2, CollabAssumption
<1> QED
  BY <1>1, <1>2, <1>3 DEF grown

LEMMA FlushedTypes ==
  ASSUME CollabTypeOK, room # None
  PROVE  /\ room \in Room
         /\ Flushed(room) \subseteq Save
BY DEF CollabTypeOK, Flushed, Persist, Room, Save

LEMMA SavesShape ==
  ASSUME CollabTypeOK, NEW s \in saves
  PROVE  /\ s \in Save
         /\ s.room \in 1 .. MaxRooms
         /\ s.state \in {"started", "checked", "answered"}
         /\ s.state \in {"started", "checked"}
              => s.text \in SUBSET Edits /\ s.expected \in Times \cup {None}
         /\ s.state = "checked" => s.read \in Times /\ s.now \in Times
         /\ s.state = "answered" => s.updatedAt \in Times \cup {None}
BY DEF CollabTypeOK, Save

\* What is checked, and what is answered, are persist calls.
LEMMA CheckedTypes ==
  ASSUME CollabTypeOK, NEW s \in saves, s.state = "started", NEW now \in Times
  PROVE  /\ Checked(s, now) \in Save
         /\ Checked(s, now).room = s.room /\ Checked(s, now).text = s.text
         /\ Checked(s, now).expected = s.expected /\ Checked(s, now).read = page.updatedAt
         /\ Checked(s, now).now = now /\ Checked(s, now).state = "checked"
<1>1. s.room \in 1 .. MaxRooms /\ s.text \in SUBSET Edits /\ s.expected \in Times \cup {None}
  BY SavesShape
<1>2. page.updatedAt \in Times
  BY DEF CollabTypeOK, Page
<1> QED
  BY <1>1, <1>2 DEF Checked, Save

LEMMA AnsweredTypes ==
  ASSUME CollabTypeOK, NEW s \in saves, NEW t \in Times \cup {None}
  PROVE  Answered(s, t) \subseteq Save
<1>1. s.room \in 1 .. MaxRooms
  BY SavesShape
<1> QED
  BY <1>1 DEF Answered, CollabTypeOK, Save

LEMMA CollabTypeNext == CollabTypeOK /\ [Next]_vars => CollabTypeOK'
<1> SUFFICES ASSUME CollabTypeOK, [Next]_vars
             PROVE  CollabTypeOK'
  OBVIOUS
<1> USE CollabAssumption
<1>1. CASE ApiWrite
  <2>1. PICK e \in FreshEdits : WritePage(page.text \cup {e}, TRUE)
    BY <1>1 DEF ApiWrite
  <2>2. page.text \cup {e} \in SUBSET Edits
    BY DEF CollabTypeOK, Page, FreshEdits
  <2> QED
    BY <1>1, <2>1, <2>2, WritePageTypes DEF ApiWrite, CollabTypeOK
<1>2. CASE ExplicitSave
  <2>1. room.doc \in SUBSET Edits
    BY <1>2 DEF ExplicitSave, CollabTypeOK, Room
  <2> QED
    BY <1>2, <2>1, WritePageTypes DEF ExplicitSave, CollabTypeOK
<1>3. CASE ArchiveOrRestore
  <2>1. page.text \in SUBSET Edits /\ (~ page.active) \in BOOLEAN
    BY DEF CollabTypeOK, Page
  <2> QED
    BY <1>3, <2>1, WritePageTypes DEF ArchiveOrRestore, CollabTypeOK
<1>4. ASSUME NEW c \in Clients, Connect(c)
      PROVE  CollabTypeOK'
  BY <1>4, SeedReadTypes DEF Connect, CollabTypeOK
<1>5. ASSUME NEW c \in Clients, Open(c)
      PROVE  CollabTypeOK'
  <2>1. opening' \in [Clients -> Seed \cup {None}]
    BY <1>5 DEF Open, CollabTypeOK
  <2>2. CASE room # None
    <3>1. room' \in Room /\ room'.id = room.id /\ room'.conns # {}
      BY <1>5, <2>2 DEF Open, CollabTypeOK, Room
    <3> QED
      BY <1>5, <2>1, <2>2, <3>1 DEF Open, CollabTypeOK
  <2>3. CASE room = None
    <3>1. rooms < MaxRooms /\ rooms' = rooms + 1 /\ rooms' \in 1 .. MaxRooms
      BY <1>5, <2>3 DEF Open, CollabTypeOK
    <3>2. opening[c] \in Seed
      BY <1>5 DEF Open, CollabTypeOK
    <3>3. room' = [id |-> rooms', doc |-> opening[c].text, conns |-> {c},
                   dirty |-> FALSE, seededUpdatedAt |-> opening[c].updatedAt]
      BY <1>5, <2>3 DEF Open
    <3>4. room' \in Room
      BY <3>1, <3>2, <3>3 DEF Room, Seed
    <3>5. room'.id = rooms' /\ room'.conns # {}
      BY <3>3
    <3> QED
      BY <1>5, <2>1, <2>3, <3>1, <3>4, <3>5 DEF Open, CollabTypeOK
  <2> QED
    BY <2>2, <2>3
<1>6. ASSUME NEW c \in Clients, Edit(c)
      PROVE  CollabTypeOK'
  <2>1. room \in Room
    BY <1>6 DEF Edit, CollabTypeOK
  <2>2. room' \in Room /\ room'.id = room.id /\ room'.conns # {}
    BY <1>6, <2>1, RoomEdited DEF Edit, CollabTypeOK, FreshEdits
  <2> QED
    BY <1>6, <2>2 DEF Edit, CollabTypeOK, FreshEdits
<1>7. ASSUME NEW c \in Clients, Close(c)
      PROVE  CollabTypeOK'
  <2>1. CASE UNCHANGED <<room, saves>>
    BY <1>7, <2>1 DEF Close, CollabTypeOK
  <2>2. CASE room # None /\ LeaveRoom(c)
    <3>1. room' \in Room \cup {None} /\ (room' # None => room'.id = rooms /\ room'.conns # {})
      BY <2>2, FlushedTypes DEF LeaveRoom, CollabTypeOK, Room
    <3>2. saves' \subseteq Save
      BY <2>2, FlushedTypes DEF LeaveRoom, CollabTypeOK
    <3> QED
      BY <1>7, <3>1, <3>2 DEF Close, CollabTypeOK
  <2> QED
    BY <1>7, <2>1, <2>2 DEF Close
<1>8. CASE TimerFires
  <2>1. room' \in Room /\ room'.id = room.id /\ room'.conns # {} /\ saves' \subseteq Save
    BY <1>8, FlushedTypes DEF TimerFires, CollabTypeOK, Room
  <2> QED
    BY <1>8, <2>1 DEF TimerFires, CollabTypeOK
<1>9. ASSUME NEW s \in saves, CheckContent(s)
      PROVE  CollabTypeOK'
  <2>1. saves' \subseteq Save /\ clock' \in Times
    <3>1. CASE \E now \in WriteTimes :
                 clock' = now /\ saves' = (saves \ {s}) \cup {Checked(s, now)}
      <4>1. WriteTimes \subseteq Times
        BY DEF WriteTimes
      <4> QED
        BY <1>9, <3>1, <4>1, CheckedTypes DEF CheckContent, CollabTypeOK
    <3>2. CASE saves' = Answered(s, None) /\ UNCHANGED clock
      BY <3>2, AnsweredTypes DEF CollabTypeOK
    <3> QED
      BY <1>9, <3>1, <3>2 DEF CheckContent
  <2> QED
    BY <1>9, <2>1 DEF CheckContent, CollabTypeOK
<1>12. ASSUME NEW s \in saves, WriteContent(s)
       PROVE  CollabTypeOK'
  <2>1. s.text \in SUBSET Edits /\ s.now \in Times
    BY <1>12, SavesShape DEF WriteContent
  <2>2. saves' \subseteq Save
    BY <1>12, <2>1, AnsweredTypes DEF WriteContent
  <2>3. page' \in Page
    BY <1>12, <2>1 DEF WriteContent, CollabTypeOK, Page
  <2> QED
    BY <1>12, <2>2, <2>3 DEF WriteContent, CollabTypeOK
<1>10. ASSUME NEW s \in saves, Resolve(s)
       PROVE  CollabTypeOK'
  <2>1. s.updatedAt \in Times \cup {None}
    BY <1>10, SavesShape DEF Resolve
  <2>2. room' \in Room \cup {None}
        /\ (room' # None => room # None /\ room'.id = room.id /\ room'.conns = room.conns)
    BY <1>10, <2>1 DEF Resolve, Learns, Room, CollabTypeOK
  <2> QED
    BY <1>10, <2>2 DEF Resolve, CollabTypeOK
<1>11. CASE UNCHANGED vars
  BY <1>11 DEF vars, CollabTypeOK
<1> QED
  BY <1>1, <1>2, <1>3, <1>4, <1>5, <1>6, <1>7, <1>8, <1>9, <1>10, <1>11, <1>12
     DEF Next, Saving

\* Whatever happens to sockets, rooms and persist calls, they keep their shapes,
\* and a room that exists has somebody in it (collab.ts discards empty rooms).
THEOREM CollabTypeCorrect == Spec => []CollabTypeOK
<1>1. QED
  BY CollabTypeInit, CollabTypeNext, PTL DEF Spec

-----------------------------------------------------------------------------
LEMMA KnowInit == Init => KnowInv
<1> SUFFICES ASSUME Init PROVE KnowInv
  OBVIOUS
<1>1. CollabTypeOK
  BY CollabTypeInit
<1>2. PendingInv
  BY DEF Init, PendingInv, Pending, Unwritten
<1>3. SeedsKnow /\ RoomKnows /\ SavesKnow
  BY DEF Init, SeedsKnow, RoomKnows, SavesKnow
<1> QED
  BY <1>1, <1>2, <1>3 DEF KnowInv

\* What the types say of the versions.
LEMMA VersionTypes ==
  ASSUME CollabTypeOK
  PROVE  /\ \A c \in Clients : opening[c] # None =>
              opening[c].updatedAt \in Times \cup {None}
         /\ room # None => room \in Room /\ room.seededUpdatedAt \in Times \cup {None}
         /\ page.updatedAt \in Times /\ clock \in Times
         /\ \A s \in saves : s.state = "started" => s.expected \in Times \cup {None}
         /\ \A s \in saves : s.state = "checked" => s.read \in Times /\ s.now \in Times
         /\ \A s \in saves : s.state = "answered" => s.updatedAt \in Times \cup {None}
<1>1. \A c \in Clients : opening[c] # None => opening[c].updatedAt \in Times \cup {None}
  BY DEF CollabTypeOK, Seed
<1>2. room # None => room \in Room /\ room.seededUpdatedAt \in Times \cup {None}
  BY DEF CollabTypeOK, Room
<1>3. page.updatedAt \in Times /\ clock \in Times
  BY DEF CollabTypeOK, Page
<1> QED
  BY <1>1, <1>2, <1>3, SavesShape

\* Whoever has the text of a version has it with more in it.
LEMMA KnowsMore ==
  ASSUME NEW v, NEW t, NEW u, t \subseteq u, Knows(v, t)
  PROVE  Knows(v, u)
BY DEF Knows

\* What somebody knows about a version stays true.
Lasting == \A v \in Times \cup {None} : \A t : Knows(v, t) => Knows(v, t)'

\* It does while the page rests and no more writes are under way.
LEMMA Resting ==
  ASSUME UNCHANGED <<page, clock>>, Pending' \subseteq Pending
  PROVE  Lasting /\ (PendingInv => PendingInv')
BY DEF Lasting, Knows, Unwritten, PendingInv

LEMMA Clocks ==
  ASSUME "sameTime" \notin Allowed, CollabTypeOK, NEW now \in WriteTimes
  PROVE  now \in Nat /\ now \in Times /\ clock \in Nat /\ now = clock + 1
BY DEF WriteTimes, Times, CollabTypeOK

\* A write brings a version that nobody knows.
LEMMA WritesAreNews ==
  ASSUME "sameTime" \notin Allowed, KnowInv, NEW text, NEW active, WritePage(text, active),
         UNCHANGED saves
  PROVE  Lasting /\ PendingInv' /\ clock' >= clock
<1>1. /\ clock \in Nat /\ clock' = clock + 1
      /\ page'.updatedAt = clock' /\ page'.text = text
  BY Clocks DEF WritePage, KnowInv
<1>2. Pending' = Pending /\ \A s \in Pending : s.now \in Nat /\ s.now <= clock
  BY VersionTypes DEF Pending, KnowInv, SavesKnow, SaveKnows, Times
<1>3. Unwritten(page.updatedAt)' /\ page'.updatedAt <= clock'
  BY <1>1, <1>2 DEF Unwritten
<1>4. PendingInv'
  BY <1>2, <1>3 DEF PendingInv, KnowInv
<1>5. ASSUME NEW v \in Times \cup {None}, NEW t, Knows(v, t)
      PROVE  Knows(v, t)'
  <2>1. v # None => v \in Nat /\ v <= clock /\ Unwritten(v)
    BY <1>5 DEF Knows, Times
  <2>2. v # None => v <= clock' /\ v # page'.updatedAt /\ Unwritten(v)'
    BY <1>1, <1>2, <2>1 DEF Unwritten
  <2> QED
    BY <2>2 DEF Knows
<1> QED
  BY <1>1, <1>4, <1>5 DEF Lasting

\* What lasts is known to seeds, to the room and to persist calls, who stay as they are.
LEMMA KnowledgeLasts ==
  ASSUME KnowInv, Lasting, clock' >= clock, UNCHANGED <<opening, room, rooms>>, clock' \in Nat
  PROVE  SeedsKnow' /\ RoomKnows' /\ \A s \in saves : SaveKnows(s)'
<1> USE DEF KnowInv
<1>1. SeedsKnow'
  BY VersionTypes DEF Lasting, SeedsKnow
<1>2. RoomKnows'
  BY VersionTypes DEF Lasting, RoomKnows
<1>3. ASSUME NEW s \in saves
      PROVE  SaveKnows(s)'
  <2>1. SaveKnows(s)
    BY DEF SavesKnow
  <2>2. s.state = "started" => Knows(s.expected, s.text)'
    BY <2>1, VersionTypes DEF Lasting, SaveKnows
  <2>3. s.state = "checked" /\ s.expected # None => Knows(s.read, s.text)'
    BY <2>1, VersionTypes DEF Lasting, SaveKnows
  <2>4. s.state = "checked" => s.now <= clock'
    <3> SUFFICES ASSUME s.state = "checked"
                 PROVE  s.now <= clock'
      OBVIOUS
    <3>1. s.now \in Nat /\ s.now <= clock /\ clock \in Nat
      BY <2>1, VersionTypes DEF SaveKnows, Times
    <3> QED
      BY <3>1
  <2>5. s.state = "answered" /\ room # None /\ room.id = s.room => Knows(s.updatedAt, room.doc)'
    BY <2>1, VersionTypes DEF Lasting, SaveKnows
  <2> QED
    BY <2>1, <2>2, <2>3, <2>4, <2>5 DEF SaveKnows
<1> QED
  BY <1>1, <1>2, <1>3

\* A write of somebody else leaves everything that is known about older versions.
LEMMA WriteKeepsKnowledge ==
  ASSUME "sameTime" \notin Allowed, KnowInv, CollabTypeOK',
         NEW text, NEW active, WritePage(text, active),
         UNCHANGED <<live, opening, room, rooms, saves>>
  PROVE  KnowInv'
<1>1. clock' \in Nat
  BY DEF CollabTypeOK, Times
<1>2. SeedsKnow' /\ RoomKnows' /\ SavesKnow'
  BY <1>1, WritesAreNews, KnowledgeLasts DEF SavesKnow
<1> QED
  BY <1>2, WritesAreNews DEF KnowInv

\* The persist call of a room knows what the room knows.
LEMMA FlushedKnows ==
  ASSUME KnowInv, room # None
  PROVE  /\ {s \in Flushed(room) : s.state = "checked"} = Pending
         /\ \A s \in Flushed(room) :
              \/ s \in saves
              \/ /\ s.state = "started" /\ s.room = room.id /\ s.room = rooms
                 /\ s.text = room.doc /\ Knows(s.expected, s.text)
BY DEF Flushed, Persist, KnowInv, RoomKnows, CollabTypeOK, Pending

LEMMA KnowNext ==
  ASSUME "sameTime" \notin Allowed, KnowInv, [Next]_vars
  PROVE  KnowInv'
<1> USE CollabAssumption
<1>0. CollabTypeOK /\ CollabTypeOK' /\ clock \in Nat /\ clock' \in Nat
  BY CollabTypeNext DEF KnowInv, CollabTypeOK, Times
<1>1. CASE ApiWrite
  BY <1>0, <1>1, WriteKeepsKnowledge DEF ApiWrite
<1>2. CASE ExplicitSave
  BY <1>0, <1>2, WriteKeepsKnowledge DEF ExplicitSave
<1>3. CASE ArchiveOrRestore
  BY <1>0, <1>3, WriteKeepsKnowledge DEF ArchiveOrRestore
<1>4. ASSUME NEW c \in Clients, Connect(c)
      PROVE  KnowInv'
  <2>0. UNCHANGED <<page, clock, room, rooms, saves>> /\ Pending' = Pending
    BY <1>4 DEF Connect, Pending
  <2>1. Knows(SeedRead.updatedAt, SeedRead.text)
    BY <1>0 DEF Knows, SeedRead, KnowInv, PendingInv
  <2>2. SeedsKnow'
    BY <1>0, <1>4, <2>0, <2>1 DEF Connect, SeedsKnow, Knows, Unwritten, KnowInv, CollabTypeOK
  <2>3. RoomKnows'
    BY <2>0 DEF RoomKnows, Knows, Unwritten, KnowInv
  <2>4. SavesKnow'
    BY <2>0 DEF SavesKnow, SaveKnows, Knows, Unwritten, KnowInv
  <2> QED
    BY <1>0, <2>0, <2>2, <2>3, <2>4, Resting DEF KnowInv
<1>5. ASSUME NEW c \in Clients, Open(c)
      PROVE  KnowInv'
  <2>0. UNCHANGED <<page, clock, saves>> /\ Pending' = Pending
    BY <1>5 DEF Open, Pending
  <2>1. SeedsKnow'
    BY <1>0, <1>5, <2>0 DEF Open, SeedsKnow, Knows, Unwritten, KnowInv, CollabTypeOK
  <2>2. CASE room # None
    <3>1. rooms' = rooms /\ room' # None
          /\ room'.id = room.id /\ room'.doc = room.doc
          /\ room'.seededUpdatedAt = room.seededUpdatedAt
      BY <1>0, <1>5, <2>2 DEF Open, CollabTypeOK, Room
    <3>2. RoomKnows'
      BY <2>0, <2>2, <3>1 DEF RoomKnows, Knows, Unwritten, KnowInv
    <3>3. SavesKnow'
      BY <2>0, <2>2, <3>1 DEF SavesKnow, SaveKnows, Knows, Unwritten, KnowInv
    <3> QED
      BY <1>0, <2>0, <2>1, <3>2, <3>3, Resting DEF KnowInv
  <2>3. CASE room = None
    <3>1. rooms' = rooms + 1 /\ rooms \in Nat
      BY <1>0, <1>5, <2>3 DEF Open, CollabTypeOK
    <3>2. room' = [id |-> rooms', doc |-> opening[c].text, conns |-> {c},
                   dirty |-> FALSE, seededUpdatedAt |-> opening[c].updatedAt]
      BY <1>5, <2>3 DEF Open
    <3>3. RoomKnows'
      BY <1>5, <2>0, <3>2 DEF Open, RoomKnows, SeedsKnow, Knows, Unwritten, KnowInv
    <3>4. ASSUME NEW s \in saves
          PROVE  s.room <= rooms /\ s.room \in Nat /\ s.room # rooms' /\ s.room <= rooms'
      BY <1>0, <3>1, <3>4, SavesShape DEF SavesKnow, SaveKnows, KnowInv
    <3>5. SavesKnow'
      BY <2>0, <3>2, <3>4 DEF SavesKnow, SaveKnows, Knows, Unwritten, KnowInv
    <3> QED
      BY <1>0, <2>0, <2>1, <3>3, <3>5, Resting DEF KnowInv
  <2> QED
    BY <2>2, <2>3
<1>6. ASSUME NEW c \in Clients, Edit(c)
      PROVE  KnowInv'
  <2>0. UNCHANGED <<page, clock, opening, rooms, saves>> /\ Pending' = Pending
    BY <1>6 DEF Edit, Pending
  <2>1. room # None /\ room' # None /\ room'.id = room.id /\ room.doc \subseteq room'.doc
        /\ room'.seededUpdatedAt = room.seededUpdatedAt
    BY <1>0, <1>6, RoomEdited DEF Edit, FreshEdits, CollabTypeOK
  <2>2. SeedsKnow' /\ RoomKnows'
    BY <2>0, <2>1 DEF SeedsKnow, RoomKnows, Knows, Unwritten, KnowInv
  <2>3. SavesKnow'
    BY <2>0, <2>1 DEF SavesKnow, SaveKnows, Knows, Unwritten, KnowInv
  <2> QED
    BY <1>0, <2>0, <2>2, <2>3, Resting DEF KnowInv
<1>7. ASSUME UNCHANGED <<page, clock, opening, rooms>>, room # None,
             saves' \subseteq Flushed(room),
             \/ room' = None
             \/ /\ room' # None /\ room'.id = room.id /\ room'.doc = room.doc
                /\ room'.seededUpdatedAt = room.seededUpdatedAt
      PROVE  KnowInv'
  <2>0. Pending' \subseteq Pending
    BY <1>7, FlushedKnows DEF Pending
  <2>1. SeedsKnow' /\ RoomKnows'
    BY <1>7, <2>0 DEF SeedsKnow, RoomKnows, Knows, Unwritten, KnowInv
  <2>2. ASSUME NEW s \in saves'
        PROVE  SaveKnows(s)'
    <3>1. CASE s \in saves
      BY <1>7, <2>0, <3>1 DEF SavesKnow, SaveKnows, Knows, Unwritten, KnowInv
    <3>2. CASE s \notin saves
      <4>1. /\ s.state = "started" /\ s.room = room.id /\ s.room = rooms
            /\ s.text = room.doc /\ Knows(s.expected, s.text)
        BY <1>7, <3>2, FlushedKnows
      <4>2. Knows(s.expected, s.text)'
        BY <1>7, <2>0, <4>1 DEF Knows, Unwritten
      <4>3. rooms \in Nat
        BY <1>0 DEF CollabTypeOK
      <4> QED
        BY <1>7, <4>1, <4>2, <4>3 DEF SaveKnows
    <3> QED
      BY <3>1, <3>2
  <2> QED
    BY <1>0, <1>7, <2>0, <2>1, <2>2, Resting DEF KnowInv, SavesKnow
<1>8. ASSUME NEW c \in Clients, Close(c)
      PROVE  KnowInv'
  <2>1. CASE UNCHANGED <<room, saves>>
    <3>1. UNCHANGED <<page, clock, opening, room, rooms, saves>> /\ Pending' = Pending
      BY <1>8, <2>1 DEF Close, Pending
    <3>2. SeedsKnow' /\ RoomKnows' /\ SavesKnow'
      BY <1>0, <3>1, Resting, KnowledgeLasts DEF SavesKnow
    <3> QED
      BY <1>0, <3>1, <3>2, Resting DEF KnowInv
  <2>2. CASE room # None /\ LeaveRoom(c)
    <3>1. saves' \subseteq Flushed(room)
      BY <2>2 DEF LeaveRoom, Flushed
    <3>2. \/ room' = None
          \/ /\ room' # None /\ room'.id = room.id /\ room'.doc = room.doc
             /\ room'.seededUpdatedAt = room.seededUpdatedAt
      BY <1>0, <2>2 DEF LeaveRoom, CollabTypeOK, Room
    <3> QED
      BY <1>7, <1>8, <2>2, <3>1, <3>2 DEF Close
  <2> QED
    BY <1>8, <2>1, <2>2 DEF Close
<1>9. CASE TimerFires
  <2>1. \/ room' = None
        \/ /\ room' # None /\ room'.id = room.id /\ room'.doc = room.doc
           /\ room'.seededUpdatedAt = room.seededUpdatedAt
    BY <1>0, <1>9 DEF TimerFires, CollabTypeOK, Room
  <2> QED
    BY <1>7, <1>9, <2>1 DEF TimerFires
<1>10. ASSUME NEW s \in saves, CheckContent(s)
       PROVE  KnowInv'
  <2>0. UNCHANGED <<page, opening, room, rooms>> /\ s.state = "started"
    BY <1>10 DEF CheckContent
  <2>1. ASSUME Accepts(s), NEW now \in WriteTimes, clock' = now,
               saves' = (saves \ {s}) \cup {Checked(s, now)}
        PROVE  KnowInv'
    <3>0. PICK checked : checked = Checked(s, now)
      OBVIOUS
    <3>1. /\ clock' = clock + 1 /\ now \in Nat /\ now = clock'
          /\ checked.room = s.room /\ checked.text = s.text /\ checked.expected = s.expected
          /\ checked.read = page.updatedAt /\ checked.now = now /\ checked.state = "checked"
      BY <1>0, <2>0, <2>1, <3>0, Clocks, CheckedTypes
    <3>2. saves' \subseteq saves \cup {checked} /\ Pending' = Pending \cup {checked}
      BY <2>0, <2>1, <3>0, <3>1 DEF Pending
    <3>3. \A x \in Pending : x.now \in Nat /\ x.now <= clock
      BY <1>0, VersionTypes DEF Pending, KnowInv, SavesKnow, SaveKnows, Times
    <3>4. Lasting
      <4> SUFFICES ASSUME NEW v \in Times \cup {None}, NEW t, Knows(v, t)
                   PROVE  Knows(v, t)'
        BY DEF Lasting
      <4>1. v # None => v \in Nat /\ v <= clock /\ Unwritten(v)
        BY DEF Knows, Times
      <4>2. v # None => v <= clock' /\ Unwritten(v)'
        BY <1>0, <3>1, <3>2, <4>1 DEF Unwritten
      <4> QED
        BY <2>0, <4>2 DEF Knows
    <3>5. PendingInv'
      <4>1. page.updatedAt \in Nat /\ page.updatedAt <= clock /\ Unwritten(page.updatedAt)
        BY <1>0, VersionTypes DEF KnowInv, PendingInv, Times
      <4>2. page'.updatedAt <= clock' /\ Unwritten(page.updatedAt)'
        BY <1>0, <2>0, <3>1, <3>2, <4>1 DEF Unwritten
      <4>3. \A x, y \in Pending' : x.now = y.now => x = y
        BY <1>0, <3>1, <3>2, <3>3 DEF KnowInv, PendingInv
      <4> QED
        BY <4>2, <4>3 DEF PendingInv
    <3>6. clock' >= clock
      BY <1>0, <3>1
    <3>7. SeedsKnow' /\ RoomKnows' /\ \A x \in saves : SaveKnows(x)'
      BY <1>0, <2>0, <3>4, <3>6, KnowledgeLasts
    <3>8. SaveKnows(checked)'
      <4>1. SaveKnows(s)
        BY DEF KnowInv, SavesKnow
      <4>2. checked.expected # None => Knows(checked.read, checked.text)
        BY <2>0, <2>1, <3>1, <4>1 DEF Accepts, SaveKnows
      <4>3. checked.expected # None => Knows(checked.read, checked.text)'
        BY <1>0, <3>1, <3>4, <4>2, VersionTypes DEF Lasting
      <4> QED
        BY <1>0, <2>0, <3>1, <4>1, <4>3 DEF SaveKnows
    <3> QED
      BY <1>0, <3>2, <3>5, <3>7, <3>8 DEF KnowInv, SavesKnow
  <2>2. CASE saves' = Answered(s, None) /\ UNCHANGED clock
    <3> DEFINE answer == [room |-> s.room, updatedAt |-> None, state |-> "answered"]
    <3>1. answer.room = s.room /\ answer.updatedAt = None /\ answer.state = "answered"
      OBVIOUS
    <3>2. saves' \subseteq saves \cup {answer}
      BY <2>2 DEF Answered
    <3> HIDE DEF answer
    <3>3. Pending' \subseteq Pending
      BY <3>1, <3>2 DEF Pending
    <3>4. SeedsKnow' /\ RoomKnows' /\ \A x \in saves : SaveKnows(x)'
      BY <1>0, <2>0, <2>2, <3>3, Resting, KnowledgeLasts
    <3>5. SaveKnows(answer)'
      <4>1. s.room <= rooms
        BY DEF KnowInv, SavesKnow, SaveKnows
      <4> QED
        BY <2>0, <3>1, <4>1 DEF SaveKnows, Knows
    <3> QED
      BY <1>0, <2>0, <2>2, <3>2, <3>3, <3>4, <3>5, Resting DEF KnowInv, SavesKnow
  <2> QED
    BY <1>10, <2>1, <2>2 DEF CheckContent
<1>13. ASSUME NEW s \in saves, WriteContent(s)
       PROVE  KnowInv'
  <2>0. /\ UNCHANGED <<clock, opening, room, rooms>> /\ s \in Pending
        /\ saves' = Answered(s, s.now)
    BY <1>13 DEF WriteContent, Pending
  <2>1. page'.updatedAt = s.now /\ page'.text = s.text
    BY <1>0, <1>13 DEF WriteContent, CollabTypeOK, Page
  <2> DEFINE answer == [room |-> s.room, updatedAt |-> s.now, state |-> "answered"]
  <2>2. answer.room = s.room /\ answer.updatedAt = s.now /\ answer.state = "answered"
    OBVIOUS
  <2>3. saves' = (saves \ {s}) \cup {answer}
    BY <2>0 DEF Answered
  <2> HIDE DEF answer
  <2>4. Pending' = Pending \ {s}
    BY <2>0, <2>2, <2>3 DEF Pending
  <2>5. SaveKnows(s) /\ s.now <= clock
    BY <1>13 DEF WriteContent, KnowInv, SavesKnow, SaveKnows
  <2>6. Unwritten(s.now)'
    BY <2>0, <2>4 DEF Unwritten, KnowInv, PendingInv
  <2>7. PendingInv'
    BY <2>0, <2>1, <2>4, <2>5, <2>6 DEF KnowInv, PendingInv
  <2>8. Lasting
    <3> SUFFICES ASSUME NEW v \in Times \cup {None}, NEW t, Knows(v, t)
                 PROVE  Knows(v, t)'
      BY DEF Lasting
    <3>1. v # None => v <= clock /\ Unwritten(v) /\ v # s.now
      BY <2>0 DEF Knows, Unwritten
    <3>2. Unwritten(v) => Unwritten(v)'
      BY <2>4 DEF Unwritten
    <3> QED
      BY <2>0, <2>1, <3>1, <3>2 DEF Knows
  <2>9. SeedsKnow' /\ RoomKnows' /\ \A x \in saves : SaveKnows(x)'
    BY <1>0, <2>0, <2>8, KnowledgeLasts
  <2>10. SaveKnows(answer)'
    <3>1. room # None /\ room.id = s.room => s.text \subseteq room.doc
      BY <1>13, <2>5 DEF WriteContent, SaveKnows
    <3>2. room # None /\ room.id = s.room => Knows(s.now, room.doc)'
      BY <2>0, <2>1, <2>5, <2>6, <3>1 DEF Knows
    <3> QED
      BY <2>0, <2>2, <2>5, <3>2 DEF SaveKnows
  <2> QED
    BY <1>0, <2>3, <2>7, <2>9, <2>10 DEF KnowInv, SavesKnow
<1>11. ASSUME NEW s \in saves, Resolve(s)
       PROVE  KnowInv'
  <2>0. UNCHANGED <<page, clock, opening, rooms>> /\ saves' \subseteq saves /\ s.state = "answered"
        /\ Pending' \subseteq Pending
    BY <1>11 DEF Resolve, Pending
  <2>1. CASE UNCHANGED room
    <3>1. SeedsKnow' /\ RoomKnows' /\ SavesKnow'
      BY <1>0, <2>0, <2>1, Resting, KnowledgeLasts DEF SavesKnow
    <3> QED
      BY <1>0, <2>0, <3>1, Resting DEF KnowInv
  <2>2. CASE /\ s.updatedAt # None /\ room # None /\ room.id = s.room
             /\ room' = [room EXCEPT !.seededUpdatedAt = s.updatedAt]
    <3>1. room' # None => room'.id = room.id /\ room'.doc = room.doc
                          /\ room'.seededUpdatedAt = s.updatedAt
      BY <1>0, <2>2 DEF CollabTypeOK, Room
    <3>2. Knows(s.updatedAt, room.doc)
      BY <2>0, <2>2 DEF SavesKnow, SaveKnows, KnowInv
    <3>3. SeedsKnow'
      BY <2>0 DEF SeedsKnow, Knows, Unwritten, KnowInv
    <3>4. RoomKnows'
      BY <2>0, <3>1, <3>2 DEF RoomKnows, Knows, Unwritten
    <3>5. SavesKnow'
      BY <2>0, <2>2, <3>1 DEF SavesKnow, SaveKnows, Knows, Unwritten, KnowInv
    <3> QED
      BY <1>0, <2>0, <3>3, <3>4, <3>5, Resting DEF KnowInv
  <2> QED
    BY <1>11, <2>1, <2>2 DEF Resolve, Learns
<1>12. CASE UNCHANGED vars
  <2>1. UNCHANGED <<page, clock, opening, room, rooms, saves>> /\ Pending' = Pending
    BY <1>12 DEF vars, Pending
  <2>2. SeedsKnow' /\ RoomKnows' /\ SavesKnow'
    BY <1>0, <2>1, Resting, KnowledgeLasts DEF SavesKnow
  <2> QED
    BY <1>0, <2>1, <2>2, Resting DEF KnowInv
<1> QED
  BY <1>1, <1>2, <1>3, <1>4, <1>5, <1>6, <1>8, <1>9, <1>10, <1>11, <1>12, <1>13 DEF Next, Saving

\* The stale check keeps every edit of others: an autosave of a room that was
\* seeded from the page drops an edit only when somebody wrote the page between its
\* check and its write, for any number of clients, edits, rooms and other writers, as
\* long as no two writes fall in one millisecond.
THEOREM SeededAutosavesKeepEditsHolds ==
  "sameTime" \notin Allowed => (Spec => SeededAutosavesKeepEdits)
<1> SUFFICES ASSUME "sameTime" \notin Allowed
             PROVE  Spec => SeededAutosavesKeepEdits
  OBVIOUS
<1>1. Init => KnowInv
  BY KnowInit
<1>2. KnowInv /\ [Next]_vars => KnowInv'
  BY KnowNext
<1>3. KnowInv => [\A s \in saves :
        WriteContent(s) /\ s.expected # None /\ page.updatedAt = s.read
          => page.text \subseteq page'.text]_vars
  <2> SUFFICES ASSUME KnowInv, NEW s \in saves, WriteContent(s), s.expected # None,
                      page.updatedAt = s.read
               PROVE  page.text \subseteq page'.text
    OBVIOUS
  <2>1. page'.text = s.text
    BY DEF WriteContent, KnowInv, CollabTypeOK, Page
  <2>2. Knows(s.read, s.text)
    BY DEF WriteContent, KnowInv, SavesKnow, SaveKnows
  <2>3. s.read # None
    BY SavesShape, CollabAssumption DEF WriteContent, KnowInv, Times
  <2> QED
    BY <2>1, <2>2, <2>3 DEF Knows
<1> QED
  BY <1>1, <1>2, <1>3, PTL DEF Spec, SeededAutosavesKeepEdits

-----------------------------------------------------------------------------
(* What an undisturbed session keeps: nobody but the rooms writes the page, *)
(* a flush waits for the one before it, no socket closes while it is being  *)
(* authenticated, and a room is made of what the last save left.            *)

Undisturbed == Allowed \subseteq {"sameTime"}

\* A socket that is being authenticated is open and in no room; those in the room
\* are open.
SocketsInv ==
  /\ \A c \in Clients : opening[c] # None => c \in live /\ (room # None => c \notin room.conns)
  /\ room # None => room.conns \subseteq live

\* There is one persist call at a time, of the last room.  It expects the present
\* version, or tells it.
OneSave ==
  \A s \in saves :
    /\ s.room = rooms
    /\ \A x \in saves : x = s
    /\ s.state = "started" => s.expected = page.updatedAt
    /\ s.state = "answered" => s.updatedAt = page.updatedAt

\* The text that is in the page, or on its way there.
Underway(text) ==
  \/ text \subseteq page.text /\ \A s \in saves : s.state = "answered"
  \/ \E s \in saves : s.state # "answered" /\ text \subseteq s.text

\* The room holds every edit, knows the present version unless an answer is about
\* to tell it, and has sent what it holds unless its timer runs.  Without a room
\* every edit is in the page or on its way.
EditsInv ==
  /\ room # None =>
       /\ made \subseteq room.doc
       /\ (\A s \in saves : s.state # "answered") => room.seededUpdatedAt = page.updatedAt
       /\ ~ room.dirty => Underway(room.doc)
  /\ room = None => Underway(made)

SavedInv ==
  /\ CollabTypeOK
  /\ page.active
  /\ SocketsInv /\ OneSave /\ EditsInv

LEMMA SavedInit == Init => SavedInv
BY CollabTypeInit DEF Init, SavedInv, SocketsInv, OneSave, EditsInv, Underway

LEMMA SavedNext ==
  ASSUME Undisturbed, SavedInv, [Next]_vars
  PROVE  SavedInv'
<1> USE CollabAssumption
<1>0. CollabTypeOK /\ CollabTypeOK' /\ page.active
      /\ (room # None => room \in Room /\ room.id = rooms /\ room.conns # {})
  BY CollabTypeNext DEF SavedInv, CollabTypeOK
<1>1. ~ ApiWrite /\ ~ ExplicitSave /\ ~ ArchiveOrRestore
  BY DEF Undisturbed, ApiWrite, ExplicitSave, ArchiveOrRestore
<1>2. ASSUME NEW c \in Clients, Connect(c)
      PROVE  SavedInv'
  <2>1. opening' \in [Clients -> Seed \cup {None}] /\ opening \in [Clients -> Seed \cup {None}]
    BY <1>0 DEF CollabTypeOK
  <2>2. SocketsInv'
    BY <1>2, <2>1 DEF Connect, SavedInv, SocketsInv
  <2>3. OneSave' /\ EditsInv'
    BY <1>2 DEF Connect, SavedInv, OneSave, EditsInv, Underway
  <2> QED
    BY <1>0, <1>2, <2>2, <2>3 DEF Connect, SavedInv
<1>3. ASSUME NEW c \in Clients, Open(c)
      PROVE  SavedInv'
  <2>1. opening' = [opening EXCEPT ![c] = None] /\ opening \in [Clients -> Seed \cup {None}]
    BY <1>0, <1>3 DEF Open, CollabTypeOK
  <2>2. c \in live /\ live' = live
    BY <1>3 DEF Open, SavedInv, SocketsInv
  <2>3. CASE room # None
    <3>1. room' # None /\ room'.conns = room.conns \cup {c} /\ room'.doc = room.doc
          /\ room'.seededUpdatedAt = room.seededUpdatedAt /\ room'.dirty = room.dirty
      BY <1>0, <1>3, <2>3 DEF Open, Room, CollabTypeOK
    <3>2. SocketsInv'
      BY <2>1, <2>2, <2>3, <3>1 DEF SavedInv, SocketsInv
    <3>3. OneSave' /\ EditsInv'
      BY <1>3, <2>3, <3>1 DEF Open, SavedInv, OneSave, EditsInv, Underway
    <3> QED
      BY <1>0, <1>3, <3>2, <3>3 DEF Open, SavedInv
  <2>4. CASE room = None
    <3>1. saves = {} /\ opening[c] = SeedRead
      BY <1>3, <2>4 DEF Open, Undisturbed
    <3>2. room' = [id |-> rooms', doc |-> opening[c].text, conns |-> {c},
                   dirty |-> FALSE, seededUpdatedAt |-> opening[c].updatedAt]
      BY <1>3, <2>4 DEF Open
    <3>3. room'.conns = {c} /\ room'.doc = page.text /\ room'.seededUpdatedAt = page.updatedAt
      BY <1>0, <3>1, <3>2 DEF SeedRead
    <3>4. room' # None
      <4>1. rooms < MaxRooms /\ rooms' = rooms + 1 /\ rooms' \in 1 .. MaxRooms
        BY <1>0, <1>3, <2>4 DEF Open, CollabTypeOK
      <4>2. opening[c] \in Seed
        BY <1>0, <1>3 DEF Open, CollabTypeOK
      <4>3. room' \in Room
        BY <3>2, <4>1, <4>2 DEF Room, Seed
      <4> QED
        BY <4>3
    <3>5. SocketsInv'
      BY <2>1, <2>2, <3>3, <3>4 DEF SavedInv, SocketsInv
    <3>6. made \subseteq page.text
      BY <2>4, <3>1 DEF SavedInv, EditsInv, Underway
    <3>7. OneSave' /\ EditsInv'
      BY <1>3, <3>1, <3>3, <3>6, <3>4 DEF Open, SavedInv, OneSave, EditsInv, Underway
    <3> QED
      BY <1>0, <1>3, <3>5, <3>7 DEF Open, SavedInv
  <2> QED
    BY <2>3, <2>4
<1>4. ASSUME NEW c \in Clients, Edit(c)
      PROVE  SavedInv'
  <2>1. PICK e \in FreshEdits \ room.doc :
          /\ room' = Scheduled([room EXCEPT !.doc = @ \cup {e}])
          /\ made' = made \cup {e}
    BY <1>4 DEF Edit
  <2>2. room # None /\ room' # None /\ room'.conns = room.conns /\ room'.doc = room.doc \cup {e}
        /\ room'.seededUpdatedAt = room.seededUpdatedAt /\ room'.dirty = TRUE
    BY <1>0, <1>4, <2>1, RoomEdited DEF Edit, FreshEdits
  <2>3. SocketsInv' /\ OneSave' /\ EditsInv'
    BY <1>4, <2>1, <2>2 DEF Edit, SavedInv, SocketsInv, OneSave, EditsInv
  <2> QED
    BY <1>0, <1>4, <2>3 DEF Edit, SavedInv
\* A room that may flush has no persist call left, so that it knows the version.
<1>5. ASSUME room # None, MayFlush(room)
      PROVE  /\ saves = {} /\ made \subseteq room.doc
             /\ room.seededUpdatedAt = page.updatedAt
             /\ ~ room.dirty => room.doc \subseteq page.text
             /\ room.dirty => Flushed(room) = {Persist(room)}
             /\ ~ room.dirty => Flushed(room) = {}
  <2>1. saves = {}
    BY <1>0, <1>5 DEF MayFlush, Undisturbed, InFlight, SavedInv, OneSave
  <2> QED
    BY <1>5, <2>1 DEF SavedInv, EditsInv, Underway, Flushed
<1>6. ASSUME room # None
      PROVE  /\ Persist(room).room = rooms /\ Persist(room).text = room.doc
             /\ Persist(room).expected = room.seededUpdatedAt
             /\ Persist(room).state = "started"
  BY <1>0, <1>6 DEF Persist
<1>7. ASSUME NEW c \in Clients, Close(c)
      PROVE  SavedInv'
  <2>1. room # None /\ c \in room.conns /\ LeaveRoom(c)
    BY <1>7 DEF Close, Undisturbed
  <2>2. CASE room.conns # {c} /\ room' = [room EXCEPT !.conns = @ \ {c}] /\ UNCHANGED saves
    <3>1. room' # None /\ room'.conns = room.conns \ {c} /\ room'.doc = room.doc
          /\ room'.seededUpdatedAt = room.seededUpdatedAt /\ room'.dirty = room.dirty
      BY <1>0, <2>1, <2>2 DEF Room, CollabTypeOK
    <3>2. SocketsInv'
      BY <1>7, <2>1, <3>1 DEF Close, SavedInv, SocketsInv
    <3>3. OneSave' /\ EditsInv'
      BY <1>7, <2>1, <2>2, <3>1 DEF Close, SavedInv, OneSave, EditsInv, Underway
    <3> QED
      BY <1>0, <1>7, <3>2, <3>3 DEF Close, SavedInv
  <2>3. CASE room.conns = {c} /\ MayFlush(room) /\ saves' = Flushed(room) /\ room' = None
    <3>1. SocketsInv'
      BY <1>7, <2>1, <2>3 DEF Close, SavedInv, SocketsInv
    <3>2. OneSave' /\ EditsInv'
      BY <1>5, <1>6, <1>7, <2>1, <2>3 DEF Close, OneSave, EditsInv, Underway
    <3> QED
      BY <1>0, <1>7, <3>1, <3>2 DEF Close, SavedInv
  <2> QED
    BY <2>1, <2>2, <2>3 DEF LeaveRoom
<1>8. CASE TimerFires
  <2>1. room' # None /\ room'.conns = room.conns /\ room'.doc = room.doc
        /\ room'.seededUpdatedAt = room.seededUpdatedAt
    BY <1>0, <1>8 DEF TimerFires, Room, CollabTypeOK
  <2>2. SocketsInv'
    BY <1>8, <2>1 DEF TimerFires, SavedInv, SocketsInv
  <2>3. OneSave' /\ EditsInv'
    BY <1>5, <1>6, <1>8, <2>1 DEF TimerFires, OneSave, EditsInv, Underway
  <2> QED
    BY <1>0, <1>8, <2>2, <2>3 DEF TimerFires, SavedInv
<1>9. ASSUME NEW s \in saves, CheckContent(s)
      PROVE  SavedInv'
  <2>1. s.state = "started" /\ s.expected = page.updatedAt /\ saves = {s} /\ s.room = rooms
    BY <1>9 DEF CheckContent, SavedInv, OneSave
  <2>2. PICK now \in WriteTimes : saves' = (saves \ {s}) \cup {Checked(s, now)}
    BY <1>0, <1>9, <2>1 DEF CheckContent, Accepts
  <2> DEFINE checked == Checked(s, now)
  <2>3. saves' = {checked}
    BY <2>1, <2>2
  <2>4. checked.state = "checked" /\ checked.room = rooms /\ checked.text = s.text
    BY <2>1 DEF Checked
  <2> HIDE DEF checked
  <2>5. SocketsInv' /\ OneSave'
    BY <1>9, <2>3, <2>4 DEF CheckContent, SavedInv, SocketsInv, OneSave
  <2>6. EditsInv'
    BY <1>9, <2>1, <2>3, <2>4 DEF CheckContent, SavedInv, EditsInv, Underway
  <2> QED
    BY <1>0, <1>9, <2>5, <2>6 DEF CheckContent, SavedInv
<1>12. ASSUME NEW s \in saves, WriteContent(s)
       PROVE  SavedInv'
  <2>1. s.state = "checked" /\ saves = {s} /\ s.room = rooms
    BY <1>12 DEF WriteContent, SavedInv, OneSave
  <2>2. page'.text = s.text /\ page'.active /\ page'.updatedAt = s.now
    BY <1>0, <1>12 DEF WriteContent, CollabTypeOK, Page
  <2> DEFINE answer == [room |-> s.room, updatedAt |-> s.now, state |-> "answered"]
  <2>3. saves' = {answer} /\ answer.state = "answered" /\ answer.room = rooms
        /\ answer.updatedAt = page'.updatedAt
    BY <1>12, <2>1, <2>2 DEF WriteContent, Answered
  <2> HIDE DEF answer
  <2>4. SocketsInv' /\ OneSave'
    BY <1>12, <2>3 DEF WriteContent, SavedInv, SocketsInv, OneSave
  <2>5. EditsInv'
    BY <1>12, <2>1, <2>2, <2>3 DEF WriteContent, SavedInv, EditsInv, Underway
  <2> QED
    BY <1>0, <2>2, <2>4, <2>5 DEF SavedInv
<1>10. ASSUME NEW s \in saves, Resolve(s)
       PROVE  SavedInv'
  <2>1. s.state = "answered" /\ s.updatedAt = page.updatedAt /\ saves = {s} /\ s.room = rooms
        /\ saves' = {}
    BY <1>10 DEF Resolve, SavedInv, OneSave
  <2>2. s.updatedAt # None
    BY <1>0, <2>1 DEF CollabTypeOK, Page, Times
  <2>3. CASE room = None
    <3>1. room' = None
      BY <1>10, <2>3 DEF Resolve, Learns
    <3>2. SocketsInv' /\ OneSave' /\ EditsInv'
      BY <1>10, <2>1, <2>3, <3>1 DEF Resolve, SavedInv, SocketsInv, OneSave, EditsInv, Underway
    <3> QED
      BY <1>0, <1>10, <3>2 DEF Resolve, SavedInv
  <2>4. CASE room # None
    <3>1. room' = [room EXCEPT !.seededUpdatedAt = page.updatedAt]
      BY <1>0, <1>10, <2>1, <2>2, <2>4 DEF Resolve, Learns
    <3>2. page.updatedAt \in Times
      BY <1>0 DEF CollabTypeOK, Page
    <3>3. room' \in Room /\ room'.conns = room.conns /\ room'.doc = room.doc
          /\ room'.seededUpdatedAt = page.updatedAt /\ room'.dirty = room.dirty
      BY <1>0, <2>4, <3>1, <3>2 DEF Room
    <3>4. room' # None
      BY <3>3
    <3>5. SocketsInv' /\ OneSave' /\ EditsInv'
      BY <1>10, <2>1, <2>4, <3>3, <3>4
        DEF Resolve, SavedInv, SocketsInv, OneSave, EditsInv, Underway
    <3> QED
      BY <1>0, <1>10, <3>5 DEF Resolve, SavedInv
  <2> QED
    BY <2>3, <2>4
<1>11. CASE UNCHANGED vars
  BY <1>11, <1>0 DEF vars, SavedInv, SocketsInv, OneSave, EditsInv, Underway
<1> QED
  BY <1>1, <1>2, <1>3, <1>4, <1>7, <1>8, <1>9, <1>10, <1>11, <1>12
     DEF Next, Saving

\* An undisturbed session loses nothing: a room without sockets is gone, and when
\* it is gone and its last save has answered, the page has every edit that was
\* ever made in a room (hub.close flushes before it discards), for any number of
\* clients, edits and rooms, also when writes fall in one millisecond.
THEOREM RoomsAreSaved ==
  ASSUME Undisturbed
  PROVE  Spec => []RoomInv
<1>1. Init => SavedInv
  BY SavedInit
<1>2. SavedInv /\ [Next]_vars => SavedInv'
  BY SavedNext
<1>3. SavedInv => RoomInv
  <2> SUFFICES ASSUME SavedInv PROVE RoomInv
    OBVIOUS
  <2>1. ClosedSessionIsSaved
    BY DEF SavedInv, EditsInv, Underway, ClosedSessionIsSaved
  <2>2. EmptyRoomIsDiscarded
    BY DEF SavedInv, SocketsInv, CollabTypeOK, EmptyRoomIsDiscarded
  <2> QED
    BY <2>1, <2>2 DEF RoomInv, SavedInv
<1> QED
  BY <1>1, <1>2, <1>3, PTL DEF Spec

=============================================================================
