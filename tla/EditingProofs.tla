---------------------------- MODULE EditingProofs ----------------------------
(***************************************************************************)
(* What holds around a page that is edited: of the editor in a browser     *)
(* (WebEditor), for any edits, bounds and users; and of those who are on   *)
(* the page (Presence), for any tabs, paths and sockets.                   *)
(***************************************************************************)
EXTENDS WebEditor, Presence, TLAPS

-----------------------------------------------------------------------------
(* The editor.  What it shows holds the page it would replace, and what    *)
(* it gives up has gone into a draft or was given up by the user.          *)

\* A page at the server.
ServerPage == [text : SUBSET Words, path : PagePaths, updatedAt : Nat]

\* An update on its way, and a write of others.
Request == [state : {"none", "sent", "checked"}, content : SUBSET Words,
            expectedUpdatedAt : Nat, read : Nat]
OthersText == [text : SUBSET Words, read : Nat]

EditorShape ==
  /\ EditorTypeOK
  /\ edited \in ServerPage
  /\ original \in [path : PagePaths, updatedAt : Nat]
  /\ edited.text \subseteq typed \cup others
  /\ typed \subseteq Words /\ others \subseteq Words
  /\ draft.content \subseteq typed \cup others
  /\ request \in Request /\ request.content \subseteq typed \cup others
  /\ request.expectedUpdatedAt <= edited.updatedAt
  /\ other \in OthersText /\ other.text \subseteq typed \cup others
  /\ other.read <= edited.updatedAt

\* While save waits for an update, the update has the version the editor has, and no more
\* than its content; what was checked was the version it expects.
UpdateIsSaves ==
  /\ request.state = "none" => request = NoRequest
  /\ phase = "updating" => /\ request.state # "none" /\ request.content \subseteq content
                           /\ request.expectedUpdatedAt = original.updatedAt
  /\ request.state = "checked" => request.read = request.expectedUpdatedAt

\* What the user gave up, once he has put back a draft.
Regained == IF restored THEN given ELSE {}

\* The text of the page is in the editor while the editor may replace it: its own update
\* goes out when nobody has written since, the room's autosave when nobody ever has.  So it
\* is in the update, and in a write of others, as long as the version is the one they read.
PageIsShown ==
  /\ phase \notin {"listing", "left"} /\ edited.updatedAt = original.updatedAt =>
       edited.text \subseteq content \cup Regained
  /\ phase # "left" /\ others = {} => edited.text \subseteq content \cup Regained
  /\ request.state # "none" /\ edited.updatedAt = request.expectedUpdatedAt =>
       edited.text \subseteq request.content \cup Regained
  /\ other # NoWrite => others # {}
  /\ other # NoWrite /\ edited.updatedAt = other.read => edited.text \subseteq other.text

\* A patient user: a draft is in the content before it is dropped, or the content in the
\* draft before the page is loaded again; what was saved is at the server.  What is checked
\* is written before anything else is.
DraftIsDealtWith ==
  manner \subseteq {"room"} =>
    /\ phase \in {"asking", "updating", "updated", "moving"} => draft.content \subseteq content
    /\ phase = "reloading" => content \subseteq draft.content
    /\ phase \in {"updated", "moving", "listing"} => content \subseteq edited.text
    /\ phase # "left" => /\ savedDraft.content \subseteq content \cup given
                         /\ savedDraft.content \subseteq edited.text \cup given
    /\ phase = "updating" => request.content = content
    /\ phase = "left" => request = NoRequest
    /\ request.state = "checked" => edited.updatedAt = request.read /\ other = NoWrite
    /\ other # NoWrite => edited.updatedAt = other.read

EditorKeeps ==
  EditorShape /\ UpdateIsSaves /\ PageIsShown /\ DraftIsDealtWith /\ TypedTextIsKept

LEMMA EditorStart ==
  ASSUME MaxUpdates \in Nat, EditorInit
  PROVE  EditorKeeps
<1>1. EditorShape
  BY DEF EditorInit, EditorShape, EditorTypeOK, NoDraft, Draft, PagePaths, Phases, ServerPage,
         NoRequest, NoWrite, Request, OthersText
<1>2. UpdateIsSaves
  BY DEF EditorInit, UpdateIsSaves, NoRequest
<1>3. PageIsShown /\ DraftIsDealtWith
  BY DEF EditorInit, PageIsShown, DraftIsDealtWith, Regained, NoDraft, NoRequest
<1>4. TypedTextIsKept
  BY DEF EditorInit, TypedTextIsKept, Kept
<1> QED
  BY <1>1, <1>2, <1>3, <1>4 DEF EditorKeeps

LEMMA WrittenPage ==
  ASSUME NEW p \in ServerPage, NEW text \in SUBSET Words, NEW n \in Nat
  PROVE  [p EXCEPT !.text = text, !.updatedAt = n] \in ServerPage
BY DEF ServerPage

LEMMA MovedPage ==
  ASSUME NEW p \in ServerPage, NEW place \in PagePaths, NEW n \in Nat
  PROVE  [p EXCEPT !.path = place, !.updatedAt = n] \in ServerPage
BY DEF ServerPage

LEMMA EditorWrites ==
  ASSUME EditorShape, NEW text \in SUBSET Words,
         edited' = [edited EXCEPT !.text = text, !.updatedAt = @ + 1]
  PROVE  /\ edited' \in ServerPage /\ edited'.text = text /\ edited'.path = edited.path
         /\ edited'.updatedAt = edited.updatedAt + 1
<1>1. edited \in ServerPage
  BY DEF EditorShape
<1>2. edited.updatedAt + 1 \in Nat
  BY <1>1 DEF ServerPage
<1>3. edited' \in ServerPage
  BY <1>1, <1>2, WrittenPage
<1> QED
  BY <1>1, <1>3 DEF ServerPage

LEMMA RoomWritten ==
  ASSUME EditorShape, RoomSaves
  PROVE  /\ edited' \in ServerPage /\ edited'.text = content /\ edited'.path = edited.path
         /\ edited'.updatedAt = edited.updatedAt + 1
<1>1. content \in SUBSET Words
  BY DEF EditorShape, EditorTypeOK
<1> QED
  BY <1>1, EditorWrites DEF RoomSaves

LEMMA SentWritten ==
  ASSUME EditorShape, WriteSent
  PROVE  /\ edited' \in ServerPage /\ edited'.text = request.content
         /\ edited'.path = edited.path /\ edited'.updatedAt = edited.updatedAt + 1
         /\ request.state = "checked" /\ request' = NoRequest
         /\ edited.updatedAt < MaxUpdates
<1>1. request.content \in SUBSET Words
  BY DEF EditorShape, Request
<1> QED
  BY <1>1, EditorWrites DEF WriteSent

LEMMA OthersWrite ==
  ASSUME EditorShape, OtherWrites
  PROVE  /\ edited' \in ServerPage /\ edited'.text = other.text /\ edited'.path = edited.path
         /\ edited'.updatedAt = edited.updatedAt + 1
         /\ other # NoWrite /\ other' = NoWrite /\ edited.updatedAt < MaxUpdates
<1>1. other.text \in SUBSET Words
  BY DEF EditorShape, OthersText
<1> QED
  BY <1>1, EditorWrites DEF OtherWrites

LEMMA OthersRead ==
  ASSUME EditorShape, OtherReads
  PROVE  \E e \in Words :
           /\ other' \in OthersText /\ other'.text = edited.text \cup {e}
           /\ other'.read = edited.updatedAt /\ others' = others \cup {e}
<1>1. PICK e \in Fresh : /\ other' = [text |-> edited.text \cup {e}, read |-> edited.updatedAt]
                         /\ others' = others \cup {e}
  BY DEF OtherReads
<1>2. e \in Words /\ edited.text \in SUBSET Words /\ edited.updatedAt \in Nat
  BY <1>1 DEF Fresh, EditorShape, ServerPage
<1>3. other' \in OthersText
  BY <1>1, <1>2 DEF OthersText
<1> QED
  BY <1>1, <1>2, <1>3

\* What is sent is the content, and what is checked is the version it expects.
LEMMA SentRequest ==
  ASSUME EditorShape
  PROVE  /\ Sent \in Request /\ Sent.state = "sent" /\ Sent.content = content
         /\ Sent.expectedUpdatedAt = original.updatedAt
<1>1. content \in SUBSET Words /\ original.updatedAt \in Nat
  BY DEF EditorShape, EditorTypeOK
<1> QED
  BY <1>1 DEF Sent, Request

LEMMA CheckedRequest ==
  ASSUME EditorShape, Check
  PROVE  /\ request' \in Request /\ request'.state = "checked"
         /\ request'.content = request.content
         /\ request'.expectedUpdatedAt = request.expectedUpdatedAt
         /\ request'.read = request.expectedUpdatedAt
         /\ edited.updatedAt = request.expectedUpdatedAt
<1>1. request \in Request /\ edited.updatedAt \in Nat
  BY DEF EditorShape, ServerPage
<1> QED
  BY <1>1 DEF Check, Request

LEMMA NothingSent ==
  NoRequest \in Request /\ NoRequest.state = "none" /\ NoRequest.content = {}
  /\ NoRequest.expectedUpdatedAt = 0 /\ NoWrite \in OthersText /\ NoWrite.text = {}
  /\ NoWrite.read = 0
BY DEF NoRequest, NoWrite, Request, OthersText

LEMMA EditorMoves ==
  ASSUME EditorShape, edited' = [edited EXCEPT !.path = path, !.updatedAt = @ + 1]
  PROVE  /\ edited' \in ServerPage /\ edited'.text = edited.text /\ edited'.path = path
         /\ edited'.updatedAt = edited.updatedAt + 1
<1>1. edited \in ServerPage /\ path \in PagePaths
  BY DEF EditorShape, EditorTypeOK
<1>2. edited.updatedAt + 1 \in Nat
  BY <1>1 DEF ServerPage
<1>3. edited' \in ServerPage
  BY <1>1, <1>2, MovedPage
<1> QED
  BY <1>1, <1>3 DEF ServerPage

\* A version after the page's is after every version that somebody has.
LEMMA LaterVersion ==
  ASSUME MaxUpdates \in Nat, EditorShape, edited.updatedAt < MaxUpdates,
         edited'.updatedAt = edited.updatedAt + 1
  PROVE  /\ edited'.updatedAt \in 0 .. MaxUpdates /\ edited'.updatedAt \in Nat
         /\ original.updatedAt <= edited'.updatedAt
         /\ request.expectedUpdatedAt <= edited'.updatedAt /\ other.read <= edited'.updatedAt
<1>1. /\ edited.updatedAt \in Nat /\ original.updatedAt \in Nat
      /\ request.expectedUpdatedAt \in Nat /\ other.read \in Nat
  BY DEF EditorShape, ServerPage, Request, OthersText
<1>2. /\ original.updatedAt <= edited.updatedAt
      /\ request.expectedUpdatedAt <= edited.updatedAt /\ other.read <= edited.updatedAt
  BY DEF EditorShape, EditorTypeOK
<1> QED
  BY <1>1, <1>2

LEMMA ShapeStep ==
  ASSUME MaxUpdates \in Nat, EditorShape, [EditorNext]_editorVars
  PROVE  EditorShape'
<1> USE DEF EditorShape, EditorTypeOK
<1>1. CASE OtherWrites
  <2>1. /\ edited' \in ServerPage /\ edited'.text = other.text /\ edited'.path = edited.path
        /\ edited'.updatedAt = edited.updatedAt + 1
        /\ other' = NoWrite /\ edited.updatedAt < MaxUpdates
    BY <1>1, OthersWrite
  <2> QED
    BY <1>1, <2>1, LaterVersion, NothingSent DEF OtherWrites
<1>21. CASE OtherReads
  <2>1. PICK e \in Words :
          /\ other' \in OthersText /\ other'.text = edited.text \cup {e}
          /\ other'.read = edited.updatedAt /\ others' = others \cup {e}
    BY <1>21, OthersRead
  <2>2. UNCHANGED <<edited, request, content, path, original, draft, phase, typed>>
    BY <1>21 DEF OtherReads
  <2>3. edited.updatedAt \in Nat
    BY DEF ServerPage
  <2> QED
    BY <2>1, <2>2, <2>3
<1>22. CASE Check
  BY <1>22, CheckedRequest, NothingSent DEF Check, MayWrite, historyPart, ServerPage
<1>2. CASE RoomSaves
  BY <1>2, RoomWritten, LaterVersion DEF RoomSaves, historyPart, wirePart
<1>3. CASE Type
  BY <1>3, NothingSent DEF wirePart, Type, Fresh
<1>4. CASE TypePath
  BY <1>4 DEF TypePath, MayType, historyPart, wirePart
<1>5. CASE RestoreDraft
  BY <1>5, NothingSent DEF wirePart, RestoreDraft, Draft
<1>6. CASE DiscardDraft
  BY <1>6, NothingSent DEF wirePart, DiscardDraft, NoDraft
<1>7. CASE Leave
  BY <1>7, NothingSent DEF wirePart, Leave, Phases
<1>8. CASE StartSave
  BY <1>8, SentRequest, NothingSent DEF StartSave, Phases, historyPart, wirePart
<1>9. CASE Answer
  BY <1>9, SentRequest, NothingSent DEF Answer, Phases, historyPart, wirePart
<1>10. CASE Update
  <2>1. /\ edited' \in ServerPage /\ edited'.text = request.content
        /\ edited'.path = edited.path /\ edited'.updatedAt = edited.updatedAt + 1
        /\ request' = NoRequest /\ edited.updatedAt < MaxUpdates
    BY <1>10, SentWritten DEF Update
  <2>2. /\ edited'.updatedAt \in 0 .. MaxUpdates /\ edited'.updatedAt \in Nat
        /\ original.updatedAt <= edited'.updatedAt /\ other.read <= edited'.updatedAt
    BY <2>1, LaterVersion
  <2>3. /\ original' \in [path : PagePaths, updatedAt : Nat]
        /\ original'.updatedAt <= edited'.updatedAt
    BY <1>10, <2>2 DEF Update
  <2>4. phase' \in Phases /\ phase' # "listing"
    BY <1>10 DEF Update, Phases
  <2>5. UNCHANGED <<other, historyPart, content, path, draft>>
    BY <1>10 DEF Update
  <2> QED
    BY <2>1, <2>2, <2>3, <2>4, <2>5, NothingSent DEF historyPart
<1>11. CASE FailUpdate
  <2>1. /\ edited' \in ServerPage /\ edited'.text \subseteq typed \cup others
        /\ edited'.updatedAt \in 0 .. MaxUpdates /\ edited'.updatedAt \in Nat
        /\ original.updatedAt <= edited'.updatedAt /\ other.read <= edited'.updatedAt
        /\ edited'.text \subseteq Words /\ edited'.path \in PagePaths
    <3>1. CASE UNCHANGED edited
      BY <3>1 DEF ServerPage
    <3>2. CASE WriteSent
      BY <3>2, SentWritten, LaterVersion
    <3> QED
      BY <1>11, <3>1, <3>2 DEF FailUpdate
  <2>2. request' = NoRequest /\ phase' = "idle"
    BY <1>11 DEF FailUpdate, WriteSent
  <2>3. UNCHANGED <<other, historyPart, content, path, original, draft>>
    BY <1>11 DEF FailUpdate
  <2> QED
    BY <2>1, <2>2, <2>3, NothingSent DEF historyPart, Phases
<1>12. CASE Conflict
  BY <1>12, NothingSent DEF Conflict, Capture, Captured, Draft, Phases, historyPart, wirePart
<1>13. CASE Reload
  BY <1>13 DEF Reload, Phases, historyPart, wirePart
<1>14. CASE FailReload
  BY <1>14 DEF FailReload, Phases, historyPart, wirePart
<1>15. CASE Updated
  BY <1>15 DEF Updated, Phases, NoDraft, historyPart, wirePart
<1>16. CASE Move
  <2>1. /\ edited' \in ServerPage /\ edited'.text = edited.text /\ edited'.path = path
        /\ edited'.updatedAt = edited.updatedAt + 1 /\ edited.updatedAt < MaxUpdates
    BY <1>16, EditorMoves DEF Move
  <2>2. /\ edited'.updatedAt \in 0 .. MaxUpdates /\ edited'.updatedAt \in Nat
        /\ other.read <= edited'.updatedAt
        /\ request.expectedUpdatedAt <= edited'.updatedAt
    BY <2>1, LaterVersion
  <2>3. original' = [path |-> path, updatedAt |-> edited'.updatedAt]
    BY <1>16 DEF Move
  <2>4. UNCHANGED <<other, request, historyPart, content, path>>
        /\ draft' = NoDraft /\ phase' = "listing" /\ phase = "moving"
    BY <1>16 DEF Move, wirePart
  <2> QED
    BY <2>1, <2>2, <2>3, <2>4 DEF historyPart, Phases, NoDraft
<1>17. CASE FailMove
  BY <1>17 DEF FailMove, Phases, historyPart, wirePart
<1>18. CASE RefuseMove
  BY <1>18 DEF RefuseMove, Capture, Captured, Draft, Phases, historyPart, wirePart
<1>19. CASE Finish
  BY <1>19 DEF Finish, Phases, historyPart, wirePart
<1>20. CASE UNCHANGED editorVars
  BY <1>20 DEF editorVars
<1> QED
  BY <1>1, <1>2, <1>3, <1>4, <1>5, <1>6, <1>7, <1>8, <1>9, <1>10, <1>11, <1>12, <1>13, <1>14,
     <1>15, <1>16, <1>17, <1>18, <1>19, <1>20, <1>21,
     <1>22 DEF EditorNext

LEMMA SentStep ==
  ASSUME EditorKeeps, [EditorNext]_editorVars
  PROVE  UpdateIsSaves'
<1> USE DEF EditorKeeps, EditorShape, EditorTypeOK, UpdateIsSaves
<1>1. CASE OtherWrites
  BY <1>1, OthersWrite, NothingSent DEF OtherWrites, ServerPage
<1>21. CASE OtherReads
  BY <1>21, OthersRead, NothingSent DEF OtherReads, MayWrite, ServerPage
<1>22. CASE Check
  BY <1>22, CheckedRequest, NothingSent DEF Check, MayWrite, historyPart, ServerPage
<1>2. CASE RoomSaves
  BY <1>2, RoomWritten, NothingSent DEF RoomSaves, MayWrite, historyPart, wirePart, ServerPage
<1>3. CASE Type
  BY <1>3, NothingSent DEF wirePart, Type, MayType, ServerPage
<1>4. CASE TypePath
  BY <1>4 DEF TypePath, MayType, historyPart, wirePart, ServerPage
<1>5. CASE RestoreDraft
  BY <1>5, NothingSent DEF wirePart, RestoreDraft, ServerPage
<1>6. CASE DiscardDraft
  BY <1>6, NothingSent DEF wirePart, DiscardDraft, NoDraft, ServerPage
<1>7. CASE Leave
  BY <1>7, NothingSent DEF wirePart, Leave, Dirty, Captured, NoDraft, ServerPage
<1>8. CASE StartSave
  BY <1>8, SentRequest, NothingSent DEF StartSave, NoDraft, historyPart, wirePart, ServerPage
<1>9. CASE Answer
  BY <1>9, SentRequest, NothingSent DEF Answer, historyPart, wirePart, ServerPage
<1>10. CASE Update
  BY <1>10, SentWritten, NothingSent DEF Update, historyPart, wirePart, ServerPage
<1>11. CASE FailUpdate
  BY <1>11, SentWritten, NothingSent DEF FailUpdate, historyPart, wirePart, ServerPage
<1>12. CASE Conflict
  BY <1>12, NothingSent DEF Conflict, historyPart, wirePart, Capture, Captured, ServerPage
<1>13. CASE Reload
  BY <1>13 DEF Reload, historyPart, wirePart, ServerPage
<1>14. CASE FailReload
  BY <1>14 DEF FailReload, historyPart, wirePart, ServerPage
<1>15. CASE Updated
  BY <1>15 DEF Updated, historyPart, wirePart, NoDraft, ServerPage
<1>16. CASE Move
  BY <1>16, EditorMoves, NothingSent DEF Move, MayWrite, historyPart, wirePart, NoDraft, ServerPage
<1>17. CASE FailMove
  BY <1>17 DEF FailMove, historyPart, wirePart, ServerPage
<1>18. CASE RefuseMove
  BY <1>18 DEF RefuseMove, historyPart, wirePart, Capture, Captured, ServerPage
<1>19. CASE Finish
  BY <1>19 DEF Finish, NoDraft, historyPart, wirePart, Captured, ServerPage
<1>20. CASE UNCHANGED editorVars
  BY <1>20 DEF editorVars
<1> QED
  BY <1>1, <1>2, <1>3, <1>4, <1>5, <1>6, <1>7, <1>8, <1>9, <1>10, <1>11, <1>12, <1>13,
     <1>14, <1>15, <1>16, <1>17, <1>18, <1>19, <1>20, <1>21,
     <1>22 DEF EditorNext

LEMMA ShownStep ==
  ASSUME EditorKeeps, [EditorNext]_editorVars
  PROVE  PageIsShown'
<1> USE DEF EditorKeeps, EditorShape, EditorTypeOK, UpdateIsSaves, PageIsShown, Regained
<1>1. CASE OtherWrites
  <2>1. /\ edited'.text = other.text /\ edited'.updatedAt = edited.updatedAt + 1
        /\ other # NoWrite /\ other' = NoWrite /\ edited.updatedAt < MaxUpdates
    BY <1>1, OthersWrite
  <2>2. UNCHANGED <<request, others, content, original, phase, given, restored>>
    BY <1>1 DEF OtherWrites
  <2>3. edited'.updatedAt # original.updatedAt /\ edited'.updatedAt # request.expectedUpdatedAt
    <3>1. /\ edited.updatedAt \in Nat /\ original.updatedAt <= edited.updatedAt
          /\ request.expectedUpdatedAt \in Nat /\ original.updatedAt \in Nat
      BY DEF ServerPage, Request
    <3> QED
      BY <2>1, <3>1
  <2>4. others # {}
    BY <2>1
  <2> QED
    BY <2>1, <2>2, <2>3, <2>4
<1>21. CASE OtherReads
  BY <1>21, OthersRead, NothingSent DEF OtherReads, MayWrite, ServerPage
<1>22. CASE Check
  BY <1>22, CheckedRequest, NothingSent DEF Check, MayWrite, historyPart, ServerPage
<1>2. CASE RoomSaves
  BY <1>2, RoomWritten, NothingSent DEF RoomSaves, MayWrite, historyPart, wirePart, ServerPage
<1>3. CASE Type
  BY <1>3, NothingSent DEF wirePart, Type, MayType, ServerPage
<1>4. CASE TypePath
  BY <1>4 DEF TypePath, MayType, historyPart, wirePart, ServerPage
<1>5. CASE RestoreDraft
  BY <1>5, NothingSent DEF wirePart, RestoreDraft, ServerPage
<1>6. CASE DiscardDraft
  BY <1>6, NothingSent DEF wirePart, DiscardDraft, NoDraft, ServerPage
<1>7. CASE Leave
  BY <1>7, NothingSent DEF wirePart, Leave, Dirty, Captured, NoDraft, ServerPage
<1>8. CASE StartSave
  BY <1>8, SentRequest, NothingSent DEF StartSave, NoDraft, historyPart, wirePart, ServerPage
<1>9. CASE Answer
  BY <1>9, SentRequest, NothingSent DEF Answer, historyPart, wirePart, ServerPage
<1>10. CASE Update
  BY <1>10, SentWritten, NothingSent DEF Update, historyPart, wirePart, ServerPage
<1>11. CASE FailUpdate
  BY <1>11, SentWritten, NothingSent DEF FailUpdate, historyPart, wirePart, ServerPage
<1>12. CASE Conflict
  BY <1>12, NothingSent DEF Conflict, historyPart, wirePart, Capture, Captured, ServerPage
<1>13. CASE Reload
  BY <1>13 DEF Reload, historyPart, wirePart, ServerPage
<1>14. CASE FailReload
  BY <1>14 DEF FailReload, historyPart, wirePart, ServerPage
<1>15. CASE Updated
  BY <1>15 DEF Updated, historyPart, wirePart, NoDraft, ServerPage
<1>16. CASE Move
  BY <1>16, EditorMoves, NothingSent DEF Move, MayWrite, historyPart, wirePart, NoDraft, ServerPage
<1>17. CASE FailMove
  BY <1>17 DEF FailMove, historyPart, wirePart, ServerPage
<1>18. CASE RefuseMove
  BY <1>18 DEF RefuseMove, historyPart, wirePart, Capture, Captured, ServerPage
<1>19. CASE Finish
  BY <1>19 DEF Finish, NoDraft, historyPart, wirePart, Captured, ServerPage
<1>20. CASE UNCHANGED editorVars
  BY <1>20 DEF editorVars
<1> QED
  BY <1>1, <1>2, <1>3, <1>4, <1>5, <1>6, <1>7, <1>8, <1>9, <1>10, <1>11, <1>12, <1>13,
     <1>14, <1>15, <1>16, <1>17, <1>18, <1>19, <1>20, <1>21,
     <1>22 DEF EditorNext

LEMMA DraftStep ==
  ASSUME EditorKeeps, [EditorNext]_editorVars
  PROVE  DraftIsDealtWith'
<1> USE DEF EditorKeeps, EditorShape, EditorTypeOK, UpdateIsSaves, PageIsShown, Regained,
            DraftIsDealtWith
<1>1. CASE OtherWrites
  BY <1>1, OthersWrite, NothingSent DEF OtherWrites, ServerPage
<1>21. CASE OtherReads
  BY <1>21, OthersRead, NothingSent DEF OtherReads, MayWrite, ServerPage
<1>22. CASE Check
  BY <1>22, CheckedRequest, NothingSent DEF Check, MayWrite, historyPart, ServerPage
<1>2. CASE RoomSaves
  BY <1>2, RoomWritten, NothingSent DEF RoomSaves, MayWrite, historyPart, wirePart, ServerPage
<1>3. CASE Type
  BY <1>3, NothingSent DEF wirePart, Type, MayType, ServerPage
<1>4. CASE TypePath
  BY <1>4 DEF TypePath, MayType, historyPart, wirePart, ServerPage
<1>5. CASE RestoreDraft
  BY <1>5, NothingSent DEF wirePart, RestoreDraft, ServerPage
<1>6. CASE DiscardDraft
  BY <1>6, NothingSent DEF wirePart, DiscardDraft, NoDraft, ServerPage
<1>7. CASE Leave
  BY <1>7, NothingSent DEF wirePart, Leave, Dirty, Captured, NoDraft, ServerPage
<1>8. CASE StartSave
  BY <1>8, SentRequest, NothingSent DEF StartSave, NoDraft, historyPart, wirePart, ServerPage
<1>9. CASE Answer
  BY <1>9, SentRequest, NothingSent DEF Answer, historyPart, wirePart, ServerPage
<1>10. CASE Update
  BY <1>10, SentWritten, NothingSent DEF Update, historyPart, wirePart, ServerPage
<1>11. CASE FailUpdate
  BY <1>11, SentWritten, NothingSent DEF FailUpdate, historyPart, wirePart, ServerPage
<1>12. CASE Conflict
  BY <1>12, NothingSent DEF Conflict, historyPart, wirePart, Capture, Captured, ServerPage
<1>13. CASE Reload
  BY <1>13 DEF Reload, historyPart, wirePart, ServerPage
<1>14. CASE FailReload
  BY <1>14 DEF FailReload, historyPart, wirePart, ServerPage
<1>15. CASE Updated
  BY <1>15 DEF Updated, historyPart, wirePart, NoDraft, ServerPage
<1>16. CASE Move
  BY <1>16, EditorMoves, NothingSent DEF Move, MayWrite, historyPart, wirePart, NoDraft, ServerPage
<1>17. CASE FailMove
  BY <1>17 DEF FailMove, historyPart, wirePart, ServerPage
<1>18. CASE RefuseMove
  BY <1>18 DEF RefuseMove, historyPart, wirePart, Capture, Captured, ServerPage
<1>19. CASE Finish
  BY <1>19 DEF Finish, NoDraft, historyPart, wirePart, Captured, ServerPage
<1>20. CASE UNCHANGED editorVars
  BY <1>20 DEF editorVars
<1> QED
  BY <1>1, <1>2, <1>3, <1>4, <1>5, <1>6, <1>7, <1>8, <1>9, <1>10, <1>11, <1>12, <1>13,
     <1>14, <1>15, <1>16, <1>17, <1>18, <1>19, <1>20, <1>21,
     <1>22 DEF EditorNext

LEMMA KeptStep ==
  ASSUME EditorKeeps, [EditorNext]_editorVars
  PROVE  TypedTextIsKept'
<1> USE DEF EditorKeeps, EditorShape, EditorTypeOK, UpdateIsSaves, PageIsShown, Regained,
           DraftIsDealtWith, TypedTextIsKept, Kept
<1>1. CASE OtherWrites
  BY <1>1, OthersWrite, NothingSent DEF OtherWrites, ServerPage
<1>21. CASE OtherReads
  BY <1>21, OthersRead, NothingSent DEF OtherReads, MayWrite, ServerPage
<1>22. CASE Check
  BY <1>22, CheckedRequest, NothingSent DEF Check, MayWrite, historyPart, ServerPage
<1>2. CASE RoomSaves
  BY <1>2, RoomWritten, NothingSent DEF RoomSaves, MayWrite, historyPart, wirePart, ServerPage
<1>3. CASE Type
  BY <1>3, NothingSent DEF wirePart, Type, MayType, ServerPage
<1>4. CASE TypePath
  BY <1>4 DEF TypePath, MayType, historyPart, wirePart, ServerPage
<1>5. CASE RestoreDraft
  BY <1>5, NothingSent DEF wirePart, RestoreDraft, ServerPage
<1>6. CASE DiscardDraft
  BY <1>6, NothingSent DEF wirePart, DiscardDraft, NoDraft, ServerPage
<1>7. CASE Leave
  BY <1>7, NothingSent DEF wirePart, Leave, Dirty, Captured, NoDraft, ServerPage
<1>8. CASE StartSave
  BY <1>8, SentRequest, NothingSent DEF StartSave, NoDraft, historyPart, wirePart, ServerPage
<1>9. CASE Answer
  BY <1>9, SentRequest, NothingSent DEF Answer, historyPart, wirePart, ServerPage
<1>10. CASE Update
  BY <1>10, SentWritten, NothingSent DEF Update, historyPart, wirePart, ServerPage
<1>11. CASE FailUpdate
  BY <1>11, SentWritten, NothingSent DEF FailUpdate, historyPart, wirePart, ServerPage
<1>12. CASE Conflict
  BY <1>12, NothingSent DEF Conflict, historyPart, wirePart, Capture, Captured, ServerPage
<1>13. CASE Reload
  BY <1>13 DEF Reload, historyPart, wirePart, ServerPage
<1>14. CASE FailReload
  BY <1>14 DEF FailReload, historyPart, wirePart, ServerPage
<1>15. CASE Updated
  BY <1>15 DEF Updated, historyPart, wirePart, NoDraft, ServerPage
<1>16. CASE Move
  BY <1>16, EditorMoves, NothingSent DEF Move, MayWrite, historyPart, wirePart, NoDraft, ServerPage
<1>17. CASE FailMove
  BY <1>17 DEF FailMove, historyPart, wirePart, ServerPage
<1>18. CASE RefuseMove
  BY <1>18 DEF RefuseMove, historyPart, wirePart, Capture, Captured, ServerPage
<1>19. CASE Finish
  BY <1>19 DEF Finish, NoDraft, historyPart, wirePart, Captured, ServerPage
<1>20. CASE UNCHANGED editorVars
  BY <1>20 DEF editorVars
<1> QED
  BY <1>1, <1>2, <1>3, <1>4, <1>5, <1>6, <1>7, <1>8, <1>9, <1>10, <1>11, <1>12, <1>13,
     <1>14, <1>15, <1>16, <1>17, <1>18, <1>19, <1>20, <1>21,
     <1>22 DEF EditorNext

LEMMA EditorStep ==
  ASSUME MaxUpdates \in Nat, EditorKeeps, [EditorNext]_editorVars
  PROVE  EditorKeeps'
BY ShapeStep, SentStep, ShownStep, DraftStep, KeptStep DEF EditorKeeps

\* What is shown, drafted and given up by the user holds what he typed (PageEdit.vue, save,
\* restoreConflictDraft), and the editor knows the page it replaces.
THEOREM EditorAlwaysKeeps ==
  ASSUME MaxUpdates \in Nat
  PROVE  EditorSpec => []EditorKeeps
<1>1. EditorInit => EditorKeeps
  BY EditorStart
<1>2. EditorKeeps /\ [EditorNext]_editorVars => EditorKeeps'
  BY EditorStep
<1> QED
  BY <1>1, <1>2, PTL DEF EditorSpec

\* The editor keeps its shape, and what a patient user has typed is at the server, in the
\* editor or in the draft, through conflicts, failures, moves and the room's autosaves.
THEOREM TypedTextStays ==
  ASSUME MaxUpdates \in Nat
  PROVE  EditorSpec => []EditorInv
<1>1. EditorKeeps => EditorInv
  BY DEF EditorKeeps, EditorShape, EditorInv
<1> QED
  BY <1>1, EditorAlwaysKeeps, PTL

\* No write drops what others wrote unless a draft was put back, or the page was written
\* between the check of that write and the write, whatever the user does (updatePage with
\* expectedUpdatedAt, the room's autosave).
THEOREM OthersStay ==
  ASSUME MaxUpdates \in Nat
  PROVE  EditorSpec => OthersAreKept
<1>1. ASSUME EditorKeeps, [EditorNext]_editorVars
      PROVE  [edited'.text # edited.text /\ ~ restored' =>
                edited.text \subseteq edited'.text \/ Crosses]_editorVars
  <2> SUFFICES ASSUME EditorNext, edited'.text # edited.text, ~ restored', ~ Crosses
               PROVE  edited.text \subseteq edited'.text
    BY <1>1 DEF editorVars
  <2> USE <1>1 DEF EditorKeeps, EditorShape, PageIsShown, Regained
  <2>1. CASE OtherWrites
    BY <2>1, OthersWrite DEF Crosses
  <2>2. CASE RoomSaves
    BY <2>2, RoomWritten DEF RoomSaves, historyPart
  <2>3. ASSUME WriteSent, restored' = restored
        PROVE  edited.text \subseteq edited'.text
    BY <2>3, SentWritten DEF Crosses, UpdateIsSaves
  <2>4. CASE Update
    BY <2>3, <2>4 DEF Update, historyPart
  <2>5. CASE FailUpdate
    BY <2>3, <2>5 DEF FailUpdate, historyPart
  <2>6. CASE Move
    BY <2>6, EditorMoves DEF Move
  <2>7. CASE UNCHANGED edited
    BY <2>7
  <2> QED
    BY <2>1, <2>2, <2>4, <2>5, <2>6, <2>7
    DEF EditorNext, OtherReads, Type, TypePath, RestoreDraft, DiscardDraft, Leave, StartSave,
        Answer, Check, Conflict, Reload, FailReload, Updated, FailMove, RefuseMove, Finish
<1> QED
  BY <1>1, EditorAlwaysKeeps, PTL DEF EditorSpec, OthersAreKept

-----------------------------------------------------------------------------
(* Who is on a page.  The list that a connection was sent last is that of  *)
(* those who are registered under its path.                                *)

PresenceConstants == MaxSockets \in Nat /\ "none" \notin Paths

\* dedupeViewers of the connections conns in a list of sockets, and those registered.
Shown(conns, list) ==
  LET UserAt(s) == UserOf[list[s].tab]
      GuestAt(s) == IF UserAt(s) = "guest" THEN s ELSE 0
  IN  {[user |-> UserAt(s), guest |-> GuestAt(s),
        mode |-> IF \E r \in conns : /\ UserAt(r) = UserAt(s) /\ GuestAt(r) = GuestAt(s)
                                     /\ list[r].tab \in EditorTabs
                 THEN "editing" ELSE "viewing"] : s \in conns}

Registered(registry, place) == {s \in SocketIds : registry[s] = place}

PresenceShape ==
  /\ sockets \in Seq(Socket) /\ Len(sockets) <= MaxSockets
  /\ pathOf \in [SocketIds -> Paths \cup {"none"}]
  /\ inbox \in [SocketIds -> Seq(SUBSET Viewer)]
  /\ viewers \in [Tabs -> SUBSET Viewer]

\* A connection is registered after its open; the browser has one live socket per tab.
ConnectionsInv ==
  /\ \A s \in SocketIds : pathOf[s] # "none" =>
       s \in DOMAIN sockets /\ sockets[s].server = "open" /\ pathOf[s] = sockets[s].path
  /\ \A s \in DOMAIN sockets :
       /\ sockets[s].alive =>
            /\ ~ sockets[s].closed /\ sockets[s].server # "refused"
            /\ sockets[s].server = "open" => pathOf[s] = sockets[s].path
            /\ \A r \in DOMAIN sockets :
                 sockets[r].alive /\ sockets[r].tab = sockets[s].tab => r = s
       /\ sockets[s].closed /\ ~ hangup => sockets[s].server = "open" /\ pathOf[s] = "none"

\* The last list sent to a connection is that of its path, and it is in its inbox or shown.
ListsAreCurrent ==
  \A s \in SocketIds : pathOf[s] # "none" =>
    LET now == Shown(Registered(pathOf, pathOf[s]), sockets)
    IN  /\ inbox[s] # <<>> => Head(inbox[s]) = now
        /\ inbox[s] = <<>> /\ sockets[s].alive => viewers[sockets[s].tab] = now

PresenceKeeps == PresenceShape /\ ConnectionsInv /\ ListsAreCurrent

LEMMA DedupeIsShown ==
  ASSUME NEW conns
  PROVE  Dedupe(conns) = Shown(conns, sockets)
BY DEF Dedupe, Shown, Key, ModeOf

LEMMA ShownByTabs ==
  ASSUME NEW conns, NEW before, NEW after, \A s \in conns : before[s].tab = after[s].tab
  PROVE  Shown(conns, before) = Shown(conns, after)
BY DEF Shown

LEMMA ShownType ==
  ASSUME PresenceConstants, NEW conns \in SUBSET SocketIds, NEW list,
         \A s \in conns : list[s].tab \in Tabs
  PROVE  Shown(conns, list) \subseteq Viewer
<1> SUFFICES ASSUME NEW v \in Shown(conns, list)
             PROVE  v \in Viewer
  OBVIOUS
<1>1. PICK s \in conns : \E m \in {"viewing", "editing"} :
        v = [user |-> UserOf[list[s].tab],
             guest |-> IF UserOf[list[s].tab] = "guest" THEN s ELSE 0, mode |-> m]
  BY DEF Shown
<1>2. s \in 1 .. MaxSockets /\ list[s].tab \in Tabs
  BY DEF SocketIds
<1> QED
  BY <1>1, <1>2 DEF Viewer, PresenceConstants

LEMMA ListIsRegistered ==
  ASSUME PresenceConstants, PresenceShape, NEW registry, NEW place \in Paths,
         \A s \in SocketIds : registry[s] = place => s \in DOMAIN sockets
  PROVE  List(registry, place) = Registered(registry, place)
<1>1. DOMAIN sockets \subseteq SocketIds
  BY DEF PresenceConstants, PresenceShape, SocketIds
<1> QED
  BY <1>1 DEF List, Registered

LEMMA PresenceStart ==
  ASSUME PresenceConstants, PresenceInit
  PROVE  PresenceKeeps
BY DEF PresenceConstants, PresenceInit, PresenceKeeps, PresenceShape, ConnectionsInv,
       ListsAreCurrent

\* The sockets that were there stay, of the same tab and path, and do not come to life.
SocketsGoOn ==
  /\ sockets' \in Seq(Socket) /\ Len(sockets') <= MaxSockets
  /\ DOMAIN sockets \subseteq DOMAIN sockets'
  /\ \A s \in DOMAIN sockets :
       /\ sockets'[s].tab = sockets[s].tab /\ sockets'[s].path = sockets[s].path
       /\ sockets'[s].alive => sockets[s].alive

LEMMA SocketFields ==
  ASSUME PresenceShape, NEW s \in DOMAIN sockets
  PROVE  /\ sockets[s] \in Socket
         /\ sockets[s].tab \in Tabs /\ sockets[s].path \in Paths
         /\ sockets[s].alive \in BOOLEAN /\ sockets[s].closed \in BOOLEAN
         /\ sockets[s].server \in {"ticketing", "opening", "open", "refused"}
<1>1. sockets[s] \in Socket
  BY DEF PresenceShape
<1> QED
  BY <1>1 DEF Socket

LEMMA SocketGone ==
  ASSUME NEW k \in Socket
  PROVE  [k EXCEPT !.alive = FALSE] \in Socket
BY DEF Socket

\* One socket becomes another one.
LEMMA OneChanges ==
  ASSUME PresenceShape, NEW s \in DOMAIN sockets, NEW v \in Socket,
         sockets' = [sockets EXCEPT ![s] = v],
         v.tab = sockets[s].tab, v.path = sockets[s].path, v.alive => sockets[s].alive
  PROVE  /\ SocketsGoOn
         /\ DOMAIN sockets' = DOMAIN sockets
         /\ sockets'[s] = v
         /\ \A r \in DOMAIN sockets : r # s => sockets'[r] = sockets[r]
<1>1. sockets \in Seq(Socket) /\ Len(sockets) <= MaxSockets
  BY DEF PresenceShape
<1>2. sockets' \in Seq(Socket) /\ Len(sockets') = Len(sockets)
  BY <1>1
<1>3. DOMAIN sockets' = DOMAIN sockets
  BY <1>1, <1>2
<1> QED
  BY <1>1, <1>2, <1>3 DEF SocketsGoOn

\* A tab disconnects.
LEMMA TabLeaves ==
  ASSUME PresenceShape, NEW t \in Tabs
  PROVE  /\ Left(t) \in Seq(Socket) /\ Len(Left(t)) = Len(sockets)
         /\ \A s \in DOMAIN sockets :
              /\ sockets[s].tab = t => Left(t)[s] = [sockets[s] EXCEPT !.alive = FALSE]
              /\ sockets[s].tab # t => Left(t)[s] = sockets[s]
<1>1. sockets \in Seq(Socket)
  BY DEF PresenceShape
<1>2. \A s \in 1 .. Len(sockets) : [sockets[s] EXCEPT !.alive = FALSE] \in Socket
  BY <1>1, SocketGone
<1>3. Left(t) \in [1 .. Len(sockets) -> Socket]
  <2>1. DOMAIN sockets = 1 .. Len(sockets) /\ \A s \in 1 .. Len(sockets) : sockets[s] \in Socket
    BY <1>1
  <2>2. \A s \in 1 .. Len(sockets) :
          (IF sockets[s].tab = t THEN [sockets[s] EXCEPT !.alive = FALSE] ELSE sockets[s]) \in Socket
    BY <2>1, <1>2
  <2> QED
    BY <2>1, <2>2 DEF Left
<1>4. Left(t) \in Seq(Socket) /\ Len(Left(t)) = Len(sockets)
  BY <1>1, <1>3
<1> QED
  BY <1>1, <1>4 DEF Left

\* A step that leaves the registry as it is, and gives no socket a new life, keeps the lists
\* where the inboxes and what is shown are kept.
LEMMA ListsStay ==
  ASSUME PresenceConstants, PresenceKeeps, SocketsGoOn, UNCHANGED pathOf,
         \A s \in SocketIds : pathOf[s] # "none" =>
           /\ inbox'[s] = inbox[s]
           /\ sockets'[s].alive => viewers'[sockets[s].tab] = viewers[sockets[s].tab]
  PROVE  ListsAreCurrent'
<1> SUFFICES ASSUME NEW s \in SocketIds, pathOf[s] # "none"
             PROVE  LET now == Shown(Registered(pathOf, pathOf[s]), sockets')
                    IN  /\ inbox'[s] # <<>> => Head(inbox'[s]) = now
                        /\ inbox'[s] = <<>> /\ sockets'[s].alive => viewers'[sockets'[s].tab] = now
  BY DEF ListsAreCurrent
<1> DEFINE conns == Registered(pathOf, pathOf[s])
<1>1. \A r \in conns : r \in DOMAIN sockets
  BY DEF PresenceKeeps, ConnectionsInv, Registered
<1>2. Shown(conns, sockets') = Shown(conns, sockets)
  BY <1>1, ShownByTabs DEF SocketsGoOn
<1>3. /\ inbox[s] # <<>> => Head(inbox[s]) = Shown(conns, sockets)
      /\ inbox[s] = <<>> /\ sockets[s].alive => viewers[sockets[s].tab] = Shown(conns, sockets)
  BY DEF PresenceKeeps, ListsAreCurrent
<1>4. /\ sockets'[s].tab = sockets[s].tab /\ (sockets'[s].alive => sockets[s].alive)
  BY DEF PresenceKeeps, ConnectionsInv, SocketsGoOn
<1> QED
  BY <1>2, <1>3, <1>4

\* A step that leaves the registry as it is keeps the connections when no socket opens or
\* closes in it, and the live ones still are of different tabs.
LEMMA ConnectionsStay ==
  ASSUME PresenceShape, ConnectionsInv, SocketsGoOn, UNCHANGED <<hangup, pathOf>>,
         \A s \in DOMAIN sockets' : s \notin DOMAIN sockets =>
           ~ sockets'[s].closed /\ sockets'[s].server # "open",
         \A s \in DOMAIN sockets :
           /\ sockets'[s].closed = sockets[s].closed
           /\ sockets[s].server = "open" <=> sockets'[s].server = "open",
         \A s \in DOMAIN sockets' : sockets'[s].alive => sockets'[s].server # "refused",
         \A s \in DOMAIN sockets', r \in DOMAIN sockets' :
           sockets'[s].alive /\ sockets'[r].alive /\ sockets'[r].tab = sockets'[s].tab => r = s
  PROVE  ConnectionsInv'
<1>1. ASSUME NEW s \in SocketIds, pathOf'[s] # "none"
      PROVE  s \in DOMAIN sockets' /\ sockets'[s].server = "open" /\ pathOf'[s] = sockets'[s].path
  BY <1>1 DEF ConnectionsInv, SocketsGoOn
<1>2. ASSUME NEW s \in DOMAIN sockets', sockets'[s].alive
      PROVE  /\ ~ sockets'[s].closed
             /\ sockets'[s].server = "open" => pathOf'[s] = sockets'[s].path
  <2>1. CASE s \in DOMAIN sockets
    <3>1. /\ ~ sockets[s].closed /\ (sockets[s].server = "open" => pathOf[s] = sockets[s].path)
      BY <1>2, <2>1 DEF ConnectionsInv, SocketsGoOn
    <3> QED
      BY <3>1, <2>1 DEF SocketsGoOn
  <2> QED
    BY <2>1
<1>3. ASSUME NEW s \in DOMAIN sockets', sockets'[s].closed, ~ hangup'
      PROVE  sockets'[s].server = "open" /\ pathOf'[s] = "none"
  <2>1. s \in DOMAIN sockets /\ sockets[s].closed /\ ~ hangup
    BY <1>3
  <2>2. sockets[s].server = "open" /\ pathOf[s] = "none"
    BY <2>1 DEF ConnectionsInv
  <2> QED
    BY <2>1, <2>2
<1> QED
  BY <1>1, <1>2, <1>3 DEF ConnectionsInv

LEMMA VisitKeeps ==
  ASSUME PresenceConstants, PresenceKeeps, NEW t \in Tabs, NEW p \in Paths, Visit(t, p)
  PROVE  PresenceKeeps'
<1> DEFINE fresh == [tab |-> t, path |-> p, alive |-> TRUE, closed |-> FALSE,
                     server |-> "ticketing"]
           n == Len(sockets) + 1
<1> USE DEF PresenceKeeps, PresenceShape, PresenceConstants
<1>1. /\ Left(t) \in Seq(Socket) /\ Len(Left(t)) = Len(sockets)
      /\ \A s \in DOMAIN sockets :
           /\ sockets[s].tab = t => Left(t)[s] = [sockets[s] EXCEPT !.alive = FALSE]
           /\ sockets[s].tab # t => Left(t)[s] = sockets[s]
  BY TabLeaves
<1>2. sockets' = Append(Left(t), fresh) /\ fresh \in Socket
  BY DEF Visit, Socket
<1>3. /\ sockets' \in Seq(Socket) /\ Len(sockets') = n /\ n \in SocketIds
      /\ DOMAIN sockets' = DOMAIN sockets \cup {n} /\ n \notin DOMAIN sockets
      /\ sockets'[n] = fresh
      /\ \A s \in DOMAIN sockets : sockets'[s] = Left(t)[s]
  BY <1>1, <1>2 DEF Visit, SocketIds
<1>4. ASSUME NEW s \in DOMAIN sockets
      PROVE  /\ sockets'[s].tab = sockets[s].tab /\ sockets'[s].path = sockets[s].path
             /\ sockets'[s].alive <=> sockets[s].alive /\ sockets[s].tab # t
             /\ sockets'[s].closed = sockets[s].closed /\ sockets'[s].server = sockets[s].server
  <2>1. sockets[s] \in Socket /\ sockets'[s] = Left(t)[s]
    BY <1>3, SocketFields
  <2>2. CASE sockets[s].tab = t
    <3>1. sockets'[s] = [sockets[s] EXCEPT !.alive = FALSE]
      BY <2>1, <2>2, <1>1
    <3>2. /\ sockets'[s].tab = sockets[s].tab /\ sockets'[s].path = sockets[s].path
          /\ sockets'[s].closed = sockets[s].closed /\ sockets'[s].server = sockets[s].server
          /\ sockets'[s].alive = FALSE
      BY <3>1, <2>1 DEF Socket
    <3> QED
      BY <3>2, <2>2
  <2>3. CASE sockets[s].tab # t
    BY <2>1, <2>3, <1>1
  <2> QED
    BY <2>2, <2>3
<1>5. SocketsGoOn
  BY <1>3, <1>4 DEF SocketsGoOn, SocketIds
<1>6. PresenceShape'
  BY <1>3 DEF Visit
<1>7. UNCHANGED <<hangup, pathOf, inbox>> /\ viewers' = [viewers EXCEPT ![t] = {}]
  BY DEF Visit
<1>8. ConnectionsInv'
  <2>1. \A s \in DOMAIN sockets' : s \in DOMAIN sockets \/ s = n
    BY <1>3
  <2>2. /\ sockets'[n].tab = t /\ sockets'[n].server = "ticketing"
        /\ ~ sockets'[n].closed
    BY <1>3
  <2>3. \A s \in DOMAIN sockets : sockets'[s].alive => sockets[s].tab # t
    BY <1>4
  <2>4. \A s \in DOMAIN sockets' : s \notin DOMAIN sockets =>
          ~ sockets'[s].closed /\ sockets'[s].server # "open"
    BY <2>1, <2>2
  <2>5. ASSUME NEW s \in DOMAIN sockets', NEW r \in DOMAIN sockets',
               sockets'[s].alive, sockets'[r].alive, sockets'[r].tab = sockets'[s].tab
        PROVE  r = s
    <3>1. CASE s \in DOMAIN sockets /\ r \in DOMAIN sockets
      <4>1. sockets[s].alive /\ sockets[r].alive /\ sockets[r].tab = sockets[s].tab
        BY <2>5, <3>1, <1>5 DEF SocketsGoOn
      <4> QED
        BY <3>1, <4>1 DEF ConnectionsInv
    <3>2. CASE s = n /\ r \in DOMAIN sockets
      BY <2>5, <3>2, <2>2, <2>3, <1>4
    <3>3. CASE r = n /\ s \in DOMAIN sockets
      BY <2>5, <3>3, <2>2, <2>3, <1>4
    <3> QED
      BY <3>1, <3>2, <3>3, <2>1
  <2>6. \A s \in DOMAIN sockets :
          /\ sockets'[s].closed = sockets[s].closed
          /\ sockets[s].server = "open" <=> sockets'[s].server = "open"
    BY <1>4
  <2>7. \A s \in DOMAIN sockets' : sockets'[s].alive => sockets'[s].server # "refused"
    BY <1>4, <2>1, <2>2 DEF ConnectionsInv
  <2> QED
    BY <1>5, <1>7, <2>4, <2>5, <2>6, <2>7, ConnectionsStay
<1>9. \A s \in SocketIds : pathOf[s] # "none" /\ sockets'[s].alive =>
        viewers'[sockets[s].tab] = viewers[sockets[s].tab]
  BY <1>4, <1>7, SocketFields DEF ConnectionsInv
<1>10. ListsAreCurrent'
  BY <1>5, <1>7, <1>9, ListsStay
<1> QED
  BY <1>6, <1>8, <1>10

LEMMA UnmountKeeps ==
  ASSUME PresenceConstants, PresenceKeeps, NEW t \in Tabs, Unmount(t)
  PROVE  PresenceKeeps'
<1> USE DEF PresenceKeeps, PresenceShape, PresenceConstants
<1>1. /\ sockets' \in Seq(Socket) /\ Len(sockets') = Len(sockets)
      /\ \A s \in DOMAIN sockets :
           /\ sockets[s].tab = t => sockets'[s] = [sockets[s] EXCEPT !.alive = FALSE]
           /\ sockets[s].tab # t => sockets'[s] = sockets[s]
  BY TabLeaves DEF Unmount
<1>2. DOMAIN sockets' = DOMAIN sockets
  BY <1>1
<1>3. ASSUME NEW s \in DOMAIN sockets
      PROVE  /\ sockets'[s].tab = sockets[s].tab /\ sockets'[s].path = sockets[s].path
             /\ sockets'[s].alive <=> sockets[s].alive /\ sockets[s].tab # t
             /\ sockets'[s].closed = sockets[s].closed /\ sockets'[s].server = sockets[s].server
  <2>1. sockets[s] \in Socket
    BY SocketFields
  <2>2. CASE sockets[s].tab = t
    <3>1. sockets'[s] = [sockets[s] EXCEPT !.alive = FALSE]
      BY <2>2, <1>1
    <3>2. /\ sockets'[s].tab = sockets[s].tab /\ sockets'[s].path = sockets[s].path
          /\ sockets'[s].closed = sockets[s].closed /\ sockets'[s].server = sockets[s].server
          /\ sockets'[s].alive = FALSE
      BY <3>1, <2>1 DEF Socket
    <3> QED
      BY <3>2, <2>2
  <2>3. CASE sockets[s].tab # t
    BY <2>3, <1>1
  <2> QED
    BY <2>2, <2>3
<1>4. SocketsGoOn
  BY <1>1, <1>2, <1>3 DEF SocketsGoOn
<1>5. PresenceShape'
  BY <1>1 DEF Unmount
<1>6. ConnectionsInv'
  <2>1. ASSUME NEW s \in DOMAIN sockets', NEW r \in DOMAIN sockets',
               sockets'[s].alive, sockets'[r].alive, sockets'[r].tab = sockets'[s].tab
        PROVE  r = s
    BY <2>1, <1>2, <1>4 DEF SocketsGoOn, ConnectionsInv
  <2>2. UNCHANGED <<hangup, pathOf>>
    BY DEF Unmount
  <2>3. \A s \in DOMAIN sockets : sockets'[s].alive => sockets'[s].server # "refused"
    BY <1>3 DEF ConnectionsInv
  <2> QED
    BY <1>2, <1>3, <1>4, <2>1, <2>2, <2>3, ConnectionsStay
<1>7. UNCHANGED <<pathOf, inbox>> /\ viewers' = [viewers EXCEPT ![t] = {}]
  BY DEF Unmount
<1>8. \A s \in SocketIds : pathOf[s] # "none" /\ sockets'[s].alive =>
        viewers'[sockets[s].tab] = viewers[sockets[s].tab]
  BY <1>3, <1>7, SocketFields DEF ConnectionsInv
<1>9. ListsAreCurrent'
  BY <1>4, <1>7, <1>8, ListsStay
<1> QED
  BY <1>5, <1>6, <1>9

\* The two ends of one socket go on, and the registry does not hear of it.
LEMMA EndKeeps ==
  ASSUME PresenceConstants, PresenceKeeps, NEW s \in DOMAIN sockets, NEW v \in Socket,
         sockets' = [sockets EXCEPT ![s] = v], UNCHANGED <<hangup, pathOf, inbox, viewers>>,
         v.tab = sockets[s].tab, v.path = sockets[s].path, v.alive => sockets[s].alive,
         v.closed = sockets[s].closed, v.server = "open" <=> sockets[s].server = "open",
         v.alive => v.server # "refused"
  PROVE  PresenceKeeps'
<1>1. PresenceShape /\ ConnectionsInv
  BY DEF PresenceKeeps
<1>2. /\ SocketsGoOn /\ DOMAIN sockets' = DOMAIN sockets /\ sockets'[s] = v
      /\ \A r \in DOMAIN sockets : r # s => sockets'[r] = sockets[r]
  BY <1>1, OneChanges
<1>3. PresenceShape'
  BY <1>1, <1>2 DEF PresenceShape, SocketsGoOn, SocketIds
<1>4. \A r \in DOMAIN sockets :
        /\ sockets'[r].closed = sockets[r].closed
        /\ sockets[r].server = "open" <=> sockets'[r].server = "open"
  BY <1>2
<1>5. \A r \in DOMAIN sockets : sockets'[r].alive => sockets'[r].server # "refused"
  BY <1>1, <1>2 DEF ConnectionsInv
<1>6. \A r \in DOMAIN sockets, q \in DOMAIN sockets :
        sockets'[r].alive /\ sockets'[q].alive /\ sockets'[q].tab = sockets'[r].tab => q = r
  BY <1>1, <1>2 DEF ConnectionsInv, SocketsGoOn
<1>7. ConnectionsInv'
  BY <1>1, <1>2, <1>4, <1>5, <1>6, ConnectionsStay
<1>8. ListsAreCurrent'
  BY <1>2, ListsStay
<1> QED
  BY <1>3, <1>7, <1>8 DEF PresenceKeeps

LEMMA EndsKeep ==
  ASSUME PresenceConstants, PresenceKeeps, NEW s \in DOMAIN sockets,
         Ticket(s) \/ Refuse(s) \/ Break(s)
  PROVE  PresenceKeeps'
<1>1. /\ sockets[s] \in Socket /\ sockets \in Seq(Socket)
      /\ sockets[s].alive \in BOOLEAN
  BY SocketFields DEF PresenceKeeps, PresenceShape
<1>2. sockets[s].alive => sockets[s].server # "refused"
  BY DEF PresenceKeeps, ConnectionsInv
<1>3. CASE Ticket(s)
  <2> DEFINE v == [sockets[s] EXCEPT !.server =
                    IF sockets[s].alive THEN "opening" ELSE "refused"]
  <2>1. v \in Socket /\ sockets' = [sockets EXCEPT ![s] = v]
    BY <1>1, <1>3 DEF Ticket, Socket
  <2>2. /\ v.tab = sockets[s].tab /\ v.path = sockets[s].path /\ v.alive = sockets[s].alive
        /\ v.closed = sockets[s].closed
        /\ v.server = IF sockets[s].alive THEN "opening" ELSE "refused"
    BY <1>1 DEF Socket
  <2>3. v.alive => v.server # "refused"
    BY <2>2
  <2>4. v.server # "open" /\ sockets[s].server = "ticketing"
    BY <2>2, <1>3 DEF Ticket
  <2>5. UNCHANGED <<hangup, pathOf, inbox, viewers>>
    BY <1>3 DEF Ticket
  <2> HIDE DEF v
  <2> QED
    BY <1>1, <2>1, <2>2, <2>3, <2>4, <2>5, EndKeeps
<1>4. CASE Refuse(s)
  <2> DEFINE v == [sockets[s] EXCEPT !.server = "refused", !.alive = FALSE]
  <2>1. v \in Socket /\ sockets' = [sockets EXCEPT ![s] = v]
    BY <1>1, <1>4 DEF Refuse, Socket
  <2>2. /\ v.tab = sockets[s].tab /\ v.path = sockets[s].path /\ v.alive = FALSE
        /\ v.closed = sockets[s].closed /\ v.server = "refused"
    BY <1>1 DEF Socket
  <2>3. sockets[s].server # "open" /\ UNCHANGED <<hangup, pathOf, inbox, viewers>>
    BY <1>4 DEF Refuse
  <2> HIDE DEF v
  <2> QED
    BY <2>1, <2>2, <2>3, EndKeeps
<1>5. CASE Break(s)
  <2> DEFINE v == [sockets[s] EXCEPT !.alive = FALSE]
  <2>1. v \in Socket /\ sockets' = [sockets EXCEPT ![s] = v]
    BY <1>1, <1>5 DEF Break, Socket
  <2>2. /\ v.tab = sockets[s].tab /\ v.path = sockets[s].path /\ v.alive = FALSE
        /\ v.closed = sockets[s].closed /\ v.server = sockets[s].server
    BY <1>1 DEF Socket
  <2>3. UNCHANGED <<hangup, pathOf, inbox, viewers>>
    BY <1>5 DEF Break
  <2> HIDE DEF v
  <2> QED
    BY <2>1, <2>2, <2>3, EndKeeps
<1> QED
  BY <1>3, <1>4, <1>5

LEMMA ReceiveKeeps ==
  ASSUME PresenceConstants, PresenceKeeps, NEW s \in DOMAIN sockets, Receive(s)
  PROVE  PresenceKeeps'
<1>1. /\ sockets[s].alive /\ inbox[s] # <<>> /\ UNCHANGED <<hangup, watched, sockets, pathOf>>
      /\ viewers' = [viewers EXCEPT ![sockets[s].tab] = Head(inbox[s])]
      /\ inbox' = [inbox EXCEPT ![s] = <<>>]
  BY DEF Receive
<1>2. s \in SocketIds /\ sockets[s].tab \in Tabs
  BY SocketFields DEF PresenceKeeps, PresenceShape, PresenceConstants, SocketIds
<1>3. PresenceShape'
  <2>1. Head(inbox[s]) \in SUBSET Viewer
    BY <1>1, <1>2 DEF PresenceKeeps, PresenceShape
  <2>2. <<>> \in Seq(SUBSET Viewer)
    OBVIOUS
  <2> QED
    BY <1>1, <1>2, <2>1, <2>2 DEF PresenceKeeps, PresenceShape, SocketIds
<1>4. ConnectionsInv'
  BY <1>1 DEF PresenceKeeps, ConnectionsInv
<1>5. ListsAreCurrent'
  <2> SUFFICES ASSUME NEW r \in SocketIds, pathOf[r] # "none"
               PROVE  LET now == Shown(Registered(pathOf, pathOf[r]), sockets)
                      IN  /\ inbox'[r] # <<>> => Head(inbox'[r]) = now
                          /\ inbox'[r] = <<>> /\ sockets[r].alive =>
                               viewers'[sockets[r].tab] = now
    BY <1>1 DEF ListsAreCurrent
  <2> DEFINE now == Shown(Registered(pathOf, pathOf[r]), sockets)
  <2>1. /\ inbox[r] # <<>> => Head(inbox[r]) = now
        /\ inbox[r] = <<>> /\ sockets[r].alive => viewers[sockets[r].tab] = now
    BY DEF PresenceKeeps, ListsAreCurrent
  <2>2. CASE r = s
    BY <1>1, <1>2, <2>1, <2>2 DEF PresenceKeeps, PresenceShape
  <2>3. CASE r # s
    <3>1. inbox'[r] = inbox[r]
      BY <1>1, <2>3 DEF PresenceKeeps, PresenceShape
    <3>2. r \in DOMAIN sockets
      BY DEF PresenceKeeps, ConnectionsInv
    <3>3. sockets[r].alive => sockets[r].tab # sockets[s].tab
      BY <1>1, <2>3, <3>2 DEF PresenceKeeps, ConnectionsInv
    <3>4. sockets[r].alive => viewers'[sockets[r].tab] = viewers[sockets[r].tab]
      BY <1>1, <3>2, <3>3, SocketFields DEF PresenceKeeps, PresenceShape
    <3> QED
      BY <2>1, <3>1, <3>4
  <2> QED
    BY <2>2, <2>3
<1> QED
  BY <1>3, <1>4, <1>5 DEF PresenceKeeps

\* One connection joins or leaves a path, and everybody on it is told.
LEMMA ListsFollow ==
  ASSUME PresenceConstants, PresenceKeeps, SocketsGoOn,
         NEW s \in DOMAIN sockets, NEW p \in Paths,
         pathOf' \in [SocketIds -> Paths \cup {"none"}],
         pathOf[s] \in {p, "none"}, pathOf'[s] \in {p, "none"},
         \A r \in SocketIds : r # s => pathOf'[r] = pathOf[r],
         Broadcast(pathOf', p), UNCHANGED viewers
  PROVE  inbox' \in [SocketIds -> Seq(SUBSET Viewer)] /\ ListsAreCurrent'
<1> DEFINE conns == Registered(pathOf', p)
<1>1. p # "none"
  BY DEF PresenceConstants
<1>2. \A r \in SocketIds : pathOf'[r] # "none" => r \in DOMAIN sockets
  BY DEF PresenceKeeps, ConnectionsInv
<1>3. Dedupe(List(pathOf', p)) = Shown(conns, sockets)
  BY <1>1, <1>2, ListIsRegistered, DedupeIsShown DEF PresenceKeeps
<1>4. \A r \in conns : r \in DOMAIN sockets
  BY <1>1, <1>2 DEF Registered
<1>5. Shown(conns, sockets) \in SUBSET Viewer
  <2>1. \A r \in conns : sockets[r].tab \in Tabs
    BY <1>4, SocketFields DEF PresenceKeeps
  <2> QED
    BY <2>1, ShownType DEF Registered
<1>6. inbox' = [r \in SocketIds |-> IF pathOf'[r] = p THEN <<Shown(conns, sockets)>> ELSE inbox[r]]
  BY <1>3 DEF Broadcast
<1>7. inbox' \in [SocketIds -> Seq(SUBSET Viewer)]
  <2>1. <<Shown(conns, sockets)>> \in Seq(SUBSET Viewer)
    BY <1>5
  <2>2. \A r \in SocketIds : inbox[r] \in Seq(SUBSET Viewer)
    BY DEF PresenceKeeps, PresenceShape
  <2> HIDE DEF conns
  <2> QED
    BY <1>6, <2>1, <2>2
<1>8. ListsAreCurrent'
  <2> SUFFICES ASSUME NEW r \in SocketIds, pathOf'[r] # "none"
               PROVE  LET now == Shown(Registered(pathOf', pathOf'[r]), sockets')
                      IN  /\ inbox'[r] # <<>> => Head(inbox'[r]) = now
                          /\ inbox'[r] = <<>> /\ sockets'[r].alive =>
                               viewers'[sockets'[r].tab] = now
    BY DEF ListsAreCurrent
  <2>1. CASE pathOf'[r] = p
    <3>1. Shown(conns, sockets') = Shown(conns, sockets)
      BY <1>4, ShownByTabs DEF SocketsGoOn
    <3>2. inbox'[r] = <<Shown(conns, sockets)>>
      BY <1>6, <2>1
    <3>3. inbox'[r] # <<>> /\ Head(inbox'[r]) = Shown(conns, sockets)
      BY <3>2
    <3> QED
      BY <2>1, <3>1, <3>3
  <2>2. CASE pathOf'[r] # p
    <3> DEFINE q == pathOf'[r]
    <3>1. q # p /\ q # "none" /\ pathOf[r] = q
      BY <2>2
    <3>2. Registered(pathOf', q) = Registered(pathOf, q)
      BY <3>1 DEF Registered
    <3>3. inbox'[r] = inbox[r]
      BY <1>6, <2>2
    <3>4. r \in DOMAIN sockets
      BY <1>2
    <3>5. /\ inbox[r] # <<>> => Head(inbox[r]) = Shown(Registered(pathOf, q), sockets)
          /\ inbox[r] = <<>> /\ sockets[r].alive =>
               viewers[sockets[r].tab] = Shown(Registered(pathOf, q), sockets)
      BY <3>1 DEF PresenceKeeps, ListsAreCurrent
    <3>6. \A c \in Registered(pathOf, q) : c \in DOMAIN sockets
      BY <3>1 DEF Registered, PresenceKeeps, ConnectionsInv
    <3>7. Shown(Registered(pathOf, q), sockets') = Shown(Registered(pathOf, q), sockets)
      BY <3>6, ShownByTabs DEF SocketsGoOn
    <3>8. sockets'[r].tab = sockets[r].tab /\ (sockets'[r].alive => sockets[r].alive)
      BY <3>4 DEF SocketsGoOn
    <3> QED
      BY <3>2, <3>3, <3>5, <3>7, <3>8
  <2> QED
    BY <2>1, <2>2
<1> QED
  BY <1>7, <1>8

\* A connection joins a path or leaves it.
LEMMA ConnectionsMove ==
  ASSUME PresenceConstants, PresenceShape, ConnectionsInv, NEW s \in DOMAIN sockets,
         s \in SocketIds,
         DOMAIN sockets' = DOMAIN sockets, UNCHANGED hangup,
         \A r \in DOMAIN sockets : r # s => sockets'[r] = sockets[r],
         \A r \in SocketIds : r # s => pathOf'[r] = pathOf[r],
         sockets'[s].tab = sockets[s].tab, sockets'[s].path = sockets[s].path,
         sockets'[s].alive = sockets[s].alive,
         \/ /\ sockets[s].server = "opening" /\ sockets'[s].server = "open"
            /\ sockets'[s].closed = sockets[s].closed
            /\ pathOf'[s] = sockets[s].path
         \/ /\ ~ sockets[s].alive /\ pathOf'[s] = "none"
            /\ sockets'[s].server = sockets[s].server
            /\ sockets'[s].server = "open" \/ hangup
  PROVE  ConnectionsInv'
<1>1. DOMAIN sockets \subseteq SocketIds
  BY DEF PresenceShape, PresenceConstants, SocketIds
<1>2. ASSUME NEW r \in SocketIds, pathOf'[r] # "none"
      PROVE  r \in DOMAIN sockets' /\ sockets'[r].server = "open" /\ pathOf'[r] = sockets'[r].path
  <2>1. CASE r = s
    BY <1>2, <2>1
  <2>2. CASE r # s
    BY <1>2, <2>2 DEF ConnectionsInv
  <2> QED
    BY <2>1, <2>2
<1>3. ASSUME NEW r \in DOMAIN sockets, sockets'[r].alive
      PROVE  /\ ~ sockets'[r].closed /\ sockets'[r].server # "refused"
             /\ sockets'[r].server = "open" => pathOf'[r] = sockets'[r].path
  <2>1. CASE r = s
    <3>1. sockets[s].alive /\ ~ sockets[s].closed
      BY <1>3, <2>1 DEF ConnectionsInv
    <3> QED
      BY <2>1, <3>1
  <2>2. CASE r # s
    <3>1. /\ ~ sockets[r].closed /\ sockets[r].server # "refused"
          /\ sockets[r].server = "open" => pathOf[r] = sockets[r].path
      BY <1>3, <2>2 DEF ConnectionsInv
    <3> QED
      BY <2>2, <3>1, <1>1
  <2> QED
    BY <2>1, <2>2
<1>4. ASSUME NEW r \in DOMAIN sockets, NEW q \in DOMAIN sockets,
             sockets'[r].alive, sockets'[q].alive, sockets'[q].tab = sockets'[r].tab
      PROVE  q = r
  <2>1. \A c \in DOMAIN sockets :
          sockets'[c].tab = sockets[c].tab /\ sockets'[c].alive = sockets[c].alive
    OBVIOUS
  <2> QED
    BY <1>4, <2>1 DEF ConnectionsInv
<1>5. ASSUME NEW r \in DOMAIN sockets, sockets'[r].closed, ~ hangup
      PROVE  sockets'[r].server = "open" /\ pathOf'[r] = "none"
  <2>1. CASE r = s
    <3>1. ~ (sockets[s].server = "opening" /\ sockets[s].closed)
      BY <1>5 DEF ConnectionsInv
    <3> QED
      BY <1>5, <2>1, <3>1
  <2>2. CASE r # s
    BY <1>5, <2>2, <1>1 DEF ConnectionsInv
  <2> QED
    BY <2>1, <2>2
<1> QED
  BY <1>2, <1>3, <1>4, <1>5 DEF ConnectionsInv

LEMMA OpenKeeps ==
  ASSUME PresenceConstants, PresenceKeeps, NEW s \in DOMAIN sockets, OpenSocket(s)
  PROVE  PresenceKeeps'
<1> DEFINE v == [sockets[s] EXCEPT !.server = "open"]
           p == sockets[s].path
<1>1. /\ PresenceShape /\ ConnectionsInv /\ s \in SocketIds
      /\ sockets[s] \in Socket /\ p \in Paths /\ p # "none"
  BY SocketFields DEF PresenceKeeps, PresenceShape, PresenceConstants, SocketIds
<1>2. /\ sockets[s].server = "opening" /\ pathOf' = [pathOf EXCEPT ![s] = p]
      /\ Broadcast(pathOf', pathOf'[s]) /\ UNCHANGED <<hangup, watched, viewers>>
      /\ sockets' = [sockets EXCEPT ![s] = v]
  BY <1>1 DEF OpenSocket, PathAsked, PresenceShape
<1>3. /\ v \in Socket /\ v.tab = sockets[s].tab /\ v.path = p /\ v.alive = sockets[s].alive
      /\ v.closed = sockets[s].closed /\ v.server = "open"
  BY <1>1 DEF Socket
<1>4. /\ SocketsGoOn /\ DOMAIN sockets' = DOMAIN sockets /\ sockets'[s] = v
      /\ \A r \in DOMAIN sockets : r # s => sockets'[r] = sockets[r]
  BY <1>1, <1>2, <1>3, OneChanges
<1>5. /\ pathOf' \in [SocketIds -> Paths \cup {"none"}] /\ pathOf'[s] = p
      /\ \A r \in SocketIds : r # s => pathOf'[r] = pathOf[r]
  BY <1>1, <1>2 DEF PresenceShape
<1>6. pathOf[s] = "none"
  BY <1>1, <1>2 DEF ConnectionsInv
<1>7. inbox' \in [SocketIds -> Seq(SUBSET Viewer)] /\ ListsAreCurrent'
  BY <1>1, <1>2, <1>4, <1>5, <1>6, ListsFollow
<1>8. PresenceShape'
  BY <1>1, <1>2, <1>4, <1>5, <1>7 DEF PresenceShape, SocketsGoOn, SocketIds
<1>9. ConnectionsInv'
  BY <1>1, <1>2, <1>3, <1>4, <1>5, ConnectionsMove
<1> QED
  BY <1>7, <1>8, <1>9 DEF PresenceKeeps

LEMMA CloseKeeps ==
  ASSUME PresenceConstants, PresenceKeeps, NEW s \in DOMAIN sockets, CloseSocket(s)
  PROVE  PresenceKeeps'
<1> DEFINE v == [sockets[s] EXCEPT !.closed = TRUE]
           p == sockets[s].path
<1>1. /\ PresenceShape /\ ConnectionsInv /\ s \in SocketIds
      /\ sockets[s] \in Socket /\ p \in Paths /\ p # "none"
  BY SocketFields DEF PresenceKeeps, PresenceShape, PresenceConstants, SocketIds
<1>2. /\ ~ sockets[s].alive /\ (sockets[s].server = "open" \/ hangup)
      /\ pathOf' = [pathOf EXCEPT ![s] = "none"] /\ UNCHANGED <<hangup, watched, viewers>>
      /\ IF pathOf[s] = "none" THEN UNCHANGED inbox ELSE Broadcast(pathOf', pathOf[s])
      /\ sockets' = [sockets EXCEPT ![s] = v]
  BY <1>1 DEF CloseSocket, PresenceShape
<1>3. /\ v \in Socket /\ v.tab = sockets[s].tab /\ v.path = p /\ v.alive = sockets[s].alive
      /\ v.closed = TRUE /\ v.server = sockets[s].server
  BY <1>1 DEF Socket
<1>4. /\ SocketsGoOn /\ DOMAIN sockets' = DOMAIN sockets /\ sockets'[s] = v
      /\ \A r \in DOMAIN sockets : r # s => sockets'[r] = sockets[r]
  BY <1>1, <1>2, <1>3, OneChanges
<1>5. /\ pathOf' \in [SocketIds -> Paths \cup {"none"}] /\ pathOf'[s] = "none"
      /\ \A r \in SocketIds : r # s => pathOf'[r] = pathOf[r]
  BY <1>1, <1>2 DEF PresenceShape
<1>6. inbox' \in [SocketIds -> Seq(SUBSET Viewer)] /\ ListsAreCurrent'
  <2>1. CASE pathOf[s] = "none"
    <3>1. pathOf' = pathOf /\ inbox' = inbox
      BY <1>1, <1>2, <2>1 DEF PresenceShape
    <3> QED
      BY <1>1, <1>2, <1>4, <3>1, ListsStay DEF PresenceShape
  <2>2. CASE pathOf[s] # "none"
    <3>1. pathOf[s] = p
      BY <1>1, <2>2 DEF ConnectionsInv
    <3> QED
      BY <1>1, <1>2, <1>4, <1>5, <2>2, <3>1, ListsFollow
  <2> QED
    BY <2>1, <2>2
<1>7. PresenceShape'
  BY <1>1, <1>2, <1>4, <1>5, <1>6 DEF PresenceShape, SocketsGoOn, SocketIds
<1>9. /\ sockets'[s].tab = sockets[s].tab /\ sockets'[s].path = sockets[s].path
      /\ sockets'[s].alive = sockets[s].alive /\ sockets'[s].server = sockets[s].server
      /\ ~ sockets[s].alive /\ pathOf'[s] = "none"
      /\ sockets'[s].server = "open" \/ hangup
      /\ UNCHANGED hangup
  BY <1>2, <1>3, <1>4, <1>5
<1> HIDE DEF v, p
<1>8. ConnectionsInv'
  BY <1>1, <1>4, <1>5, <1>9, ConnectionsMove
<1> QED
  BY <1>6, <1>7, <1>8 DEF PresenceKeeps

LEMMA PresenceStep ==
  ASSUME PresenceConstants, PresenceKeeps, [PresenceNext]_presenceVars
  PROVE  PresenceKeeps'
<1>1. CASE UNCHANGED presenceVars
  BY <1>1 DEF presenceVars, PresenceKeeps, PresenceShape, ConnectionsInv, ListsAreCurrent
<1>2. CASE PresenceNext
  BY <1>2, UnmountKeeps, VisitKeeps, EndsKeep, ReceiveKeeps, OpenKeeps, CloseKeeps
     DEF PresenceNext
<1> QED
  BY <1>1, <1>2

\* When all is quiet, those who are registered under a path are those who are there.
LEMMA RegisteredAreAlive ==
  ASSUME PresenceConstants, PresenceKeeps, ~ hangup, Quiet, NEW place \in Paths
  PROVE  Registered(pathOf, place) = Alive(place)
<1>1. place # "none" /\ DOMAIN sockets \subseteq SocketIds
  BY DEF PresenceConstants, PresenceKeeps, PresenceShape, SocketIds
<1>2. ASSUME NEW s \in SocketIds, pathOf[s] = place
      PROVE  s \in DOMAIN sockets /\ sockets[s].alive /\ sockets[s].path = place
  <2>1. s \in DOMAIN sockets /\ sockets[s].server = "open" /\ sockets[s].path = place
    BY <1>1, <1>2 DEF PresenceKeeps, ConnectionsInv
  <2>2. ~ sockets[s].closed
    BY <1>1, <1>2, <2>1 DEF PresenceKeeps, ConnectionsInv
  <2> QED
    BY <2>1, <2>2 DEF Quiet
<1>3. ASSUME NEW s \in DOMAIN sockets, sockets[s].alive, sockets[s].path = place
      PROVE  s \in SocketIds /\ pathOf[s] = place
  <2>1. sockets[s].server = "open"
    BY <1>3, SocketFields DEF PresenceKeeps, ConnectionsInv, Quiet
  <2> QED
    BY <1>1, <1>3, <2>1 DEF PresenceKeeps, ConnectionsInv
<1> QED
  BY <1>2, <1>3 DEF Registered, Alive

LEMMA PresenceMeans ==
  ASSUME PresenceConstants, PresenceKeeps
  PROVE  PresenceInv
<1>1. PresenceTypeOK
  <2>1. \A s \in SocketIds : inbox[s] # <<>> => Head(inbox[s]) \in SUBSET Viewer
    BY DEF PresenceKeeps, PresenceShape
  <2> QED
    BY <2>1 DEF PresenceTypeOK, PresenceKeeps, PresenceShape, ConnectionsInv
<1>2. ASSUME ~ hangup, Quiet, NEW s \in DOMAIN sockets, sockets[s].alive
      PROVE  viewers[sockets[s].tab] = Dedupe(Alive(sockets[s].path))
  <2> DEFINE p == sockets[s].path
  <2>1. p \in Paths /\ p # "none" /\ s \in SocketIds
    BY SocketFields DEF PresenceKeeps, PresenceShape, PresenceConstants, SocketIds
  <2>2. Registered(pathOf, p) = Alive(p)
    BY <1>2, <2>1, RegisteredAreAlive
  <2>3. pathOf[s] = p
    BY <1>2, <2>1, <2>2 DEF Registered, Alive
  <2>4. viewers[sockets[s].tab] = Shown(Registered(pathOf, p), sockets)
    BY <1>2, <2>1, <2>3 DEF PresenceKeeps, ListsAreCurrent, Quiet
  <2> QED
    BY <2>2, <2>4, DedupeIsShown
<1> QED
  BY <1>1, <1>2 DEF PresenceInv, SettledViewersAreThere, ViewersAreThere

\* PresenceKeeps is inductive: the last list sent to a connection is that of its path, and
\* it is on its way or shown (presence.ts, runtime.ts, usePresence.ts).
THEOREM ListsAlwaysCurrent == PresenceConstants => (PresenceSpec => []PresenceKeeps)
<1> SUFFICES ASSUME PresenceConstants
             PROVE  PresenceSpec => []PresenceKeeps
  OBVIOUS
<1>1. PresenceInit => PresenceKeeps
  BY PresenceStart
<1>2. PresenceKeeps /\ [PresenceNext]_presenceVars => PresenceKeeps'
  BY PresenceStep
<1> QED
  BY <1>1, <1>2, PTL DEF PresenceSpec

\* When all is quiet every connected tab shows the users who are there, however many tabs,
\* users and paths there are (presence.ts, usePresence.ts).
THEOREM ViewersSettle == PresenceConstants => (PresenceSpec => []PresenceInv)
<1> SUFFICES ASSUME PresenceConstants
             PROVE  PresenceSpec => []PresenceInv
  OBVIOUS
<1>1. PresenceSpec => []PresenceKeeps
  BY ListsAlwaysCurrent
<1>2. PresenceKeeps => PresenceInv
  BY PresenceMeans
<1> QED
  BY <1>1, <1>2, PTL

=============================================================================
