------------------------------ MODULE WebEditor ------------------------------
(***************************************************************************)
(* The editor of one page in a browser (web/src/views/PageEdit.vue,        *)
(* web/src/composables/usePageEditor.ts): save with its requests, the      *)
(* conflict draft, and leaving.                                            *)
(*                                                                         *)
(* A text is the set of edits in it, as in Collab.  The path is typed too: *)
(* a save whose path is another one also moves the page.                   *)
(*                                                                         *)
(* The server checks the version a save expects in one step and writes in  *)
(* another, and so it does for others.  updatedAt numbers the writes of    *)
(* the page: only its equality is ever looked at.                          *)
(***************************************************************************)
EXTENDS Naturals, FiniteSets

CONSTANTS
  Words,        \* what can be typed
  MaxUpdates,   \* bound on updatedAt
  MaxFailures,  \* bound on the requests that fail
  Manners       \* sets of the things that may happen, see EditorActs

\* "typing": the user types while a save is under way.  "leaving": he leaves while it is.
\* "unmerged": he saves, or runs into the next conflict, before he has restored or
\* discarded a draft.  "turning": he leaves with such a draft and nothing else unsaved.
\* "room": the content is that of a room, which saves it by itself.  "crossing": the page is
\* written by one between the check and the write of another.
EditorActs == {"typing", "leaving", "unmerged", "turning", "room", "crossing"}

VARIABLES
  manner,
  edited,     \* the page at the server
  request,    \* the update that save has sent, or NoRequest
  other,      \* a write of others that is checked: its text and the version read, or NoWrite
  others,     \* history: the edits of others
  otherAt,    \* history: updatedAt of the last write of others
  content,
  path,
  original,   \* originalPath and originalUpdatedAt
  savedDraft, \* content and path as last marked saved
  draft,      \* conflictDraft, or NoDraft
  phase,      \* where save is, see Phases
  typed,      \* history: the edits the user has typed
  given,      \* history: those he has agreed to lose
  restored,   \* history: he has put back a draft
  failures

editorVars == <<manner, edited, request, other, others, otherAt, content, path, original,
                savedDraft, draft, phase, typed, given, restored, failures>>

Phases == {"idle", "asking", "updating", "updated", "moving", "reloading", "listing", "left"}

PagePaths == {"here", "there"}

NoDraft == [content |-> {}, path |-> "none"]

Draft == [content : SUBSET Words, path : PagePaths]

NoRequest == [state |-> "none", content |-> {}, expectedUpdatedAt |-> 0, read |-> 0]

NoWrite == [text |-> {}, read |-> 0]

\* onMounted has applied the page and marked it saved.
EditorInit ==
  /\ manner \in Manners
  /\ edited = [text |-> {}, path |-> "here", updatedAt |-> 0]
  /\ request = NoRequest /\ other = NoWrite
  /\ others = {} /\ otherAt = 0
  /\ content = {} /\ path = "here"
  /\ original = [path |-> "here", updatedAt |-> 0]
  /\ savedDraft = [content |-> {}, path |-> "here"]
  /\ draft = NoDraft
  /\ phase = "idle"
  /\ typed = {} /\ given = {} /\ restored = FALSE
  /\ failures = 0

Captured == [content |-> content, path |-> path]

Dirty == Captured # savedDraft

Fresh == Words \ (typed \cup others)

historyPart == <<others, otherAt, typed, given, restored>>
wirePart == <<request, other>>

MayWrite == "crossing" \in manner \/ (other = NoWrite /\ request.state # "checked")

-----------------------------------------------------------------------------
(* Others, and the room's autosave.                                        *)

\* An update of somebody else, on the page as it is, is checked, and then written.
OtherReads ==
  /\ other = NoWrite /\ MayWrite
  /\ edited.updatedAt < MaxUpdates
  /\ \E e \in Fresh :
       /\ other' = [text |-> edited.text \cup {e}, read |-> edited.updatedAt]
       /\ others' = others \cup {e}
  /\ UNCHANGED <<manner, edited, request, otherAt, content, path, original, savedDraft, draft,
                 phase, typed, given, restored, failures>>

OtherWrites ==
  /\ other # NoWrite
  /\ edited.updatedAt < MaxUpdates
  /\ edited' = [edited EXCEPT !.text = other.text, !.updatedAt = @ + 1]
  /\ otherAt' = edited'.updatedAt
  /\ other' = NoWrite
  /\ UNCHANGED <<manner, request, others, content, path, original, savedDraft, draft, phase,
                 typed, given, restored, failures>>

\* The text of the room is the user's: pages.saveContent, which is one step here and two
\* in Collab.
RoomSaves ==
  /\ "room" \in manner /\ others = {} /\ MayWrite
  /\ phase # "left" /\ content # edited.text
  /\ edited.updatedAt < MaxUpdates
  /\ edited' = [edited EXCEPT !.text = content, !.updatedAt = @ + 1]
  /\ UNCHANGED <<manner, wirePart, historyPart, content, path, original, savedDraft, draft, phase,
                 failures>>

-----------------------------------------------------------------------------
(* The user.                                                               *)

MayType == phase = "idle" \/ (phase # "left" /\ "typing" \in manner)

Type ==
  /\ MayType
  /\ \E e \in Fresh : content' = content \cup {e} /\ typed' = typed \cup {e}
  /\ UNCHANGED <<manner, edited, wirePart, others, otherAt, path, original, savedDraft, draft,
                 phase, given, restored, failures>>

TypePath ==
  /\ MayType
  /\ path' \in PagePaths \ {path}
  /\ UNCHANGED <<manner, edited, wirePart, historyPart, content, original, savedDraft, draft,
                 phase, failures>>

\* restoreConflictDraft and discardConflictDraft
RestoreDraft ==
  /\ phase = "idle" /\ draft # NoDraft
  /\ content' = draft.content /\ path' = draft.path
  /\ restored' = TRUE
  /\ given' = given \cup (content \ draft.content)
  /\ UNCHANGED <<manner, edited, wirePart, others, otherAt, original, savedDraft, draft, phase,
                 typed, failures>>

DiscardDraft ==
  /\ phase = "idle" /\ draft # NoDraft
  /\ draft' = NoDraft
  /\ given' = given \cup draft.content
  /\ UNCHANGED <<manner, edited, wirePart, others, otherAt, content, path, original, savedDraft,
                 phase, typed, restored, failures>>

\* onBeforeRouteLeave, beforeUnload: only unsaved content is asked about, a draft is
\* not, and not while a save is under way.
Leave ==
  /\ phase # "left" /\ (phase = "idle" \/ "leaving" \in manner)
  /\ draft = NoDraft \/ Dirty \/ "turning" \in manner
  /\ phase' = "left"
  /\ given' = IF phase = "idle" /\ Dirty THEN typed ELSE given
  /\ UNCHANGED <<manner, edited, wirePart, others, otherAt, content, path, original, savedDraft,
                 draft, typed, restored, failures>>

-----------------------------------------------------------------------------
(* save                                                                    *)

\* What updatePage sends: the content and the version as they are then.
Sent ==
  [state |-> "sent", content |-> content, expectedUpdatedAt |-> original.updatedAt, read |-> 0]

\* A move is asked about when the page has backlinks.
StartSave ==
  /\ phase = "idle"
  /\ draft = NoDraft \/ draft.content \subseteq content \/ "unmerged" \in manner
  /\ \/ phase' = "updating" /\ request' = Sent
     \/ path # original.path /\ phase' = "asking" /\ UNCHANGED request
  /\ UNCHANGED <<manner, edited, other, historyPart, content, path, original, savedDraft, draft,
                 failures>>

Answer ==
  /\ phase = "asking"
  /\ \/ phase' = "updating" /\ request' = Sent /\ UNCHANGED path
     \/ phase' = "idle" /\ path' = original.path /\ UNCHANGED request
  /\ UNCHANGED <<manner, edited, other, historyPart, content, original, savedDraft, draft,
                 failures>>

\* Faulty: a page that others have written passes too.
CheckAnyVersion ==
  /\ request.state = "sent" /\ MayWrite
  /\ request' = [request EXCEPT !.state = "checked", !.read = edited.updatedAt]
  /\ UNCHANGED <<manner, edited, other, historyPart, content, path, original, savedDraft, draft,
                 phase, failures>>

\* pages.update reads the page and looks at expectedUpdatedAt, also when the user has left.
Check ==
  /\ request.state = "sent" /\ MayWrite
  /\ edited.updatedAt = request.expectedUpdatedAt
  /\ request' = [request EXCEPT !.state = "checked", !.read = edited.updatedAt]
  /\ UNCHANGED <<manner, edited, other, historyPart, content, path, original, savedDraft, draft,
                 phase, failures>>

\* writeExistingPage writes the row by its id, whatever has become of it.
WriteSent ==
  /\ request.state = "checked"
  /\ edited.updatedAt < MaxUpdates
  /\ edited' = [edited EXCEPT !.text = request.content, !.updatedAt = @ + 1]
  /\ request' = NoRequest

\* The page is written, and save goes on with the version of the answer.
Update ==
  /\ WriteSent
  /\ \/ /\ phase = "updating" /\ phase' = "updated"
        /\ original' = [original EXCEPT !.updatedAt = edited'.updatedAt]
     \/ phase = "left" /\ UNCHANGED <<phase, original>>
  /\ UNCHANGED <<manner, other, historyPart, content, path, savedDraft, draft, failures>>

Fails == failures < MaxFailures /\ failures' = failures + 1

\* The update is refused or lost, or took effect and its answer is lost.
FailUpdate ==
  /\ phase = "updating" /\ Fails
  /\ \/ UNCHANGED edited /\ request' = NoRequest
     \/ WriteSent
  /\ phase' = "idle"
  /\ UNCHANGED <<manner, other, historyPart, content, path, original, savedDraft, draft>>

\* Faulty: the draft is kept only when there is none.
CaptureOnce == IF draft = NoDraft THEN Captured ELSE draft

Capture == Captured

\* The update is refused as a conflict: the draft is captured, and the page reloaded.
Conflict ==
  /\ phase = "updating" /\ request.state = "sent"
  /\ edited.updatedAt # request.expectedUpdatedAt
  /\ draft' = Capture
  /\ phase' = "reloading" /\ request' = NoRequest
  /\ UNCHANGED <<manner, edited, other, historyPart, content, path, original, savedDraft,
                 failures>>

\* getPage, applyPage and markSaved.
Reload ==
  /\ phase = "reloading"
  /\ content' = edited.text /\ path' = edited.path
  /\ original' = [path |-> edited.path, updatedAt |-> edited.updatedAt]
  /\ savedDraft' = [content |-> edited.text, path |-> edited.path]
  /\ phase' = "idle"
  /\ UNCHANGED <<manner, edited, wirePart, historyPart, draft, failures>>

FailReload ==
  /\ phase = "reloading" /\ Fails
  /\ phase' = "idle"
  /\ UNCHANGED <<manner, edited, wirePart, historyPart, content, path, original, savedDraft,
                 draft>>

\* After the update: the move, when the path is another one by now.
Updated ==
  /\ phase = "updated"
  /\ \/ path # original.path /\ phase' = "moving"
     \/ path = original.path /\ phase' = "listing"
  /\ draft' = IF phase' = "listing" THEN NoDraft ELSE draft
  /\ UNCHANGED <<manner, edited, wirePart, historyPart, content, path, original, savedDraft,
                 failures>>

Move ==
  /\ phase = "moving" /\ MayWrite
  /\ edited.updatedAt < MaxUpdates
  /\ edited' = [edited EXCEPT !.path = path, !.updatedAt = @ + 1]
  /\ original' = [path |-> path, updatedAt |-> edited'.updatedAt]
  /\ phase' = "listing"
  /\ draft' = NoDraft
  /\ UNCHANGED <<manner, wirePart, historyPart, content, path, savedDraft, failures>>

\* The text is saved and the path is not; the next save goes on from there.
FailMove ==
  /\ phase = "moving" /\ Fails
  /\ phase' = "idle"
  /\ UNCHANGED <<manner, edited, wirePart, historyPart, content, path, original, savedDraft,
                 draft>>

\* A move that is refused as a conflict is treated like an update that is.
RefuseMove ==
  /\ phase = "moving" /\ Fails
  /\ draft' = Capture
  /\ phase' = "reloading"
  /\ UNCHANGED <<manner, edited, wirePart, historyPart, content, path, original, savedDraft>>

\* The list of pages is refreshed, markSaved runs, and the router goes to the page.
Finish ==
  /\ phase = "listing"
  /\ savedDraft' = Captured
  /\ phase' = "left"
  /\ UNCHANGED <<manner, edited, wirePart, historyPart, content, path, original, draft, failures>>

EditorNext ==
  \/ OtherReads \/ OtherWrites \/ RoomSaves
  \/ Type \/ TypePath \/ RestoreDraft \/ DiscardDraft \/ Leave
  \/ StartSave \/ Answer \/ Check \/ Update \/ FailUpdate
  \/ Conflict \/ Reload \/ FailReload
  \/ Updated \/ Move \/ FailMove \/ RefuseMove \/ Finish

EditorSpec == EditorInit /\ [][EditorNext]_editorVars

-----------------------------------------------------------------------------
(* Properties.                                                             *)

EditorTypeOK ==
  /\ edited.text \subseteq Words /\ edited.path \in PagePaths
  /\ edited.updatedAt \in 0 .. MaxUpdates
  /\ original.updatedAt <= edited.updatedAt
  /\ content \subseteq typed \cup others
  /\ path \in PagePaths
  /\ draft \in Draft \cup {NoDraft}
  /\ phase \in Phases
  /\ phase = "listing" => draft = NoDraft
  /\ request.state \in {"none", "sent", "checked"}
  /\ request # NoRequest => phase \in {"updating", "left"}

\* "keeps a conflict draft, loads the latest page, and restores the draft on request"
\* (PageEdit.test.ts): what the user has typed is at the server, in the editor or in the
\* draft, unless he gave it up, through conflicts, failures, moves and retries; when he
\* waits for a save to end and deals with one draft before he leaves or saves again, and
\* nobody writes the page between the check and the write of somebody else.
Kept ==
  edited.text \cup given
    \cup (IF phase = "left" THEN {} ELSE content \cup draft.content)

TypedTextIsKept == manner \subseteq {"room"} => typed \subseteq Kept

\* The same, whenever the user leaves: "prevents accidental tab close when the page has
\* unsaved changes" (PageEdit.test.ts).
TypedTextIsNeverLost == typed \subseteq Kept

\* A write that was checked against a page that is no more.
Crosses ==
  \/ request.state = "checked" /\ request' = NoRequest /\ request.read # edited.updatedAt
  \/ other # NoWrite /\ other' = NoWrite /\ other.read # edited.updatedAt

\* No write drops what others wrote, unless the user has put a draft back, or the page was
\* written between the check of that write and the write.
OthersAreKept ==
  [][edited'.text # edited.text /\ ~ restored' =>
       edited.text \subseteq edited'.text \/ Crosses]_editorVars

\* "changed since you opened it" (pages.ts:645): a save is refused only when somebody
\* else has written the page since the editor read it.  The room's own autosave of what
\* the user types breaks it.
ConflictsAreOthers ==
  [][Conflict => otherAt > original.updatedAt]_editorVars

\* The editor keeps its shape and, for a patient user, what was typed.
EditorInv == EditorTypeOK /\ TypedTextIsKept

=============================================================================
