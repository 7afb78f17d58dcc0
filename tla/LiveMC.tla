--------------------------------- MODULE LiveMC ---------------------------------
(***************************************************************************)
(* What a browser shows while things change, for TLC: the tab that reads a *)
(* page, the event bus of SQLite that feeds its stream, the autosave of a  *)
(* room that nobody else writes beside, the panels that list and change    *)
(* rows, the images an editor uploads, and the page where one signs in.  A *)
(* behaviour is one of one part; the others rest in an initial state of    *)
(* theirs.                                                                 *)
(***************************************************************************)
EXTENDS WebReader, WebPanels, Collab

CONSTANTS
  i1, i2, l1, l2, Processes, Listeners, MaxEmits, MaxArrivals, Limit, StoredEvents,
  c1, c2, e1, e2, e3,
  MaxGiven, Bad, MaxSubmits

VARIABLES
  part,
  maxStored, wikiEvents, emits, at, lastSeenId, ownDelivered, heard, awaited, arrivals,
  given, pending, index, prepared, loads, url, sized, loading, processing, uploading, asking,
  inserted, failures, dropped,
  needs, oldIsValid, issued, token, signedIn, ready, me, opened, target, mode, requiresTotp, busy,
  codes, setupToken, submits, disturbed, lost

SqliteBus == INSTANCE SqliteBus
Images == INSTANCE ImageUploads
Login == INSTANCE LoginPage

sqliteVars == <<maxStored, wikiEvents, emits, at, lastSeenId, ownDelivered, heard, awaited,
                arrivals>>
imageVars ==
  <<given, pending, index, prepared, loads, url, sized, loading, processing, uploading, asking,
    inserted, failures, dropped>>
loginVars ==
  <<needs, oldIsValid, issued, token, signedIn, ready, me, opened, target, mode, requiresTotp,
    busy, codes, setupToken, submits, disturbed, lost>>
tabVars == <<panelVars, imageVars, loginVars>>
liveVars == <<part, readerVars, sqliteVars, vars, tabVars>>

\* The browser cannot load one of the images.
SomeBad == {[time |-> 1, nr |-> 2]}

\* The stream outlives the browser's being offline, or the reader goes on early.
SomeHabits == {{"blip"}, {"onward"}}

LiveInit ==
  /\ part \in {"reader", "sqlite", "room", "panel", "images", "login"}
  /\ ReaderInit /\ SqliteBus!BusInit /\ Init
  /\ PanelInit /\ Images!ImagesInit /\ Login!LoginInit
  /\ part # "reader" => habit = {"blip"} /\ route = "a"
  /\ part # "sqlite" => maxStored = MaxEmits
  /\ part # "panel" => panel = "git"
  /\ part = "login" => (target = "verify-email" <=> needs = "verification")
  /\ part = "login" /\ token = "old" => target = "login" /\ needs = "nothing"
  /\ part # "login" => target = "setup"

ReaderStep == part = "reader" /\ ReaderNext /\ UNCHANGED <<sqliteVars, vars, tabVars>>
SqliteStep == part = "sqlite" /\ SqliteBus!BusNext /\ UNCHANGED <<readerVars, vars, tabVars>>
RoomStep == part = "room" /\ Next /\ UNCHANGED <<readerVars, sqliteVars, tabVars>>
PanelStep ==
  /\ part = "panel" /\ PanelNext
  /\ UNCHANGED <<readerVars, sqliteVars, vars, imageVars, loginVars>>
ImageStep ==
  /\ part = "images" /\ Images!ImagesNext
  /\ UNCHANGED <<readerVars, sqliteVars, vars, panelVars, loginVars>>
LoginStep ==
  /\ part = "login" /\ Login!LoginNext
  /\ UNCHANGED <<readerVars, sqliteVars, vars, panelVars, imageVars>>

LiveNext ==
  /\ ReaderStep \/ SqliteStep \/ RoomStep \/ PanelStep \/ ImageStep \/ LoginStep
  /\ UNCHANGED part

\* The fairness of the parts: at rest the bus and the room have nothing to do.
LiveSpec ==
  /\ LiveInit /\ [][LiveNext]_liveVars
  /\ WF_readerVars(part = "reader" /\ Reconnect)
  /\ WF_readerVars(part = "reader" /\ (Ticket \/ FailTicket \/ OnOpen))
  /\ SqliteBus!BusFairness
  /\ WF_vars(TimerFires) /\ WF_vars(Saving)

\* The properties of the parts, stated there or, of a room and
\* its autosave, in Collab; StreamComesBack is one of a reader that runs.
ReadersStreamComesBack == part = "reader" => StreamComesBack
\* What a tab shows: the page it reads, the rows of a panel, the images, who is signed in;
\* and what the bus that feeds it hands to its listeners.
TabInv ==
  ReaderInv /\ PanelInv /\ Images!ImagesInv /\ Login!LoginInv /\ SqliteBus!ListenersInv
AwaitedEventsArrive == SqliteBus!AwaitedEventsArrive

=============================================================================
