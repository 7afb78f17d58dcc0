------------------------------ MODULE WebReader ------------------------------
(***************************************************************************)
(* A browser tab that shows a page (web/src/views/PageView.vue) and its    *)
(* stream of page:changed events (web/src/lib/realtime.ts).                *)
(*                                                                         *)
(* refreshPage runs when the route changes, with everything cleared        *)
(* before, and when an event names the route's page, in the background.    *)
(* A page is the number of the write that made it, 0 when there is none.   *)
(***************************************************************************)
EXTENDS Naturals, Sequences, FiniteSets

CONSTANTS
  Paths,
  MaxWrites,    \* bound on the writes of others
  MaxRefreshes, \* bound on the calls of refreshPage
  MaxBreaks,    \* bound on the failures: of the stream, of tickets, of requests
  Habits        \* sets of the things that may happen, see ReaderActs

\* "overtake": a refresh ends before one that began earlier.  "onward": the reader goes
\* on while a refresh is under way.  "blip": the browser is offline so shortly that the
\* stream survives.
ReaderActs == {"overtake", "onward", "blip"}

VARIABLES
  habit,
  served,    \* the pages of the server
  redirect,  \* its redirects: the path they lead to, or "none"
  writes,
  online,
  stream,    \* "closed", "ticketing", "opening" or "open"
  timer,     \* a reconnection is scheduled
  status,    \* realtimeStatus
  events,    \* the events sent to the stream and not read
  route,
  refreshes, \* the calls of refreshPage that have not ended, in the order they began
  started,
  shown,     \* the page shown and its path, "loading" or "missing" or "error"
  missed,    \* history: a change since the route changed that the tab cannot know of
  breaks

readerVars == <<habit, served, redirect, writes, online, stream, timer, status, events,
                route, refreshes, started, shown, missed, breaks>>

streamPart == <<online, stream, timer, status, events>>
viewPart == <<route, refreshes, started, shown>>
serverPart == <<served, redirect, writes>>

Nothing(word) == [page |-> 0, path |-> word]

Refresh(path, loud) == [path |-> path, loud |-> loud, answer |-> Nothing("none"), hop |-> FALSE]

ReaderInit ==
  /\ habit \in Habits
  /\ served = [p \in Paths |-> 0]
  /\ redirect = [p \in Paths |-> "none"]
  /\ writes = 0
  /\ online = TRUE /\ stream = "ticketing" /\ timer = FALSE
  /\ status = "connecting" /\ events = <<>>
  /\ route \in Paths
  /\ refreshes = <<Refresh(route, TRUE)>>
  /\ started = 1
  /\ shown = Nothing("loading")
  /\ missed = FALSE
  /\ breaks = 0

-----------------------------------------------------------------------------
(* The server: writes of others, and their events.                         *)

\* An event reaches a stream that is open.
Announce(event) ==
  IF stream = "open" THEN events' = Append(events, event) /\ UNCHANGED missed
  ELSE UNCHANGED events /\ missed' = TRUE

\* A creation or an update; a page is only created where no redirect is.
Write(p) ==
  /\ writes < MaxWrites /\ writes' = writes + 1
  /\ redirect[p] = "none"
  /\ served' = [served EXCEPT ![p] = writes']
  /\ Announce([path |-> p, from |-> "none"])
  /\ UNCHANGED <<habit, redirect, online, stream, timer, status, viewPart, breaks>>

\* A move: the old path leads to the new one.
Move(p, q) ==
  /\ writes < MaxWrites /\ writes' = writes + 1
  /\ served[p] # 0 /\ served[q] = 0 /\ redirect[q] = "none" /\ p # q
  /\ served' = [served EXCEPT ![p] = 0, ![q] = served[p]]
  /\ redirect' = [r \in Paths |-> IF r = p \/ redirect[r] = p THEN q ELSE redirect[r]]
  /\ Announce([path |-> q, from |-> p])
  /\ UNCHANGED <<habit, online, stream, timer, status, viewPart, breaks>>

Remove(p) ==
  /\ writes < MaxWrites /\ writes' = writes + 1
  /\ served[p] # 0
  /\ served' = [served EXCEPT ![p] = 0]
  /\ Announce([path |-> p, from |-> "none"])
  /\ UNCHANGED <<habit, redirect, online, stream, timer, status, viewPart, breaks>>

-----------------------------------------------------------------------------
(* lib/realtime.ts.                                                        *)

Fails == breaks < MaxBreaks /\ breaks' = breaks + 1

\* Faulty: no second try without a ticket.
RetryNever(now) == UNCHANGED timer /\ status' = "reconnecting"

\* scheduleReconnect
Retry(now) ==
  /\ timer' = TRUE
  /\ status' = IF timer THEN status ELSE IF now THEN "reconnecting" ELSE "offline"

\* openRealtime asks for a ticket, gets it, and opens the stream.
Reconnect ==
  /\ timer /\ timer' = FALSE
  /\ stream' = IF stream = "closed" THEN "ticketing" ELSE stream
  /\ UNCHANGED <<habit, serverPart, online, status, events, viewPart, missed, breaks>>

Ticket ==
  /\ stream = "ticketing" /\ online
  /\ stream' = "opening"
  /\ UNCHANGED <<habit, serverPart, online, timer, status, events, viewPart, missed, breaks>>

FailTicket ==
  /\ stream = "ticketing"
  /\ IF online THEN Fails ELSE UNCHANGED breaks
  /\ stream' = "closed"
  /\ Retry(online)
  /\ UNCHANGED <<habit, serverPart, online, events, viewPart, missed>>

OnOpen ==
  /\ stream = "opening" /\ online
  /\ stream' = "open" /\ status' = "connected"
  /\ UNCHANGED <<habit, serverPart, online, timer, events, viewPart, missed, breaks>>

\* onerror: the events on the way are lost.
OnError ==
  /\ stream \in {"opening", "open"}
  /\ IF online THEN Fails ELSE UNCHANGED breaks
  /\ stream' = "closed"
  /\ Retry(online)
  /\ missed' = (missed \/ events # <<>>) /\ events' = <<>>
  /\ UNCHANGED <<habit, serverPart, online, viewPart>>

GoOffline ==
  /\ online /\ Fails
  /\ online' = FALSE /\ status' = "offline"
  /\ UNCHANGED <<habit, serverPart, stream, timer, events, viewPart, missed>>

\* The timer of a reconnection is dropped only when there is no stream.
GoOnline ==
  /\ ~ online
  /\ stream \in {"opening", "open"} => "blip" \in habit
  /\ online' = TRUE
  /\ \/ /\ stream \in {"opening", "open"}
        /\ UNCHANGED <<stream, timer, status>>
     \/ /\ stream \in {"closed", "ticketing"}
        /\ stream' = "ticketing" /\ timer' = FALSE /\ status' = "connecting"
  /\ UNCHANGED <<habit, serverPart, events, viewPart, missed, breaks>>

-----------------------------------------------------------------------------
(* PageView.vue.                                                           *)

\* watch(path): everything is cleared, and a refresh shows that it is loading.
Arrive(path, left) ==
  /\ started < MaxRefreshes /\ started' = started + 1
  /\ route' = path
  /\ shown' = Nothing("loading")
  /\ refreshes' = Append(left, Refresh(path, TRUE))

Navigate(path) ==
  /\ path # route
  /\ refreshes = <<>> \/ "onward" \in habit
  /\ Arrive(path, refreshes)
  /\ missed' = FALSE
  /\ UNCHANGED <<habit, serverPart, streamPart, breaks>>

\* Faulty: the path a page was moved from is not looked at.
ConcernsPathOnly(event) == event.path = route

Concerns(event) == route \in {event.path, event.from}

\* onWikiEvent
ReadEvent ==
  /\ events # <<>> /\ events' = Tail(events)
  /\ \/ /\ Concerns(Head(events))
        /\ started < MaxRefreshes /\ started' = started + 1
        /\ refreshes' = Append(refreshes, Refresh(route, FALSE))
     \/ /\ ~ Concerns(Head(events))
        /\ UNCHANGED <<refreshes, started>>
  /\ UNCHANGED <<habit, serverPart, online, stream, timer, status, route, shown, missed, breaks>>

Lookup(path) ==
  LET target == IF redirect[path] = "none" THEN path ELSE redirect[path]
  IN  IF served[target] = 0 THEN Nothing("missing")
      ELSE [page |-> served[target], path |-> target]

\* The server answers getPageResult.
Serve(n) ==
  /\ refreshes[n].answer.path = "none"
  /\ LET found == Lookup(refreshes[n].path)
     IN  refreshes' = [refreshes EXCEPT ![n].answer = found,
                         ![n].hop = found.page # 0 /\ found.path # refreshes[n].path]
  /\ UNCHANGED <<habit, serverPart, streamPart, route, started, shown, missed, breaks>>

FailRequest(n) ==
  /\ refreshes[n].answer.path = "none" /\ Fails
  /\ refreshes' = [refreshes EXCEPT ![n].answer = Nothing("error")]
  /\ missed' = (missed \/ ~ refreshes[n].loud)
  /\ UNCHANGED <<habit, serverPart, streamPart, route, started, shown>>

Without(n) == SubSeq(refreshes, 1, n - 1) \o SubSeq(refreshes, n + 1, Len(refreshes))

\* The rest of refreshPage: the page is shown, or what went wrong; a background refresh
\* keeps the page it cannot read again.  A redirect takes the route along.
Show(n) ==
  LET r == refreshes[n]
      found == r.answer.page # 0
  IN  /\ r.answer.path # "none"
      /\ n = 1 \/ "overtake" \in habit
      /\ \/ /\ found /\ r.hop /\ r.answer.path # route
            /\ Arrive(r.answer.path, Without(n))
         \/ /\ ~ (found /\ r.hop /\ r.answer.path # route)
            /\ refreshes' = Without(n)
            /\ shown' = IF found \/ r.loud THEN r.answer ELSE shown
            /\ UNCHANGED <<route, started>>
      /\ UNCHANGED <<habit, serverPart, streamPart, missed, breaks>>

ReaderNext ==
  \/ \E p \in Paths : Write(p) \/ Remove(p) \/ Navigate(p) \/ \E q \in Paths : Move(p, q)
  \/ Reconnect \/ Ticket \/ FailTicket \/ OnOpen \/ OnError \/ GoOffline \/ GoOnline
  \/ ReadEvent
  \/ \E n \in DOMAIN refreshes : Serve(n) \/ FailRequest(n) \/ Show(n)

\* Timers fire, and requests for tickets and streams are answered.
ReaderFairness ==
  /\ WF_readerVars(Reconnect)
  /\ WF_readerVars(Ticket \/ FailTicket \/ OnOpen)

ReaderSpec == ReaderInit /\ [][ReaderNext]_readerVars /\ ReaderFairness

-----------------------------------------------------------------------------
(* Properties.                                                             *)

ReaderTypeOK ==
  /\ served \in [Paths -> 0 .. writes]
  /\ redirect \in [Paths -> Paths \cup {"none"}]
  /\ \A p \in Paths : redirect[p] # "none" => served[p] = 0
  /\ status \in {"connecting", "connected", "reconnecting", "offline"}
  /\ stream \in {"closed", "ticketing", "opening", "open"}
  /\ events # <<>> => stream = "open"
  /\ route \in Paths
  /\ \A n \in DOMAIN refreshes : refreshes[n].path \in Paths
  /\ shown.page \in 0 .. writes

\* When nothing is under way, a reader who has missed no event sees the page of the
\* route as the server has it ("fans page:changed events out to in-app listeners",
\* realtime.ts), when refreshes end in the order they began.  A page that is deleted
\* stays on display.
ReaderIsCurrent ==
  ("overtake" \notin habit /\ refreshes = <<>> /\ events = <<>> /\ ~ missed)
    => \/ shown \in {Lookup(route), Nothing("error")}
       \/ Lookup(route) = Nothing("missing")

\* The view takes the reader along a redirect only from the path that the reader is at.
RedirectsAreFollowed ==
  [][\A n \in DOMAIN refreshes :
       Show(n) /\ route' # route => refreshes[n].path = route]_readerVars

\* A tab that stays online gets its stream back, whatever failed before.
StreamComesBack == (stream # "open") ~> (stream = "open" \/ ~ online)

\* The header says "Live" only while there is a stream, and does while there is one,
\* but for a stream that survives the browser's being offline.
StatusIsHonest ==
  /\ status = "connected" => stream = "open"
  /\ (stream = "open" /\ online /\ "blip" \notin habit) => status = "connected"

\* The tab keeps its shape, shows what is there and says whether it is live.
ReaderInv == ReaderTypeOK /\ ReaderIsCurrent /\ StatusIsHonest

=============================================================================
