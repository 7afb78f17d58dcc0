------------------------------ MODULE Presence ------------------------------
(***************************************************************************)
(* Who is on which page: the registry and its sockets                      *)
(* (realtime/presence.ts, realtime/runtime.ts, http/routes/realtime.ts)    *)
(* and the browser's side (web/src/lib/presence.ts, usePresence.ts).       *)
(*                                                                         *)
(* A tab watches one path at a time.  Each time the path changes it leaves *)
(* its socket and opens another one.                                       *)
(***************************************************************************)
EXTENDS Naturals, Sequences

CONSTANTS
  Tabs,
  UserOf,       \* the user of each tab, or "guest"
  EditorTabs,   \* the tabs that announce "editing"
  Paths,
  MaxSockets,   \* bound on the sockets, one after the other
  Hangups       \* whether a socket may close while the server opens it, to choose from

VARIABLES
  hangup,
  watched,   \* the path each tab watches, or "none" when it is unmounted
  sockets,   \* the sockets so far, see Socket
  pathOf,    \* the registry: the path of each connection that joined, or "none"
  inbox,     \* the last list sent to each socket and not received: one, or none
  viewers    \* what each tab shows

presenceVars == <<hangup, watched, sockets, pathOf, inbox, viewers>>

SocketIds == 1 .. MaxSockets

\* alive: the browser's end.  server: "ticketing" before the server knows the socket,
\* "opening" while its open awaits, "open", and "refused" when there never was one.
\* closed: the server's close has run.
Socket == [tab : Tabs, path : Paths, alive : BOOLEAN, closed : BOOLEAN,
           server : {"ticketing", "opening", "open", "refused"}]

Viewer == [user : {UserOf[t] : t \in Tabs}, guest : 0 .. MaxSockets,
           mode : {"viewing", "editing"}]

PresenceInit ==
  /\ hangup \in Hangups
  /\ watched = [t \in Tabs |-> "none"]
  /\ sockets = <<>>
  /\ pathOf = [s \in SocketIds |-> "none"]
  /\ inbox = [s \in SocketIds |-> <<>>]
  /\ viewers = [t \in Tabs |-> {}]

-----------------------------------------------------------------------------
(* The registry.                                                           *)

ModeOf(s) == IF sockets[s].tab \in EditorTabs THEN "editing" ELSE "viewing"

\* A viewer is a user, or the connection of a guest.
Key(s) ==
  LET user == UserOf[sockets[s].tab]
  IN  <<user, IF user = "guest" THEN s ELSE 0>>

\* dedupeViewers: one entry per user; editing wins.
Dedupe(conns) ==
  {[user |-> Key(s)[1], guest |-> Key(s)[2],
    mode |-> IF \E r \in conns : Key(r) = Key(s) /\ ModeOf(r) = "editing"
             THEN "editing" ELSE "viewing"] : s \in conns}

List(registry, path) == {s \in DOMAIN sockets : registry[s] = path}

\* Faulty: the last to come tells nobody but itself.
BroadcastToNewest(registry, path) ==
  inbox' = [s \in SocketIds |->
    IF registry[s] = path /\ \A r \in List(registry, path) : r <= s
    THEN <<Dedupe(List(registry, path))>> ELSE inbox[s]]

\* broadcast: the list of a path to everybody on it.
Broadcast(registry, path) ==
  inbox' = [s \in SocketIds |->
    IF registry[s] = path THEN <<Dedupe(List(registry, path))>> ELSE inbox[s]]

-----------------------------------------------------------------------------
(* The browser.                                                            *)

\* The sockets after tab t has disconnected.
Left(t) == [s \in DOMAIN sockets |->
             IF sockets[s].tab = t THEN [sockets[s] EXCEPT !.alive = FALSE] ELSE sockets[s]]

\* connect: the path changes, or the view is mounted.
Visit(t, p) ==
  /\ watched[t] # p
  /\ Len(sockets) < MaxSockets
  /\ watched' = [watched EXCEPT ![t] = p]
  /\ viewers' = [viewers EXCEPT ![t] = {}]
  /\ sockets' = Append(Left(t), [tab |-> t, path |-> p, alive |-> TRUE, closed |-> FALSE,
                                 server |-> "ticketing"])
  /\ UNCHANGED <<hangup, pathOf, inbox>>

Unmount(t) ==
  /\ watched[t] # "none"
  /\ watched' = [watched EXCEPT ![t] = "none"]
  /\ viewers' = [viewers EXCEPT ![t] = {}]
  /\ sockets' = Left(t)
  /\ UNCHANGED <<hangup, pathOf, inbox>>

\* The ticket arrives: the socket opens, unless the tab has gone on.
Ticket(s) ==
  /\ sockets[s].server = "ticketing"
  /\ sockets' = [sockets EXCEPT ![s].server = IF sockets[s].alive
                                                THEN "opening" ELSE "refused"]
  /\ UNCHANGED <<hangup, watched, pathOf, inbox, viewers>>

\* No ticket, no right to read, or an error of the server: there is no second try.
Refuse(s) ==
  /\ sockets[s].server \in {"ticketing", "opening"}
  /\ sockets' = [sockets EXCEPT ![s].server = "refused", ![s].alive = FALSE]
  /\ UNCHANGED <<hangup, watched, pathOf, inbox, viewers>>

\* The connection breaks; the tab does not look.
Break(s) ==
  /\ sockets[s].alive /\ sockets[s].server = "open"
  /\ sockets' = [sockets EXCEPT ![s].alive = FALSE]
  /\ UNCHANGED <<hangup, watched, pathOf, inbox, viewers>>

Receive(s) ==
  /\ sockets[s].alive /\ inbox[s] # <<>>
  /\ viewers' = [viewers EXCEPT ![sockets[s].tab] = Head(inbox[s])]
  /\ inbox' = [inbox EXCEPT ![s] = <<>>]
  /\ UNCHANGED <<hangup, watched, sockets, pathOf>>

-----------------------------------------------------------------------------
(* The server.                                                             *)

\* The path that the socket was opened for.
PathAsked(s) == sockets[s].path

\* open goes on after its awaits, and does not look whether the socket is still there.
OpenSocket(s) ==
  /\ sockets[s].server = "opening"
  /\ sockets' = [sockets EXCEPT ![s].server = "open"]
  /\ pathOf' = [pathOf EXCEPT ![s] = PathAsked(s)]
  /\ Broadcast(pathOf', pathOf'[s])
  /\ UNCHANGED <<hangup, watched, viewers>>

\* close, when the browser's end is gone.
CloseSocket(s) ==
  /\ ~ sockets[s].alive /\ ~ sockets[s].closed
  /\ sockets[s].server = "open" \/ (sockets[s].server = "opening" /\ hangup)
  /\ sockets' = [sockets EXCEPT ![s].closed = TRUE]
  /\ pathOf' = [pathOf EXCEPT ![s] = "none"]
  /\ IF pathOf[s] = "none" THEN UNCHANGED inbox ELSE Broadcast(pathOf', pathOf[s])
  /\ UNCHANGED <<hangup, watched, viewers>>

PresenceNext ==
  \/ \E t \in Tabs : Unmount(t) \/ \E p \in Paths : Visit(t, p)
  \/ \E s \in DOMAIN sockets :
       \/ Ticket(s) \/ Refuse(s) \/ Break(s) \/ Receive(s)
       \/ OpenSocket(s) \/ CloseSocket(s)

PresenceSpec == PresenceInit /\ [][PresenceNext]_presenceVars

-----------------------------------------------------------------------------
(* Properties.                                                             *)

\* The sockets and the registry keep their shapes; a connection is registered under the
\* path it asked for.
PresenceTypeOK ==
  /\ sockets \in Seq(Socket)
  /\ \A s \in SocketIds : pathOf[s] # "none" =>
       s \in DOMAIN sockets /\ pathOf[s] = sockets[s].path
  /\ \A s \in SocketIds : inbox[s] # <<>> => Head(inbox[s]) \subseteq Viewer
  /\ \A t \in Tabs : viewers[t] \subseteq Viewer

Alive(path) == {s \in DOMAIN sockets : sockets[s].alive /\ sockets[s].path = path}

\* Everything that was sent has arrived, and every end that is gone has been noticed.
Quiet ==
  /\ \A s \in DOMAIN sockets : sockets[s].server \notin {"ticketing", "opening"}
  /\ \A s \in DOMAIN sockets : ~ sockets[s].alive =>
       sockets[s].closed \/ sockets[s].server = "refused"
  /\ \A s \in DOMAIN sockets : sockets[s].alive => inbox[s] = <<>>

\* "who is currently on each page, and whether they're just viewing or actively editing"
\* (presence.ts): when all is quiet, every tab that is connected shows the users whose
\* tabs are connected for the same path, whoever came, left and came back before.
ViewersAreThere ==
  Quiet => \A s \in DOMAIN sockets :
    sockets[s].alive => viewers[sockets[s].tab] = Dedupe(Alive(sockets[s].path))

\* The same, where no socket closes while the server opens it.
SettledViewersAreThere == ~ hangup => ViewersAreThere

\* The registry keeps its shape and settles on those who are there.
PresenceInv == PresenceTypeOK /\ SettledViewersAreThere

=============================================================================
