------------------------------- MODULE Watchers -------------------------------
(***************************************************************************)
(* Who watches a page and is told of its changes                           *)
(* (services/notifications.ts).  Watchers are rows of a user and a path;   *)
(* the pages themselves are moved, deleted and created by writes whose     *)
(* effects (http/app.ts pageWriteEffects) reach the rows later.            *)
(***************************************************************************)
EXTENDS Naturals, FiniteSets

CONSTANTS
  WatchedPages, WatchPaths, WatchUsers,
  Nowhere,        \* the path of a page that has been purged, or not created
  Effects,        \* the writes of a behaviour
  WatchModes      \* sets of "overtake" to choose from

VARIABLES
  watchMode,   \* "overtake": writes do not wait for the effects of others on their paths
  path,        \* of each page, in the trash too
  active,      \* the pages that are not in the trash
  watchers,    \* page_watchers
  asking,      \* a request to watch or unwatch that has seen the page
  effects,     \* pageChanged of each write
  told,        \* notifications: user and write
  wants,       \* history: the pages that a user has asked to watch
  owed         \* history: the users who watched a page when it was written

watchVars == <<watchMode, path, active, watchers, asking, effects, told, wants, owed>>

NoRequest == [user |-> Nowhere, path |-> Nowhere, on |-> FALSE]
NoEffect == [stage |-> "none", action |-> "updated", path |-> Nowhere, from |-> Nowhere,
             actor |-> Nowhere, todo |-> {}]

WatchInit ==
  /\ watchMode \in WatchModes
  /\ path = [g \in WatchedPages |-> Nowhere]
  /\ active = {}
  /\ watchers = {} /\ asking = NoRequest
  /\ effects = [e \in Effects |-> NoEffect]
  /\ told = {} /\ wants = {} /\ owed = [e \in Effects |-> {}]

Running == {e \in Effects : effects[e].stage \notin {"none", "ended"}}

\* Nothing is under way about these paths.
Quiet(paths) ==
  "overtake" \in watchMode \/
    /\ asking.path \notin paths
    /\ \A e \in Running : {effects[e].path, effects[e].from} \intersect paths \subseteq {Nowhere}

WatchersOf(g) == {u \in WatchUsers : <<u, g>> \in wants}

\* A write has committed, and runPageWrite begins its effects.
Written(e, g, action, from, actor) ==
  /\ effects[e].stage = "none" /\ \A other \in Effects : other < e => effects[other].stage # "none"
  /\ effects' = [effects EXCEPT ![e] =
                   [stage |-> "move", action |-> action, path |-> path'[g], from |-> from,
                    actor |-> actor, todo |-> {}]]
  /\ owed' = [owed EXCEPT ![e] = WatchersOf(g) \ {actor}]
  /\ wants' = IF action = "deleted" THEN {w \in wants : w[2] # g} ELSE wants
  /\ UNCHANGED <<watchMode, watchers, asking, told>>

CreatePage(e, g, p, actor) ==
  /\ path[g] = Nowhere /\ \A other \in WatchedPages : path[other] # p
  /\ Quiet({p})
  /\ path' = [path EXCEPT ![g] = p] /\ active' = active \union {g}
  /\ Written(e, g, "created", Nowhere, actor)

UpdatePage(e, g, actor) ==
  /\ g \in active /\ Quiet({path[g]})
  /\ UNCHANGED <<path, active>>
  /\ Written(e, g, "updated", Nowhere, actor)

MovePage(e, g, p, actor) ==
  /\ g \in active /\ \A other \in WatchedPages : path[other] # p
  /\ Quiet({path[g], p})
  /\ path' = [path EXCEPT ![g] = p] /\ UNCHANGED active
  /\ Written(e, g, "moved", path[g], actor)

\* Archives and deletions are both told as deletions.
RemovePage(e, g, actor) ==
  /\ g \in active /\ Quiet({path[g]})
  /\ active' = active \ {g} /\ UNCHANGED path
  /\ Written(e, g, "deleted", Nowhere, actor)

RestorePage(e, g, actor) ==
  /\ path[g] # Nowhere /\ g \notin active /\ Quiet({path[g]})
  /\ active' = active \union {g} /\ UNCHANGED path
  /\ Written(e, g, "created", Nowhere, actor)

\* A purge tells the path that the page had.
PurgePage(e, g, actor) ==
  /\ path[g] # Nowhere /\ Quiet({path[g]})
  /\ effects[e].stage = "none" /\ \A other \in Effects : other < e => effects[other].stage # "none"
  /\ path' = [path EXCEPT ![g] = Nowhere] /\ active' = active \ {g}
  /\ effects' = [effects EXCEPT ![e] =
                   [stage |-> "move", action |-> "deleted", path |-> path[g],
                    from |-> Nowhere, actor |-> actor, todo |-> {}]]
  /\ owed' = [owed EXCEPT ![e] = WatchersOf(g) \ {actor}]
  /\ wants' = {w \in wants : w[2] # g}
  /\ UNCHANGED <<watchMode, watchers, asking, told>>

\* Faulty: those who watch the new path keep the old one too.
MovedCopied(rows, from, to) == rows \union {<<w[1], to>> : w \in {row \in rows : row[2] = from}}

\* moveWatchers, with ON CONFLICT DO NOTHING.
Moved(rows, from, to) ==
  {w \in rows : w[2] # from} \union {<<w[1], to>> : w \in {row \in rows : row[2] = from}}

\* pageChanged: first the watchers follow.
MoveWatchers(e) ==
  /\ effects[e].stage = "move"
  /\ effects' = [effects EXCEPT ![e].stage = "list"]
  /\ watchers' = IF effects[e].from \notin {Nowhere, effects[e].path}
                 THEN Moved(watchers, effects[e].from, effects[e].path) ELSE watchers
  /\ UNCHANGED <<watchMode, path, active, asking, told, wants, owed>>

\* listWatchers, when the page has been found or not.
ListWatchers(e) ==
  /\ effects[e].stage = "list"
  /\ effects' = [effects EXCEPT ![e].stage = "tell",
                   ![e].todo = {w[1] : w \in {row \in watchers : row[2] = effects[e].path}}
                               \ {effects[e].actor}]
  /\ UNCHANGED <<watchMode, path, active, watchers, asking, told, wants, owed>>

TellWatcher(e, u) ==
  /\ effects[e].stage = "tell" /\ u \in effects[e].todo
  /\ effects' = [effects EXCEPT ![e].todo = @ \ {u}]
  /\ told' = told \union {<<u, e>>}
  /\ UNCHANGED <<watchMode, path, active, watchers, asking, wants, owed>>

EndEffects(e) ==
  /\ effects[e].stage = "tell" /\ effects[e].todo = {}
  /\ effects' = [effects EXCEPT ![e] = [NoEffect EXCEPT !.stage = "ended"]]
  /\ watchers' = IF effects[e].action = "deleted"
                 THEN {w \in watchers : w[2] # effects[e].path} ELSE watchers
  /\ UNCHANGED <<watchMode, path, active, asking, told, wants, owed>>

\* watch: requireVisiblePage finds the page, in the trash too.
AskToWatch(u, g, on) ==
  /\ asking = NoRequest
  /\ path[g] # Nowhere /\ Quiet({path[g]})
  /\ asking' = [user |-> u, path |-> path[g], on |-> on]
  /\ wants' = IF on THEN wants \union {<<u, g>>} ELSE wants \ {<<u, g>>}
  /\ UNCHANGED <<watchMode, path, active, watchers, effects, told, owed>>

SetWatching ==
  /\ asking # NoRequest
  /\ watchers' = IF asking.on THEN watchers \union {<<asking.user, asking.path>>}
                 ELSE watchers \ {<<asking.user, asking.path>>}
  /\ asking' = NoRequest
  /\ UNCHANGED <<watchMode, path, active, effects, told, wants, owed>>

WriteOf(e, g, actor) ==
  \/ UpdatePage(e, g, actor) \/ RemovePage(e, g, actor) \/ RestorePage(e, g, actor)
  \/ PurgePage(e, g, actor)
  \/ \E p \in WatchPaths : CreatePage(e, g, p, actor) \/ MovePage(e, g, p, actor)

WatchNext ==
  \/ SetWatching
  \/ \E u \in WatchUsers, g \in WatchedPages, on \in BOOLEAN : AskToWatch(u, g, on)
  \/ \E e \in Effects :
       \/ MoveWatchers(e) \/ ListWatchers(e) \/ EndEffects(e)
       \/ \E u \in WatchUsers : TellWatcher(e, u)
       \/ \E g \in WatchedPages, actor \in WatchUsers : WriteOf(e, g, actor)

WatchSpec == WatchInit /\ [][WatchNext]_watchVars

-----------------------------------------------------------------------------
(* Properties.                                                             *)

\* The rows of watchers follow the pages through moves, deletions and the reuse of their
\* paths, and every write tells those who watched the page then, but the one who wrote it,
\* when writes and watch requests wait for what is under way about their paths.  The code
\* does not make them wait (mode "overtake").
WatchInv ==
  /\ Running = {} /\ asking = NoRequest =>
       watchers = {<<w[1], path[w[2]]>> : w \in wants}
  /\ \A e \in Effects :
       effects[e].stage = "ended" => {u \in WatchUsers : <<u, e>> \in told} = owed[e]

=============================================================================
