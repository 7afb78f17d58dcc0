------------------------------- MODULE GitMirror -------------------------------
(***************************************************************************)
(* The Git mirror of the wiki (storage/git.ts, storage/git-sync.ts) and    *)
(* the effects of page writes that feed it (http/app.ts): pages become     *)
(* files of a repository, commits that others pushed become pages.         *)
(*                                                                         *)
(* A tree gives every path its content, a number, or Nothing.  Of the      *)
(* repository the tree of HEAD, the working directory and an unfinished    *)
(* merge are kept; of the remote its tree and the tree that the last pull  *)
(* or push left on both sides.  All git work is one chain of jobs.         *)
(***************************************************************************)
EXTENDS Naturals, Sequences

CONSTANTS
  GitPaths,
  Garbled,         \* a file with conflict markers
  GitModes,        \* sets of the things that may happen, see GitActs
  MaxGitEdits,     \* bound on page writes and external commits together
  MaxGitFailures,  \* bound on pulls, pushes, commits and imports that fail
  MaxRestarts      \* bound on restarts of the server

\* "authoritative": GIT_SOURCE_OF_TRUTH.  "down": pulls and pushes fail.
\* "restart": the server stops and starts.  "busy": pages are written while a
\* sync waits or runs.  "reorder": the effects of two writes overtake each other.
\* "conflict": both sides change a path.  "error": a commit or an import fails.
\* "early": pages are written before the files of the clone are imported.
\* "emptied": an authoritative repository has no page.
GitActs == {"authoritative", "down", "restart", "busy", "reorder", "conflict", "error",
            "early", "emptied"}

ASSUME GitAssumption ==
  /\ GitPaths # {} /\ GitModes \subseteq SUBSET GitActs
  /\ {MaxGitEdits, MaxGitFailures, MaxRestarts} \subseteq Nat

VARIABLES
  gitMode,
  pages,       \* the wiki's active pages
  trash,       \* the content of removed pages that keep their path
  effects,     \* writes whose mirrorWrite has not joined the chain
  chain,       \* the jobs that wait
  work,        \* the working directory
  head,        \* the tree of HEAD
  merging,     \* the tree of MERGE_HEAD, or <<>>
  marker,      \* the tree of the last-imported commit, or <<>>
  remote,      \* the tree of the remote's branch
  base,        \* the remote's tree when it was last merged or pushed
  behind,      \* the remote has commits that HEAD does not contain
  sync,        \* the sync at the head of the chain
  synchronized,
  gitReady,    \* "ready" when requests are served, else "waiting" or "failed"
  edits,
  gitFailures,
  restarts

gitVars == <<gitMode, pages, trash, effects, chain, work, head, merging, marker, remote,
             base, behind, sync, synchronized, gitReady, edits, gitFailures, restarts>>

wiki == <<pages, trash>>
repository == <<work, head, merging, marker>>
upstream == <<remote, base, behind>>
server == <<sync, synchronized, gitReady>>
bounds == <<gitMode, edits, gitFailures, restarts>>

Nothing == 0
Contents == 1 .. MaxGitEdits + 1
File == Contents \cup {Nothing, Garbled}
Tree == [GitPaths -> File]
NoTree == <<>>
EmptyTree == [p \in GitPaths |-> Nothing]

Authoritative == "authoritative" \in gitMode

\* A job writes and deletes files, and commits; in authoritative mode the request
\* goes on to a sync.  Or it is a sync.
FilesJob(files) == [kind |-> "files", files |-> files]
SyncJob == [kind |-> "sync"]
Idle == [at |-> "idle"]

\* In authoritative mode nothing is served before the first sync.
Boot == IF Authoritative THEN "waiting" ELSE "ready"

\* The repository is a clone; in authoritative mode the database may be older.
GitInit ==
  /\ gitMode \in GitModes
  /\ remote \in [GitPaths -> {Nothing, 1}]
  /\ pages \in [GitPaths -> {Nothing, 1}]
  /\ pages = EmptyTree \/ Authoritative
  /\ Authoritative /\ remote = EmptyTree => "emptied" \in gitMode
  /\ trash = EmptyTree
  /\ effects = <<>>
  /\ work = remote /\ head = remote /\ base = remote
  /\ merging = NoTree /\ marker = NoTree
  /\ behind = FALSE
  /\ chain = IF Authoritative THEN <<SyncJob>> ELSE <<>>
  /\ sync = Idle /\ synchronized = FALSE
  /\ gitReady = Boot
  /\ edits = 0 /\ gitFailures = 0 /\ restarts = 0

-----------------------------------------------------------------------------
(* Page writes and their effects.                                          *)

SyncAhead == sync # Idle \/ \E n \in DOMAIN chain : chain[n] = SyncJob

\* Somebody else's change of the path is not in the wiki yet.
Incoming(p) ==
  \/ remote[p] # base[p]
  \/ marker # NoTree /\ marker[p] # head[p]
  \/ sync.at = "import" /\ p \in sync.paths

MayEdit(touched) ==
  /\ gitReady = "ready"
  /\ edits < MaxGitEdits
  /\ edits' = edits + 1
  /\ SyncAhead => "busy" \in gitMode
  /\ marker = NoTree => "early" \in gitMode
  /\ "conflict" \notin gitMode => \A p \in touched : ~ Incoming(p)

Pending(p) ==
  \E queue \in {effects, chain} : \E n \in DOMAIN queue :
    queue[n] # SyncJob /\ p \in DOMAIN queue[n].files

\* Another path is left, whatever is still to be merged.
MayDelete(p) ==
  \/ ~ Authoritative \/ "emptied" \in gitMode
  \/ \E q \in GitPaths \ {p} :
       ~ Pending(q) /\ Nothing \notin {pages[q], head[q], remote[q]}

\* The pages go to the mirror as the write has left them.
Written(touched) ==
  /\ effects' = Append(effects, FilesJob([p \in touched |-> pages'[p]]))
  /\ UNCHANGED <<chain, repository, upstream, server, gitMode, gitFailures, restarts>>

\* create, update, saveContent.
SavePage(p) ==
  /\ MayEdit({p})
  /\ trash[p] = Nothing
  /\ pages' = [pages EXCEPT ![p] = edits' + 1]
  /\ trash' = trash
  /\ Written({p})

\* remove, archive.
DeletePage(p) ==
  /\ MayEdit({p})
  /\ MayDelete(p)
  /\ pages[p] # Nothing
  /\ trash' = [trash EXCEPT ![p] = pages[p]]
  /\ pages' = [pages EXCEPT ![p] = Nothing]
  /\ Written({p})

RestorePage(p) ==
  /\ MayEdit({p})
  /\ trash[p] # Nothing
  /\ pages' = [pages EXCEPT ![p] = trash[p]]
  /\ trash' = [trash EXCEPT ![p] = Nothing]
  /\ Written({p})

MovePage(p, q) ==
  /\ MayEdit({p, q})
  /\ pages[p] # Nothing /\ pages[q] = Nothing /\ trash[q] = Nothing
  /\ pages' = [pages EXCEPT ![p] = Nothing, ![q] = pages[p]]
  /\ trash' = trash
  /\ Written({p, q})

\* Faulty: a write whose effects were overtaken joins first.
NextEffects == DOMAIN effects

\* The writes that may join the chain.
FirstEffects == IF "reorder" \in gitMode THEN DOMAIN effects ELSE {1} \cap DOMAIN effects

\* pageWriteEffects after its awaits: mirrorWrite joins the chain.
Mirror ==
  /\ \E n \in FirstEffects :
       /\ chain' = Append(chain, effects[n])
       /\ effects' = SubSeq(effects, 1, n - 1) \o SubSeq(effects, n + 1, Len(effects))
  /\ UNCHANGED <<wiki, repository, upstream, server, bounds>>

-----------------------------------------------------------------------------
(* Jobs that write files.                                                  *)

Fails(act) ==
  /\ act \in gitMode
  /\ gitFailures < MaxGitFailures
  /\ gitFailures' = gitFailures + 1

Put(files) == [p \in GitPaths |-> IF p \in DOMAIN files THEN files[p] ELSE work[p]]

\* writeMarker(headSha()) after a commit.
MarkerAfterCommit == head'

\* In authoritative mode the request goes on to a sync.
Onward == IF Authoritative THEN Append(Tail(chain), SyncJob) ELSE Tail(chain)

\* savePage, movePage, deletePage and the commit of everything in content; an
\* unfinished merge is concluded.
CommitFiles ==
  /\ sync = Idle /\ chain # <<>> /\ Head(chain) # SyncJob
  /\ work' = Put(Head(chain).files)
  /\ IF work' = head
     THEN UNCHANGED <<head, merging, marker, upstream>>
     ELSE /\ head' = work'
          /\ marker' = MarkerAfterCommit
          /\ merging' = NoTree
          /\ IF merging = NoTree THEN UNCHANGED <<base, behind>>
             ELSE base' = merging /\ behind' = (remote # merging)
          /\ remote' = remote
  /\ chain' = Onward
  /\ UNCHANGED <<wiki, effects, server, bounds>>

\* git commit fails, which is only reported: the files stay behind.
FailCommit ==
  /\ sync = Idle /\ chain # <<>> /\ Head(chain) # SyncJob
  /\ Fails("error")
  /\ work' = Put(Head(chain).files)
  /\ work' # head
  /\ chain' = Onward
  /\ UNCHANGED <<wiki, effects, head, merging, marker, upstream, server,
                 gitMode, edits, restarts>>

-----------------------------------------------------------------------------
(* sync: pull, import, push.                                               *)

\* The scheduler's interval, or an administrator.
RequestSync ==
  /\ ~ SyncAhead
  /\ ~ synchronized \/ behind \/ remote # head \/ marker # head
  /\ "busy" \notin gitMode => effects = <<>> /\ chain = <<>>
  /\ chain' = Append(chain, SyncJob)
  /\ UNCHANGED <<wiki, effects, repository, upstream, server, bounds>>

Merged == [p \in GitPaths |-> IF head[p] = base[p] THEN remote[p] ELSE head[p]]

Conflicts ==
  {p \in GitPaths : head[p] # base[p] /\ remote[p] # base[p] /\ head[p] # remote[p]}

\* A sync throws: the boot that waits for it fails for good.
Throw ==
  /\ sync' = Idle
  /\ gitReady' = IF gitReady = "waiting" THEN "failed" ELSE gitReady
  /\ UNCHANGED synchronized

\* A failed pull is ignored, unless the mode is authoritative.
PullFailed ==
  IF Authoritative THEN Throw
  ELSE sync' = [at |-> "pulled"] /\ UNCHANGED <<synchronized, gitReady>>

Pulling == sync = Idle /\ chain # <<>> /\ Head(chain) = SyncJob /\ chain' = Tail(chain)

Pull ==
  /\ Pulling
  /\ merging = NoTree /\ work = head
  /\ behind => Conflicts = {}
  /\ head' = IF behind THEN Merged ELSE head
  /\ work' = head'
  /\ base' = remote /\ behind' = FALSE
  /\ sync' = [at |-> "pulled"]
  /\ UNCHANGED <<wiki, effects, merging, marker, remote, synchronized, gitReady, bounds>>

\* The pull stops half way, and leaves conflict markers behind.
PullConflicts ==
  /\ Pulling
  /\ merging = NoTree /\ work = head
  /\ behind /\ Conflicts # {}
  /\ work' = [p \in GitPaths |-> IF p \in Conflicts THEN Garbled ELSE Merged[p]]
  /\ merging' = remote
  /\ PullFailed
  /\ UNCHANGED <<wiki, effects, head, marker, upstream, bounds>>

\* The remote is down, or an unfinished merge or uncommitted files are in the way.
FailPull ==
  /\ Pulling
  /\ \/ merging # NoTree \/ work # head
     \/ "down" \in gitMode /\ gitFailures < MaxGitFailures
  /\ gitFailures' = IF merging = NoTree /\ work = head THEN gitFailures + 1 ELSE gitFailures
  /\ PullFailed
  /\ UNCHANGED <<wiki, effects, repository, upstream, gitMode, edits, restarts>>

\* git ls-files: what was added, be it committed or not.
Tracked == {p \in GitPaths : work[p] # Nothing}

ListsAll == (Authoritative /\ ~ synchronized) \/ marker = NoTree

\* Faulty: the files that were deleted are not in the list.
ChangesWithoutDeletions == {p \in Tracked : ListsAll \/ marker[p] # head[p]}

\* The paths to import: all of them at first, else those of git diff marker..HEAD.
Changes ==
  IF ListsAll THEN Tracked
  ELSE {p \in GitPaths : marker[p] # head[p]}

ListChanges ==
  /\ sync.at = "pulled"
  /\ sync' = [at |-> "import", paths |-> Changes, all |-> ListsAll]
  /\ UNCHANGED <<wiki, effects, chain, repository, upstream, synchronized, gitReady, bounds>>

\* upsertFromFile and remove: a file that is not there is left out; a path in the trash
\* is refused, except that authoritative imports restore it first.
Import(p) ==
  /\ sync.at = "import" /\ p \in sync.paths
  /\ sync' = [sync EXCEPT !.paths = @ \ {p}]
  /\ IF head[p] = Nothing /\ ~ sync.all
     THEN /\ pages' = [pages EXCEPT ![p] = Nothing]
          /\ trash' = IF pages[p] = Nothing THEN trash
                      ELSE [trash EXCEPT ![p] = pages[p]]
     ELSE IF work[p] = Nothing \/ (trash[p] # Nothing /\ ~ Authoritative) THEN UNCHANGED wiki
     ELSE /\ pages' = [pages EXCEPT ![p] = work[p]]
          /\ trash' = [trash EXCEPT ![p] = Nothing]
  /\ UNCHANGED <<effects, chain, repository, upstream, synchronized, gitReady, bounds>>

\* The page service throws: the sync is over, and the marker stays.
FailImport ==
  /\ sync.at = "import" /\ sync.paths # {}
  /\ Fails("error")
  /\ Throw
  /\ UNCHANGED <<wiki, effects, chain, repository, upstream, gitMode, edits, restarts>>

\* The pages that reconcile leaves alone: an empty remote erases nothing.
Reconciled ==
  IF Authoritative /\ ~ synchronized /\ Tracked # {} THEN Tracked ELSE GitPaths

\* After the last import: reconcile, and the marker.
FinishImport ==
  /\ sync.at = "import" /\ sync.paths = {}
  /\ pages' = [p \in GitPaths |-> IF p \in Reconciled THEN pages[p] ELSE Nothing]
  /\ trash' = [p \in GitPaths |->
       IF p \notin Reconciled /\ pages[p] # Nothing THEN pages[p] ELSE trash[p]]
  /\ marker' = head
  /\ sync' = [at |-> "push"]
  /\ UNCHANGED <<effects, chain, work, head, merging, upstream, synchronized, gitReady,
                 bounds>>

Done ==
  /\ sync' = Idle
  /\ synchronized' = TRUE
  /\ gitReady' = IF gitReady = "waiting" THEN "ready" ELSE gitReady

Push ==
  /\ sync.at = "push"
  /\ ~ behind
  /\ remote' = head /\ base' = head
  /\ Done
  /\ UNCHANGED <<wiki, effects, chain, repository, behind, bounds>>

\* The remote is down, or has moved on: reported, and in authoritative mode thrown.
FailPush ==
  /\ sync.at = "push"
  /\ behind \/ ("down" \in gitMode /\ gitFailures < MaxGitFailures)
  /\ gitFailures' = IF behind THEN gitFailures ELSE gitFailures + 1
  /\ IF Authoritative THEN Throw ELSE Done
  /\ UNCHANGED <<wiki, effects, chain, repository, upstream, gitMode, edits, restarts>>

-----------------------------------------------------------------------------
(* The world outside.                                                      *)

Unpushed(p) == pages[p] # base[p] \/ head[p] # base[p] \/ Pending(p)

\* Somebody pushes a commit that writes or deletes a file.
ExternalCommit(p, deletes) ==
  /\ edits < MaxGitEdits
  /\ edits' = edits + 1
  /\ remote' = [remote EXCEPT ![p] = IF deletes THEN Nothing ELSE edits' + 1]
  /\ remote' # remote
  /\ deletes => MayDelete(p)
  /\ behind' = TRUE
  /\ "conflict" \notin gitMode => remote[p] = base[p] /\ ~ Unpushed(p)
  /\ UNCHANGED <<wiki, effects, chain, repository, base, server, gitMode, gitFailures,
                 restarts>>

\* The server stops and starts: what was queued is gone.
Restart ==
  /\ "restart" \in gitMode
  /\ restarts < MaxRestarts
  /\ restarts' = restarts + 1
  /\ effects' = <<>>
  /\ sync' = Idle
  /\ synchronized' = FALSE
  /\ gitReady' = Boot
  /\ chain' = IF Authoritative THEN <<SyncJob>> ELSE <<>>
  /\ UNCHANGED <<wiki, repository, upstream, gitMode, edits, gitFailures>>

-----------------------------------------------------------------------------
Syncing ==
  \/ Pull \/ PullConflicts \/ FailPull \/ ListChanges
  \/ (\E p \in GitPaths : Import(p)) \/ FinishImport \/ Push \/ FailPush

GitNext ==
  \/ \E p \in GitPaths : SavePage(p) \/ DeletePage(p) \/ RestorePage(p)
  \/ \E p, q \in GitPaths : MovePage(p, q)
  \/ Mirror \/ CommitFiles \/ FailCommit
  \/ RequestSync \/ Syncing \/ FailImport
  \/ \E p \in GitPaths, deletes \in BOOLEAN : ExternalCommit(p, deletes)
  \/ Restart

\* Promises resolve and git commands end; the scheduler's interval ticks.
JobsEnd == WF_gitVars(Mirror) /\ WF_gitVars(CommitFiles) /\ WF_gitVars(Syncing)
GitFairness == JobsEnd /\ WF_gitVars(RequestSync)

GitSpec == GitInit /\ [][GitNext]_gitVars /\ GitFairness

-----------------------------------------------------------------------------
\* Trees are trees, and in authoritative mode requests are served only after a sync.
GitTypeOK ==
  /\ gitMode \in GitModes
  /\ {pages, trash, work, head, remote, base} \subseteq Tree
  /\ {merging, marker} \subseteq Tree \cup {NoTree}
  /\ \A queue \in {effects, chain} : \A n \in DOMAIN queue :
       queue[n] # SyncJob => queue[n].kind = "files"
  /\ \A n \in DOMAIN effects : effects[n] # SyncJob
  /\ sync.at \in {"idle", "pulled", "import", "push"}
  /\ sync.at = "import" => sync.paths \subseteq GitPaths
  /\ {behind, synchronized} \subseteq BOOLEAN
  /\ gitReady \in {"ready", "waiting", "failed"}
  /\ Authoritative /\ gitReady = "ready" => synchronized
  /\ edits \in 0 .. MaxGitEdits
  /\ gitFailures \in 0 .. MaxGitFailures /\ restarts \in 0 .. MaxRestarts

\* Nothing waits, and everything has been pulled and imported.
GitQuiet ==
  /\ effects = <<>> /\ chain = <<>> /\ sync = Idle /\ marker # NoTree
  /\ gitReady = "ready"

\* A page's path is mirrored: its file is the page.  Paths in the trash are not,
\* because an import of them is refused.
Mirrored(p) == pages[p] = head[p] \/ trash[p] # Nothing

\* Where commits and imports fail or both sides change a path, the mirror may go wrong
\* and stay so: a marker that moves past what was not imported hides it for good.
MirrorIsSpared == {"error", "conflict"} \cap gitMode = {}

\* "DB -> Git" and "Git -> DB" (git.ts): what was committed and not yet imported is
\* ahead of the marker, so whenever nothing waits the pages are the files, but for
\* changes that a sync will find.
QuietMirrorIsTheWiki ==
  GitQuiet /\ MirrorIsSpared => \A p \in GitPaths : Mirrored(p) \/ marker[p] # head[p]

\* "only externally-authored commits are pulled into the DB" (git.ts): an import
\* writes only what the marker has not seen, except in a boot of authoritative mode.
OwnCommitsAreNotImported ==
  [][\A p \in GitPaths :
       sync.at = "import" /\ sync'.at = "import" /\ sync' # sync /\ pages'[p] # pages[p]
         => marker = NoTree \/ marker[p] # head[p] \/ ~ synchronized]_gitVars

\* "SQLite stays canonical ... two-way" (git.ts): when writes cease, the wiki, the
\* repository and the remote agree for good.
EverythingConverges ==
  MirrorIsSpared =>
    <>[](\A p \in GitPaths : Mirrored(p) /\ (remote[p] = head[p] \/ gitReady # "ready"))

\* The repository keeps its shape and, when all is quiet, is the wiki.
GitInv == GitTypeOK /\ QuietMirrorIsTheWiki

\* The mirror, the wiki and the remote converge, and not by importing the wiki's own commits.
MirrorsConverge == OwnCommitsAreNotImported /\ EverythingConverges

=============================================================================
