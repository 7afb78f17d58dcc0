--------------------------- MODULE AfterWriteProofs ---------------------------
(***************************************************************************)
(* What holds of the server's work after a write: of the Git mirror        *)
(* (GitMirror), for any paths, edits and failures; and of the automation   *)
(* rules (WebhookAutomation), for any rules and pages.                     *)
(***************************************************************************)
EXTENDS GitMirror, WebhookAutomation, WellFoundedInduction,
        SequenceTheorems, TLAPS

-----------------------------------------------------------------------------
(* The mirror's shape.                                                     *)

FilesJobs == [kind : {"files"}, files : UNION {[S -> File] : S \in SUBSET GitPaths}]

SyncStates ==
  {Idle, [at |-> "pulled"], [at |-> "push"]}
    \cup [at : {"import"}, paths : SUBSET GitPaths, all : BOOLEAN]

\* The jobs are the mirror's, and a boot that waits has not synchronized.
MirrorShape ==
  /\ GitTypeOK
  /\ effects \in Seq(FilesJobs)
  /\ chain \in Seq(FilesJobs \cup {SyncJob})
  /\ sync \in SyncStates
  /\ gitReady = "waiting" => Authoritative /\ ~ synchronized

LEMMA FilesJobIsJob ==
  ASSUME NEW S \in SUBSET GitPaths, NEW files \in [S -> File]
  PROVE  FilesJob(files) \in FilesJobs
<1>1. files \in UNION {[T -> File] : T \in SUBSET GitPaths}
  OBVIOUS
<1> QED BY <1>1 DEF FilesJob, FilesJobs

LEMMA JobsAreTold ==
  ASSUME NEW job \in FilesJobs
  PROVE  /\ job.kind = "files" /\ job # SyncJob
         /\ DOMAIN job.files \subseteq GitPaths
         /\ \A p \in DOMAIN job.files : job.files[p] \in File
BY DEF FilesJobs, SyncJob

LEMMA TypedQueues ==
  ASSUME NEW es \in Seq(FilesJobs), NEW js \in Seq(FilesJobs \cup {SyncJob})
  PROVE  /\ \A jobs \in {es, js} : \A n \in DOMAIN jobs :
              jobs[n] # SyncJob => jobs[n].kind = "files"
         /\ \A n \in DOMAIN es : es[n] # SyncJob
BY JobsAreTold

LEMMA TreesOfTheMirror ==
  ASSUME MirrorShape, NEW p \in GitPaths
  PROVE  /\ pages \in Tree /\ trash \in Tree /\ work \in Tree /\ head \in Tree
         /\ remote \in Tree /\ base \in Tree
         /\ merging \in Tree \cup {NoTree} /\ marker \in Tree \cup {NoTree}
BY DEF MirrorShape, GitTypeOK

LEMMA EditShapes ==
  ASSUME MirrorShape, NEW touched \in SUBSET GitPaths,
         MayEdit(touched), Written(touched), pages' \in Tree, trash' \in Tree
  PROVE  MirrorShape'
<1>1. [p \in touched |-> pages'[p]] \in [touched -> File]
  BY DEF Tree
<1>2. FilesJob([p \in touched |-> pages'[p]]) \in FilesJobs
  BY <1>1, FilesJobIsJob
<1>3. effects' \in Seq(FilesJobs) /\ chain' \in Seq(FilesJobs \cup {SyncJob})
  BY <1>2 DEF MirrorShape, Written
<1>4. edits' \in 0 .. MaxGitEdits
  BY GitAssumption DEF MirrorShape, GitTypeOK, MayEdit
<1>5. UNCHANGED <<gitMode, work, head, remote, base, merging, marker, behind, sync, synchronized,
                  gitReady, gitFailures, restarts>>
  BY DEF Written, repository, upstream, server
<1>6. GitTypeOK'
  BY <1>3, <1>4, <1>5, TypedQueues DEF MirrorShape, GitTypeOK, Authoritative
<1> QED BY <1>3, <1>5, <1>6 DEF MirrorShape, Authoritative

LEMMA ShapeStarts ==
  ASSUME GitInit
  PROVE  MirrorShape
<1>1. chain \in Seq(FilesJobs \cup {SyncJob})
  <2>1. <<>> \in Seq(FilesJobs \cup {SyncJob}) /\ <<SyncJob>> \in Seq(FilesJobs \cup {SyncJob})
    OBVIOUS
  <2> QED BY <2>1 DEF GitInit
<1>2. effects \in Seq(FilesJobs) /\ sync \in SyncStates
  BY DEF GitInit, SyncStates
<1>3. Nothing \in File /\ 1 \in File
  BY GitAssumption DEF File, Contents, Nothing
<1>4. {pages, trash, work, head, remote, base} \subseteq Tree
  BY <1>3 DEF GitInit, Tree, EmptyTree
<1>5. /\ \A jobs \in {effects, chain} : \A n \in DOMAIN jobs :
           jobs[n] # SyncJob => jobs[n].kind = "files"
      /\ \A n \in DOMAIN effects : effects[n] # SyncJob
  BY <1>1, <1>2, TypedQueues
<1>6. /\ edits \in 0 .. MaxGitEdits /\ gitFailures \in 0 .. MaxGitFailures
      /\ restarts \in 0 .. MaxRestarts
  BY GitAssumption DEF GitInit
<1>7. sync.at = "idle" /\ gitReady \in {"ready", "waiting", "failed"}
  BY DEF GitInit, Idle, Boot
<1>8. Authoritative => gitReady = "waiting"
  BY DEF GitInit, Boot
<1>9. GitTypeOK
  BY <1>4, <1>5, <1>6, <1>7, <1>8 DEF GitInit, GitTypeOK
<1> QED BY <1>1, <1>2, <1>9 DEF MirrorShape, GitInit, Boot, Authoritative

LEMMA ShapeFromParts ==
  ASSUME MirrorShape, UNCHANGED gitMode,
         {pages', trash', work', head', remote', base'} \subseteq Tree,
         {merging', marker'} \subseteq Tree \cup {NoTree},
         effects' \in Seq(FilesJobs), chain' \in Seq(FilesJobs \cup {SyncJob}),
         sync' \in SyncStates, {behind', synchronized'} \subseteq BOOLEAN,
         gitReady' \in {"ready", "waiting", "failed"},
         Authoritative /\ gitReady' = "ready" => synchronized',
         gitReady' = "waiting" => Authoritative /\ ~ synchronized',
         edits' \in 0 .. MaxGitEdits, gitFailures' \in 0 .. MaxGitFailures,
         restarts' \in 0 .. MaxRestarts
  PROVE  MirrorShape'
<1>1. /\ \A jobs \in {effects', chain'} : \A n \in DOMAIN jobs :
           jobs[n] # SyncJob => jobs[n].kind = "files"
      /\ \A n \in DOMAIN effects' : effects'[n] # SyncJob
  BY TypedQueues
<1>2. /\ sync'.at \in {"idle", "pulled", "import", "push"}
      /\ sync'.at = "import" => sync'.paths \subseteq GitPaths
  BY DEF SyncStates, Idle
<1>3. Authoritative' = Authoritative /\ gitMode' \in GitModes
  BY DEF Authoritative, MirrorShape, GitTypeOK
<1>4. GitTypeOK'
  BY <1>1, <1>2, <1>3 DEF GitTypeOK
<1> QED BY <1>3, <1>4 DEF MirrorShape

\* What MirrorShape says, one conjunct each.
LEMMA PartsOfShape ==
  ASSUME MirrorShape
  PROVE  /\ {pages, trash, work, head, remote, base} \subseteq Tree
         /\ {merging, marker} \subseteq Tree \cup {NoTree}
         /\ effects \in Seq(FilesJobs) /\ chain \in Seq(FilesJobs \cup {SyncJob})
         /\ sync \in SyncStates /\ {behind, synchronized} \subseteq BOOLEAN
         /\ gitReady \in {"ready", "waiting", "failed"}
         /\ (Authoritative /\ gitReady = "ready" => synchronized)
         /\ (gitReady = "waiting" => Authoritative /\ ~ synchronized)
         /\ edits \in 0 .. MaxGitEdits /\ gitFailures \in 0 .. MaxGitFailures
         /\ restarts \in 0 .. MaxRestarts
BY DEF MirrorShape, GitTypeOK

LEMMA EditsKeepShape ==
  ASSUME MirrorShape, NEW p \in GitPaths
  PROVE  /\ SavePage(p) \/ DeletePage(p) \/ RestorePage(p) => MirrorShape'
         /\ \A q \in GitPaths : MovePage(p, q) => MirrorShape'
<1>1. pages \in Tree /\ trash \in Tree /\ Nothing \in File
  BY PartsOfShape DEF File
<1>2. ASSUME SavePage(p) PROVE MirrorShape'
  <2>1. edits' + 1 \in 1 .. MaxGitEdits + 1
    BY <1>2, PartsOfShape, GitAssumption DEF SavePage, MayEdit
  <2>2. edits' + 1 \in File
    BY <2>1 DEF File, Contents
  <2>3. pages' \in Tree /\ trash' \in Tree
    BY <1>1, <1>2, <2>2 DEF SavePage, Tree
  <2>4. MayEdit({p}) /\ Written({p}) /\ {p} \in SUBSET GitPaths
    BY <1>2 DEF SavePage
  <2> QED BY <2>3, <2>4, EditShapes
<1>3. ASSUME DeletePage(p) PROVE MirrorShape'
  <2>1. pages' \in Tree /\ trash' \in Tree
    BY <1>1, <1>3 DEF DeletePage, Tree
  <2>2. MayEdit({p}) /\ Written({p}) /\ {p} \in SUBSET GitPaths
    BY <1>3 DEF DeletePage
  <2> QED BY <2>1, <2>2, EditShapes
<1>4. ASSUME RestorePage(p) PROVE MirrorShape'
  <2>1. pages' \in Tree /\ trash' \in Tree
    BY <1>1, <1>4 DEF RestorePage, Tree
  <2>2. MayEdit({p}) /\ Written({p}) /\ {p} \in SUBSET GitPaths
    BY <1>4 DEF RestorePage
  <2> QED BY <2>1, <2>2, EditShapes
<1>5. ASSUME NEW q \in GitPaths, MovePage(p, q) PROVE MirrorShape'
  <2>1. pages' \in Tree /\ trash' \in Tree
    BY <1>1, <1>5 DEF MovePage, Tree
  <2>2. MayEdit({p, q}) /\ Written({p, q}) /\ {p, q} \in SUBSET GitPaths
    BY <1>5 DEF MovePage
  <2> QED BY <2>1, <2>2, EditShapes
<1> QED BY <1>2, <1>3, <1>4, <1>5

LEMMA JobsKeepShape ==
  ASSUME MirrorShape, Mirror \/ CommitFiles \/ FailCommit \/ RequestSync
  PROVE  MirrorShape'
<1> USE PartsOfShape
<1>1. CASE Mirror
  <2>1. PICK n \in DOMAIN effects :
          /\ chain' = Append(chain, effects[n])
          /\ effects' = SubSeq(effects, 1, n - 1) \o SubSeq(effects, n + 1, Len(effects))
    BY <1>1 DEF Mirror, FirstEffects
  <2>2. chain' \in Seq(FilesJobs \cup {SyncJob}) /\ effects' \in Seq(FilesJobs)
    <3>1. chain' \in Seq(FilesJobs \cup {SyncJob})
      BY <2>1
    <3>2. n \in Int /\ Len(effects) \in Int /\ DOMAIN effects = 1 .. Len(effects)
      BY <2>1
    <3>3. /\ \A k \in 1 .. n - 1 : effects[k] \in FilesJobs
          /\ \A k \in n + 1 .. Len(effects) : effects[k] \in FilesJobs
      <4>1. \A k \in 1 .. Len(effects) : effects[k] \in FilesJobs
        OBVIOUS
      <4>2. n \in 1 .. Len(effects)
        BY <3>2
      <4>3. 1 .. n - 1 \subseteq 1 .. Len(effects) /\ n + 1 .. Len(effects) \subseteq 1 .. Len(effects)
        BY <3>2, <4>2
      <4> QED BY <4>1, <4>3
    <3>4. SubSeq(effects, 1, n - 1) \in Seq(FilesJobs)
      BY <3>2, <3>3, SubSeqProperties
    <3>5. SubSeq(effects, n + 1, Len(effects)) \in Seq(FilesJobs)
      BY <3>2, <3>3, SubSeqProperties
    <3> QED BY <2>1, <3>1, <3>4, <3>5, ConcatProperties
  <2> QED BY <1>1, <2>2, ShapeFromParts DEF Mirror, wiki, repository, upstream, server, bounds
<1>2. ASSUME CommitFiles \/ FailCommit
      PROVE  chain' \in Seq(FilesJobs \cup {SyncJob}) /\ work' \in Tree
  <2>1. chain # <<>> /\ Head(chain) # SyncJob /\ chain' = Onward /\ work' = Put(Head(chain).files)
    BY <1>2 DEF CommitFiles, FailCommit
  <2>2. Head(chain) \in FilesJobs /\ Tail(chain) \in Seq(FilesJobs \cup {SyncJob})
    BY <2>1
  <2>3. chain' \in Seq(FilesJobs \cup {SyncJob})
    BY <2>1, <2>2 DEF Onward
  <2>4. \A p \in DOMAIN Head(chain).files : Head(chain).files[p] \in File
    BY <2>2, JobsAreTold
  <2> QED BY <2>1, <2>3, <2>4 DEF Put, Tree
<1>3. CASE CommitFiles
  <2>1. {head', base', remote'} \subseteq Tree /\ {merging', marker'} \subseteq Tree \cup {NoTree}
    BY <1>2, <1>3 DEF CommitFiles, MarkerAfterCommit, upstream
  <2>2. behind' \in BOOLEAN
    BY <1>3 DEF CommitFiles, upstream
  <2> QED BY <1>2, <1>3, <2>1, <2>2, ShapeFromParts DEF CommitFiles, wiki, server, bounds
<1>4. CASE FailCommit
  <2>1. gitFailures' \in 0 .. MaxGitFailures
    BY <1>4, GitAssumption DEF FailCommit, Fails
  <2> QED BY <1>2, <1>4, <2>1, ShapeFromParts DEF FailCommit, wiki, server, upstream
<1>5. CASE RequestSync
  <2>1. chain' \in Seq(FilesJobs \cup {SyncJob})
    BY <1>5 DEF RequestSync
  <2> QED BY <1>5, <2>1, ShapeFromParts
          DEF RequestSync, wiki, repository, upstream, server, bounds
<1> QED BY <1>1, <1>3, <1>4, <1>5

LEMMA PullsKeepShape ==
  ASSUME MirrorShape, Pull \/ PullConflicts \/ FailPull
  PROVE  MirrorShape'
<1> USE PartsOfShape
<1>1. chain' \in Seq(FilesJobs \cup {SyncJob})
  <2>1. chain # <<>> /\ chain' = Tail(chain)
    BY DEF Pull, PullConflicts, FailPull, Pulling
  <2> QED BY <2>1
<1>2. [at |-> "pulled"] \in SyncStates /\ Idle \in SyncStates
  BY DEF SyncStates
<1>3. CASE Pull
  <2>1. {work', head', base'} \subseteq Tree
    BY <1>3 DEF Pull, Merged, Tree
  <2>2. behind' \in BOOLEAN /\ sync' \in SyncStates
    BY <1>2, <1>3 DEF Pull
  <2> QED BY <1>1, <1>3, <2>1, <2>2, ShapeFromParts DEF Pull, wiki, bounds
<1>4. ASSUME PullFailed
      PROVE  /\ sync' \in SyncStates /\ synchronized' = synchronized
             /\ gitReady' = gitReady \/ (gitReady = "waiting" /\ gitReady' = "failed")
  BY <1>2, <1>4 DEF PullFailed, Throw
<1>5. CASE PullConflicts
  <2>1. work' \in Tree
    BY <1>5 DEF PullConflicts, Merged, Tree, File
  <2>2. merging' \in Tree
    BY <1>5 DEF PullConflicts
  <2>3. PullFailed
    BY <1>5 DEF PullConflicts
  <2> QED BY <1>1, <1>4, <1>5, <2>1, <2>2, <2>3, ShapeFromParts
          DEF PullConflicts, wiki, upstream, bounds
<1>6. CASE FailPull
  <2>1. gitFailures' \in 0 .. MaxGitFailures
    BY <1>6, GitAssumption DEF FailPull
  <2>2. PullFailed
    BY <1>6 DEF FailPull
  <2> QED BY <1>1, <1>4, <1>6, <2>1, <2>2, ShapeFromParts DEF FailPull, wiki, repository, upstream
<1> QED BY <1>3, <1>5, <1>6

LEMMA ImportsKeepShape ==
  ASSUME MirrorShape, ListChanges \/ (\E p \in GitPaths : Import(p)) \/ FailImport \/ FinishImport
  PROVE  MirrorShape'
<1> USE PartsOfShape
<1>1. Nothing \in File
  BY DEF File
<1>2. CASE ListChanges
  <2>1. Changes \subseteq GitPaths /\ ListsAll \in BOOLEAN
    BY DEF Changes, Tracked, ListsAll, Authoritative
  <2>2. sync' \in SyncStates
    BY <1>2, <2>1 DEF ListChanges, SyncStates
  <2> QED BY <1>2, <2>2, ShapeFromParts DEF ListChanges, wiki, repository, upstream, bounds
<1>3. ASSUME NEW p \in GitPaths, Import(p) PROVE MirrorShape'
  <2>1. pages' \in Tree /\ trash' \in Tree
    BY <1>1, <1>3 DEF Import, Tree, wiki
  <2>2. sync \in [at : {"import"}, paths : SUBSET GitPaths, all : BOOLEAN]
    BY <1>3 DEF Import, SyncStates, Idle
  <2>3. sync' \in SyncStates
    BY <1>3, <2>2 DEF Import, SyncStates
  <2> QED BY <1>3, <2>1, <2>3, ShapeFromParts DEF Import, repository, upstream, bounds
<1>4. CASE FailImport
  <2>1. gitFailures' \in 0 .. MaxGitFailures
    BY <1>4, GitAssumption DEF FailImport, Fails
  <2>2. sync' \in SyncStates /\ synchronized' = synchronized
    BY <1>4 DEF FailImport, Throw, SyncStates
  <2>3. gitReady' = gitReady \/ (gitReady = "waiting" /\ gitReady' = "failed")
    BY <1>4 DEF FailImport, Throw
  <2> QED BY <1>4, <2>1, <2>2, <2>3, ShapeFromParts DEF FailImport, wiki, repository, upstream
<1>5. CASE FinishImport
  <2>1. pages' \in Tree /\ trash' \in Tree
    BY <1>1, <1>5 DEF FinishImport, Tree
  <2>2. sync' \in SyncStates /\ marker' \in Tree
    BY <1>5 DEF FinishImport, SyncStates
  <2> QED BY <1>5, <2>1, <2>2, ShapeFromParts DEF FinishImport, upstream, bounds
<1> QED BY <1>2, <1>3, <1>4, <1>5

LEMMA PushesKeepShape ==
  ASSUME MirrorShape, Push \/ FailPush
  PROVE  MirrorShape'
<1> USE PartsOfShape
<1>1. Idle \in SyncStates
  BY DEF SyncStates
<1>2. Authoritative => synchronized' \/ gitReady' # "ready" \/ gitReady = "ready"
  BY DEF Push, FailPush, Throw, Done
<1>3. CASE Push
  BY <1>1, <1>3, ShapeFromParts DEF Push, Done, wiki, repository, bounds
<1>4. CASE FailPush
  <2>1. gitFailures' \in 0 .. MaxGitFailures
    BY <1>4, GitAssumption DEF FailPush
  <2>2. CASE Throw
    BY <1>1, <1>4, <2>1, <2>2, ShapeFromParts DEF FailPush, Throw, wiki, repository, upstream
  <2>3. CASE Done
    BY <1>1, <1>4, <2>1, <2>3, ShapeFromParts DEF FailPush, Done, wiki, repository, upstream
  <2> QED BY <1>4, <2>2, <2>3 DEF FailPush
<1> QED BY <1>3, <1>4

LEMMA OutsideKeepsShape ==
  ASSUME MirrorShape,
         (\E p \in GitPaths, deletes \in BOOLEAN : ExternalCommit(p, deletes)) \/ Restart
  PROVE  MirrorShape'
<1> USE PartsOfShape
<1>1. ASSUME NEW p \in GitPaths, NEW deletes \in BOOLEAN, ExternalCommit(p, deletes)
      PROVE  MirrorShape'
  <2>1. edits' \in 0 .. MaxGitEdits /\ edits' + 1 \in 1 .. MaxGitEdits + 1
    BY <1>1, GitAssumption DEF ExternalCommit
  <2>2. edits' + 1 \in File /\ Nothing \in File
    BY <2>1 DEF File, Contents
  <2>3. remote' \in Tree /\ behind' \in BOOLEAN
    BY <1>1, <2>2 DEF ExternalCommit, Tree
  <2> QED BY <1>1, <2>1, <2>3, ShapeFromParts DEF ExternalCommit, wiki, repository, server
<1>2. CASE Restart
  <2>1. restarts' \in 0 .. MaxRestarts
    BY <1>2, GitAssumption DEF Restart
  <2>2. <<>> \in Seq(FilesJobs \cup {SyncJob}) /\ <<SyncJob>> \in Seq(FilesJobs \cup {SyncJob})
    OBVIOUS
  <2>3. effects' \in Seq(FilesJobs) /\ chain' \in Seq(FilesJobs \cup {SyncJob})
    <3>1. <<>> \in Seq(FilesJobs)
      OBVIOUS
    <3> QED BY <1>2, <2>2, <3>1 DEF Restart
  <2>5. sync' \in SyncStates
    BY <1>2 DEF Restart, SyncStates
  <2>4. gitReady' = (IF Authoritative THEN "waiting" ELSE "ready") /\ synchronized' = FALSE
    BY <1>2 DEF Restart, Boot
  <2> QED BY <1>2, <2>1, <2>3, <2>4, <2>5, ShapeFromParts DEF Restart, wiki, repository, upstream
<1> QED BY <1>1, <1>2

LEMMA ShapeIsKept ==
  ASSUME MirrorShape, [GitNext]_gitVars
  PROVE  MirrorShape'
<1>1. CASE UNCHANGED gitVars
  BY <1>1, PartsOfShape, ShapeFromParts DEF gitVars
<1>2. CASE GitNext
  BY <1>2, EditsKeepShape, JobsKeepShape, PullsKeepShape, ImportsKeepShape, PushesKeepShape,
     OutsideKeepsShape DEF GitNext, Syncing
<1> QED BY <1>1, <1>2

\* Trees stay trees, whatever fails, restarts or overtakes, and in authoritative mode
\* requests are served only after a sync (http/app.ts, storage/git-sync.ts).
THEOREM MirrorKeepsItsShape == GitSpec => []GitTypeOK
<1>1. GitInit => MirrorShape
  BY ShapeStarts
<1>2. MirrorShape /\ [GitNext]_gitVars => MirrorShape'
  BY ShapeIsKept
<1>3. MirrorShape => GitTypeOK
  BY DEF MirrorShape
<1> QED BY <1>1, <1>2, <1>3, PTL DEF GitSpec

-----------------------------------------------------------------------------
(* Where neither commits nor imports fail, nobody writes what another      *)
(* writes, and effects keep their order, the mirror follows the wiki.      *)

Writes(job, p) == job # SyncJob /\ p \in DOMAIN job.files
WrittenIn(jobs, p) == \E n \in DOMAIN jobs : Writes(jobs[n], p)
LastWrite(jobs, n, p) ==
  n \in DOMAIN jobs /\ Writes(jobs[n], p) /\ \A m \in n + 1 .. Len(jobs) : ~ Writes(jobs[m], p)

\* Nothing is half done in the repository, and no path was changed on both sides.
RepositoryIsClean ==
  /\ merging = NoTree /\ work = head
  /\ \A p \in GitPaths : head[p] = base[p] \/ remote[p] = base[p]
  /\ ~ behind => remote = base

\* What waits to be written is in no way of the remote, of an import, or of the boot.
WritesAreAlone ==
  /\ \A p \in GitPaths : Pending(p) =>
       /\ remote[p] = base[p]
       /\ marker # NoTree /\ marker[p] = head[p]
       /\ ~ (sync.at = "import" /\ p \in sync.paths)
  /\ gitReady # "ready" => effects = <<>> /\ \A n \in DOMAIN chain : chain[n] = SyncJob

\* The marker is behind HEAD only while a sync imports, or in a boot.
MarkerIsHead ==
  /\ sync.at = "push" => marker = head
  /\ sync.at = "idle" /\ gitReady = "ready" /\ marker # NoTree => marker = head
  /\ Authoritative /\ gitReady = "ready" => marker # NoTree
  /\ marker = NoTree /\ sync.at \in {"idle", "pulled"} /\ gitReady = "ready" => pages = EmptyTree

\* The last write that waits for a path is the page.
LastWriteIsThePage ==
  \A p \in GitPaths :
    /\ \A n \in DOMAIN effects : LastWrite(effects, n, p) => effects[n].files[p] = pages[p]
    /\ ~ WrittenIn(effects, p) =>
         \A n \in DOMAIN chain : LastWrite(chain, n, p) => chain[n].files[p] = pages[p]

\* A sync has still to bring the path, or the boot has failed.
Owed(p) ==
  \/ gitReady = "failed"
  \/ gitReady = "waiting" /\ sync.at \in {"idle", "pulled"}
  \/ gitReady = "waiting" /\ sync.at = "import" /\ head[p] = Nothing
  \/ marker = NoTree /\ sync.at \in {"idle", "pulled"}
  \/ marker # NoTree /\ marker[p] # head[p] /\ sync.at = "pulled"
  \/ sync.at = "import" /\ p \in sync.paths

ImportsCoverAll ==
  sync.at = "import" =>
    /\ gitReady = "waiting" => sync.all
    /\ sync.all => \A p \in sync.paths : head[p] # Nothing

PagesAreMirrored == \A p \in GitPaths : Owed(p) \/ Pending(p) \/ Mirrored(p)

\* A path that is in HEAD and stays there when the remote is merged.
Lives(p) == head[p] # Nothing /\ (head[p] = base[p] => remote[p] # Nothing)

\* An authoritative repository has a path, and after each commit that waits still has.
SomePathLives ==
  Authoritative =>
    /\ \E p \in GitPaths : Lives(p)
    /\ \A n \in DOMAIN chain : chain[n] # SyncJob =>
         \/ \E p \in DOMAIN chain[n].files : chain[n].files[p] # Nothing
         \/ \E p \in GitPaths : Lives(p) /\ \A m \in 1 .. n : ~ Writes(chain[m], p)
    /\ \A n \in DOMAIN effects :
         \/ \E p \in DOMAIN effects[n].files : effects[n].files[p] # Nothing
         \/ \E p \in GitPaths :
              /\ Lives(p) /\ ~ WrittenIn(chain, p)
              /\ \A m \in 1 .. n : ~ Writes(effects[m], p)

MirrorFollows ==
  /\ RepositoryIsClean /\ WritesAreAlone /\ MarkerIsHead /\ ImportsCoverAll
  /\ LastWriteIsThePage /\ PagesAreMirrored /\ SomePathLives

-----------------------------------------------------------------------------
(* The mirror follows: what each step does to what waits.                  *)

\* The modes in which the mirror is meant to follow: effects keep their order, the clone
\* is imported before the wiki is written, an authoritative repository has a page, and
\* the server stops only where its boot reads the repository again.
Orderly ==
  /\ {"reorder", "early", "emptied"} \cap gitMode = {}
  /\ "restart" \in gitMode => Authoritative

Steady == MirrorShape /\ Orderly /\ MirrorIsSpared /\ MirrorFollows

LEMMA TreesAreNotNoTree ==
  ASSUME NEW tree \in Tree
  PROVE  tree # NoTree
<1>1. DOMAIN tree = GitPaths
  BY DEF Tree
<1>2. DOMAIN NoTree = {}
  BY DEF NoTree
<1> QED BY <1>1, <1>2, GitAssumption

LEMMA PendingIsWritten ==
  ASSUME NEW p
  PROVE  Pending(p) <=> WrittenIn(effects, p) \/ WrittenIn(chain, p)
BY DEF Pending, WrittenIn, Writes

\* What Steady excludes.
LEMMA SteadySteps ==
  ASSUME Steady
  PROVE  /\ ~ FailCommit /\ ~ FailImport /\ Conflicts = {} /\ ~ PullConflicts
         /\ (Authoritative => ~ ("emptied" \in gitMode))
<1>1. "error" \notin gitMode
  BY DEF Steady, MirrorIsSpared
<1>2. Conflicts = {}
  BY DEF Steady, MirrorFollows, RepositoryIsClean, Conflicts
<1> QED BY <1>1, <1>2 DEF FailCommit, FailImport, Fails, PullConflicts, Steady, Orderly

LEMMA EditsAreAlone ==
  ASSUME Steady, NEW touched, MayEdit(touched)
  PROVE  /\ gitReady = "ready" /\ marker # NoTree
         /\ \A p \in touched : /\ remote[p] = base[p] /\ marker[p] = head[p]
                               /\ ~ (sync.at = "import" /\ p \in sync.paths)
BY DEF Steady, Orderly, MirrorIsSpared, MayEdit, Incoming

\* A job of the mirror is committed whole, and the marker with it.
LEMMA CommitMeans ==
  ASSUME Steady, CommitFiles
  PROVE  /\ gitReady = "ready" /\ sync.at = "idle" /\ chain # <<>>
         /\ chain[1] \in FilesJobs
         /\ head' = [p \in GitPaths |-> IF p \in DOMAIN chain[1].files
                                        THEN chain[1].files[p] ELSE head[p]]
         /\ work' = head' /\ merging' = NoTree /\ UNCHANGED upstream
         /\ (head' = head /\ marker' = marker) \/ (marker # NoTree /\ marker' = head')
         /\ chain' = Tail(chain) \/ chain' = Append(Tail(chain), SyncJob)
         /\ \A p \in DOMAIN chain[1].files : Pending(p)
<1>1. sync = Idle /\ chain # <<>> /\ Head(chain) # SyncJob /\ work' = Put(Head(chain).files)
  BY DEF CommitFiles
<1>2. chain \in Seq(FilesJobs \cup {SyncJob})
  BY PartsOfShape DEF Steady
<1>3. Head(chain) = chain[1] /\ 1 \in DOMAIN chain
  BY <1>1, <1>2
<1>4. chain[1] \in FilesJobs
  BY <1>1, <1>2, <1>3
<1>5. \A p \in DOMAIN chain[1].files : WrittenIn(chain, p)
  BY <1>1, <1>3 DEF WrittenIn, Writes
<1>6. \A p \in DOMAIN chain[1].files : Pending(p)
  BY <1>5, PendingIsWritten
<1>7. gitReady = "ready"
  BY <1>1, <1>3 DEF Steady, MirrorFollows, WritesAreAlone
<1>8. merging = NoTree /\ work = head /\ head \in Tree
  BY PartsOfShape DEF Steady, MirrorFollows, RepositoryIsClean
<1>9. work' = [p \in GitPaths |-> IF p \in DOMAIN chain[1].files
                                  THEN chain[1].files[p] ELSE head[p]]
  BY <1>1, <1>3, <1>8 DEF Put
<1>10. CASE work' = head
  BY <1>1, <1>3, <1>4, <1>6, <1>7, <1>8, <1>9, <1>10 DEF CommitFiles, Idle, Onward
<1>11. CASE work' # head
  <2>1. PICK p \in GitPaths : p \in DOMAIN chain[1].files
    BY <1>8, <1>9, <1>11 DEF Tree
  <2>2. marker # NoTree
    BY <1>6, <2>1 DEF Steady, MirrorFollows, WritesAreAlone
  <2>3. head' = work' /\ marker' = head' /\ merging' = NoTree /\ UNCHANGED upstream
    BY <1>8, <1>11 DEF CommitFiles, MarkerAfterCommit, upstream
  <2> QED BY <1>1, <1>3, <1>4, <1>6, <1>7, <1>9, <2>2, <2>3 DEF CommitFiles, Idle, Onward
<1> QED BY <1>10, <1>11

\* A commit takes the first job; what else waits stays, in its order.
LEMMA RestOfChain ==
  ASSUME NEW jobs \in Seq(FilesJobs \cup {SyncJob}), jobs # <<>>,
         NEW rest, rest = Tail(jobs) \/ rest = Append(Tail(jobs), SyncJob)
  PROVE  /\ rest \in Seq(FilesJobs \cup {SyncJob})
         /\ \A n \in DOMAIN rest :
              rest[n] # SyncJob => n + 1 \in DOMAIN jobs /\ rest[n] = jobs[n + 1]
         /\ \A n \in DOMAIN jobs : n # 1 => n - 1 \in DOMAIN rest /\ rest[n - 1] = jobs[n]
         /\ Len(rest) \in {Len(jobs) - 1, Len(jobs)}
OBVIOUS

LEMMA RestIsWritten ==
  ASSUME NEW jobs \in Seq(FilesJobs \cup {SyncJob}), jobs # <<>>, NEW p,
         NEW rest, rest = Tail(jobs) \/ rest = Append(Tail(jobs), SyncJob)
  PROVE  /\ WrittenIn(rest, p) => WrittenIn(jobs, p)
         /\ WrittenIn(jobs, p) => WrittenIn(rest, p) \/ LastWrite(jobs, 1, p)
         /\ WrittenIn(jobs, p) /\ ~ Writes(jobs[1], p) => WrittenIn(rest, p)
         /\ \A n \in DOMAIN rest : LastWrite(rest, n, p) => LastWrite(jobs, n + 1, p)
<1>0. /\ \A k \in DOMAIN jobs : k # 1 => k - 1 \in DOMAIN rest /\ rest[k - 1] = jobs[k]
      /\ rest \in Seq(FilesJobs \cup {SyncJob})
  BY RestOfChain
<1>1. WrittenIn(rest, p) => WrittenIn(jobs, p)
  BY RestOfChain DEF WrittenIn, Writes
<1>2. ASSUME NEW n \in DOMAIN jobs, Writes(jobs[n], p), n # 1 PROVE WrittenIn(rest, p)
  <2>1. n - 1 \in DOMAIN rest /\ rest[n - 1] = jobs[n]
    BY <1>2, <1>0
  <2> QED BY <1>2, <2>1 DEF WrittenIn
<1>3. WrittenIn(jobs, p) /\ ~ WrittenIn(rest, p) => LastWrite(jobs, 1, p)
  <2>1. SUFFICES ASSUME WrittenIn(jobs, p), ~ WrittenIn(rest, p)
                 PROVE  LastWrite(jobs, 1, p)
    OBVIOUS
  <2>2. \A n \in DOMAIN jobs : n # 1 => ~ Writes(jobs[n], p)
    BY <1>2, <2>1
  <2>3. 1 \in DOMAIN jobs /\ Writes(jobs[1], p)
    BY <2>1, <2>2 DEF WrittenIn
  <2>4. \A n \in 2 .. Len(jobs) : ~ Writes(jobs[n], p)
    BY <2>2
  <2> QED BY <2>3, <2>4 DEF LastWrite
<1>4. WrittenIn(jobs, p) /\ ~ Writes(jobs[1], p) => WrittenIn(rest, p)
  BY <1>2 DEF WrittenIn
<1>5. ASSUME NEW n \in DOMAIN rest, LastWrite(rest, n, p) PROVE LastWrite(jobs, n + 1, p)
  <2>1. n + 1 \in DOMAIN jobs /\ Writes(jobs[n + 1], p) /\ n \in Nat
    BY <1>5, RestOfChain DEF LastWrite, Writes
  <2>2. ASSUME NEW m \in n + 2 .. Len(jobs) PROVE ~ Writes(jobs[m], p)
    <3>1. m \in DOMAIN jobs /\ m # 1
      BY <2>1, <2>2
    <3>2. m - 1 \in DOMAIN rest /\ rest[m - 1] = jobs[m]
      BY <1>0, <3>1
    <3>4. m - 1 \in n + 1 .. Len(rest)
      BY <1>0, <2>1, <3>2
    <3> QED BY <1>5, <3>2, <3>4 DEF LastWrite
  <2> QED BY <2>1, <2>2 DEF LastWrite
<1> QED BY <1>1, <1>3, <1>4, <1>5

LEMMA MoreJobs ==
  ASSUME NEW jobs \in Seq(FilesJobs \cup {SyncJob}), NEW job, NEW p
  PROVE  /\ WrittenIn(Append(jobs, job), p) <=> WrittenIn(jobs, p) \/ Writes(job, p)
         /\ \A n \in DOMAIN Append(jobs, job) : LastWrite(Append(jobs, job), n, p) =>
              \/ n = Len(jobs) + 1 /\ Writes(job, p)
              \/ n \in DOMAIN jobs /\ ~ Writes(job, p) /\ LastWrite(jobs, n, p)
<1>1. /\ DOMAIN Append(jobs, job) = 1 .. Len(jobs) + 1 /\ DOMAIN jobs = 1 .. Len(jobs)
      /\ Append(jobs, job)[Len(jobs) + 1] = job /\ Len(jobs) \in Nat
      /\ Len(Append(jobs, job)) = Len(jobs) + 1
      /\ \A n \in 1 .. Len(jobs) : Append(jobs, job)[n] = jobs[n]
  OBVIOUS
<1>2. WrittenIn(Append(jobs, job), p) <=> WrittenIn(jobs, p) \/ Writes(job, p)
  <2>1. Len(jobs) + 1 \in 1 .. Len(jobs) + 1 /\ 1 .. Len(jobs) \subseteq 1 .. Len(jobs) + 1
    BY <1>1
  <2>2. \A n \in 1 .. Len(jobs) + 1 : n = Len(jobs) + 1 \/ n \in 1 .. Len(jobs)
    BY <1>1
  <2> QED BY <1>1, <2>1, <2>2 DEF WrittenIn
<1>3. ASSUME NEW n \in DOMAIN Append(jobs, job), LastWrite(Append(jobs, job), n, p)
      PROVE  \/ n = Len(jobs) + 1 /\ Writes(job, p)
             \/ n \in DOMAIN jobs /\ ~ Writes(job, p) /\ LastWrite(jobs, n, p)
  <2>1. CASE n = Len(jobs) + 1
    BY <1>1, <1>3, <2>1 DEF LastWrite
  <2>2. CASE n \in 1 .. Len(jobs)
    <3>1. Len(jobs) + 1 \in n + 1 .. Len(jobs) + 1
      BY <1>1, <2>2
    <3>2. ~ Writes(job, p)
      BY <1>1, <1>3, <3>1 DEF LastWrite
    <3>3. \A m \in n + 1 .. Len(jobs) : m \in n + 1 .. Len(jobs) + 1 /\ m \in 1 .. Len(jobs)
      BY <1>1, <2>2
    <3>4. \A m \in n + 1 .. Len(jobs) : ~ Writes(jobs[m], p)
      BY <1>1, <1>3, <3>3 DEF LastWrite
    <3>5. Writes(jobs[n], p)
      BY <1>1, <1>3, <2>2 DEF LastWrite
    <3> QED BY <1>1, <2>2, <3>2, <3>4, <3>5 DEF LastWrite
  <2> QED BY <1>1, <1>3, <2>1, <2>2
<1> QED BY <1>2, <1>3

\* An edit queues one job, of the pages it has touched.
EditsSomething(touched) ==
  /\ touched \subseteq GitPaths
  /\ MayEdit(touched) /\ Written(touched)
  /\ \A p \in GitPaths \ touched : pages'[p] = pages[p] /\ trash'[p] = trash[p]

LEMMA EditsEdit ==
  ASSUME MirrorShape, NEW p \in GitPaths
  PROVE  /\ SavePage(p) \/ DeletePage(p) \/ RestorePage(p) => EditsSomething({p})
         /\ \A q \in GitPaths : MovePage(p, q) => EditsSomething({p, q})
<1>1. pages \in Tree /\ trash \in Tree
  BY PartsOfShape
<1>2. SavePage(p) => EditsSomething({p})
  BY <1>1 DEF SavePage, EditsSomething, Tree
<1>3. DeletePage(p) => EditsSomething({p})
  BY <1>1 DEF DeletePage, EditsSomething, Tree
<1>4. RestorePage(p) => EditsSomething({p})
  BY <1>1 DEF RestorePage, EditsSomething, Tree
<1>5. ASSUME NEW q \in GitPaths, MovePage(p, q) PROVE EditsSomething({p, q})
  BY <1>1, <1>5 DEF MovePage, EditsSomething, Tree
<1> QED BY <1>2, <1>3, <1>4, <1>5

LEMMA EditQueues ==
  ASSUME MirrorShape, NEW touched, EditsSomething(touched)
  PROVE  /\ UNCHANGED <<chain, repository, upstream, server, gitMode>>
         /\ \A p \in GitPaths :
              /\ WrittenIn(effects', p) <=> WrittenIn(effects, p) \/ p \in touched
              /\ \A n \in DOMAIN effects' : LastWrite(effects', n, p) =>
                   IF p \in touched
                   THEN n = Len(effects) + 1 \/ LastWrite(effects, n, p)
                   ELSE LastWrite(effects, n, p)
         /\ effects' = Append(effects, FilesJob([p \in touched |-> pages'[p]]))
         /\ effects \in Seq(FilesJobs)
<1> DEFINE job == FilesJob([p \in touched |-> pages'[p]])
<1>1. effects' = Append(effects, job) /\ UNCHANGED <<chain, repository, upstream, server, gitMode>>
  BY DEF EditsSomething, Written
<1>2. effects \in Seq(FilesJobs)
  BY PartsOfShape
<1>3. effects \in Seq(FilesJobs \cup {SyncJob})
  BY <1>2
<1>4. ASSUME NEW p \in GitPaths PROVE Writes(job, p) <=> p \in touched
  BY DEF Writes, FilesJob, SyncJob
<1> HIDE DEF job
<1>5. ASSUME NEW p \in GitPaths
      PROVE  /\ WrittenIn(effects', p) <=> WrittenIn(effects, p) \/ p \in touched
             /\ \A n \in DOMAIN effects' : LastWrite(effects', n, p) =>
                  IF p \in touched
                  THEN n = Len(effects) + 1 \/ LastWrite(effects, n, p)
                  ELSE LastWrite(effects, n, p)
  BY <1>1, <1>3, <1>4, MoreJobs
<1> QED BY <1>1, <1>2, <1>5 DEF job

-----------------------------------------------------------------------------
(* The repository stays clean.                                             *)

LEMMA CleanFromParts ==
  ASSUME UNCHANGED <<merging, work, head, upstream>>, RepositoryIsClean
  PROVE  RepositoryIsClean'
BY DEF RepositoryIsClean, upstream

LEMMA CleanRepository ==
  ASSUME Steady, GitNext
  PROVE  RepositoryIsClean'
<1>1. RepositoryIsClean /\ MirrorShape
  BY DEF Steady, MirrorFollows
<1>2. ASSUME NEW touched, EditsSomething(touched) PROVE RepositoryIsClean'
  BY <1>1, <1>2, CleanFromParts DEF EditsSomething, Written, repository
<1>3. CASE CommitFiles
  <2>1. ASSUME NEW p \in GitPaths PROVE head'[p] = base'[p] \/ remote'[p] = base'[p]
    <3>1. Pending(p) => remote[p] = base[p]
      BY DEF Steady, MirrorFollows, WritesAreAlone
    <3> QED BY <1>1, <1>3, <3>1, CommitMeans DEF RepositoryIsClean, upstream
  <2> QED BY <1>1, <1>3, <2>1, CommitMeans DEF RepositoryIsClean, upstream
<1>4. CASE Pull
  BY <1>1, <1>4 DEF Pull, RepositoryIsClean
<1>5. CASE Push
  BY <1>1, <1>5 DEF Push, RepositoryIsClean, repository
<1>6. CASE Mirror \/ RequestSync \/ FailPull \/ ListChanges \/ FailPush \/ Restart \/ FinishImport
  BY <1>1, <1>6, CleanFromParts
     DEF Mirror, RequestSync, FailPull, ListChanges, FailPush, Restart, FinishImport, repository
<1>7. ASSUME NEW p \in GitPaths, Import(p) PROVE RepositoryIsClean'
  BY <1>1, <1>7, CleanFromParts DEF Import, repository
<1>8. ASSUME NEW p \in GitPaths, NEW deletes \in BOOLEAN, ExternalCommit(p, deletes)
      PROVE  RepositoryIsClean'
  <2>1. UNCHANGED <<merging, work, head, base>> /\ behind' = TRUE
    BY <1>8 DEF ExternalCommit, repository
  <2>2. remote[p] = base[p] /\ head[p] = base[p]
    BY <1>8 DEF ExternalCommit, Unpushed, Steady, MirrorIsSpared
  <2>3. remote \in Tree
    BY <1>1, PartsOfShape
  <2>4. \A q \in GitPaths : q # p => remote'[q] = remote[q]
    BY <1>8, <2>3 DEF ExternalCommit, Tree
  <2> QED BY <1>1, <2>1, <2>2, <2>4 DEF RepositoryIsClean
<1> QED BY <1>1, <1>2, <1>3, <1>4, <1>5, <1>6, <1>7, <1>8, SteadySteps, EditsEdit
        DEF GitNext, Syncing

-----------------------------------------------------------------------------
(* What waits stays until it is committed.                                 *)

LEMMA PendingNext ==
  ASSUME NEW p
  PROVE  Pending(p)' <=> WrittenIn(effects', p) \/ WrittenIn(chain', p)
BY DEF Pending, WrittenIn, Writes

LEMMA QueuesAreSequences ==
  ASSUME Steady
  PROVE  /\ effects \in Seq(FilesJobs) /\ effects \in Seq(FilesJobs \cup {SyncJob})
         /\ chain \in Seq(FilesJobs \cup {SyncJob})
<1>1. effects \in Seq(FilesJobs) /\ chain \in Seq(FilesJobs \cup {SyncJob})
  BY PartsOfShape DEF Steady
<1> QED BY <1>1

LEMMA MirrorMeans ==
  ASSUME Steady, Mirror
  PROVE  /\ effects # <<>> /\ effects[1] \in FilesJobs
         /\ effects' = Tail(effects) /\ chain' = Append(chain, effects[1])
<1>1. PICK n \in FirstEffects :
        /\ chain' = Append(chain, effects[n])
        /\ effects' = SubSeq(effects, 1, n - 1) \o SubSeq(effects, n + 1, Len(effects))
  BY DEF Mirror
<1>2. n = 1 /\ 1 \in DOMAIN effects
  BY DEF FirstEffects, Steady, Orderly
<1>3. effects \in Seq(FilesJobs)
  BY QueuesAreSequences
<1>4. effects' = Tail(effects)
  BY <1>2, <1>1, <1>3
<1> QED BY <1>2, <1>1, <1>3, <1>4

LEMMA SyncJobsWriteNothing ==
  ASSUME NEW p
  PROVE  ~ Writes(SyncJob, p)
BY DEF Writes

LEMMA MirrorKeepsPending ==
  ASSUME Steady, Mirror, NEW p
  PROVE  Pending(p)' <=> Pending(p)
<1>1. WrittenIn(chain', p) <=> WrittenIn(chain, p) \/ Writes(effects[1], p)
  BY MirrorMeans, MoreJobs, QueuesAreSequences
<1>2. /\ WrittenIn(effects', p) => WrittenIn(effects, p)
      /\ WrittenIn(effects, p) => WrittenIn(effects', p) \/ LastWrite(effects, 1, p)
  BY MirrorMeans, RestIsWritten, QueuesAreSequences
<1>3. LastWrite(effects, 1, p) => Writes(effects[1], p)
  BY DEF LastWrite
<1>4. Writes(effects[1], p) => WrittenIn(effects, p)
  BY MirrorMeans, QueuesAreSequences DEF WrittenIn
<1> QED BY <1>1, <1>2, <1>3, <1>4, PendingIsWritten, PendingNext

LEMMA PullTakesSync ==
  ASSUME Steady, Pull \/ FailPull, NEW p
  PROVE  /\ chain # <<>> /\ chain' = Tail(chain) /\ chain[1] = SyncJob
         /\ effects' = effects /\ sync.at = "idle"
         /\ WrittenIn(chain', p) <=> WrittenIn(chain, p)
         /\ Pending(p)' <=> Pending(p)
<1>1. /\ chain # <<>> /\ chain' = Tail(chain) /\ Head(chain) = SyncJob
      /\ effects' = effects /\ sync.at = "idle"
  BY DEF Pull, FailPull, Pulling, Idle
<1>2. chain[1] = SyncJob
  BY <1>1, QueuesAreSequences
<1>3. WrittenIn(chain', p) <=> WrittenIn(chain, p)
  BY <1>1, <1>2, SyncJobsWriteNothing, RestIsWritten, QueuesAreSequences
<1> QED BY <1>1, <1>2, <1>3, PendingIsWritten, PendingNext

LEMMA RequestKeepsPending ==
  ASSUME Steady, RequestSync, NEW p
  PROVE  /\ effects' = effects
         /\ WrittenIn(chain', p) <=> WrittenIn(chain, p)
         /\ Pending(p)' <=> Pending(p)
<1>1. chain' = Append(chain, SyncJob) /\ effects' = effects
  BY DEF RequestSync
<1>2. WrittenIn(chain', p) <=> WrittenIn(chain, p)
  BY <1>1, MoreJobs, SyncJobsWriteNothing, QueuesAreSequences
<1> QED BY <1>1, <1>2, PendingIsWritten, PendingNext

LEMMA UnchangedPending ==
  ASSUME UNCHANGED <<effects, chain>>, NEW p
  PROVE  Pending(p)' <=> Pending(p)
BY PendingIsWritten, PendingNext

LEMMA RestartDropsPending ==
  ASSUME Restart, NEW p
  PROVE  ~ Pending(p)'
<1>1. effects' = <<>> /\ chain' \in {<<>>, <<SyncJob>>}
  BY DEF Restart
<1>2. ~ WrittenIn(<<>>, p)
  BY DEF WrittenIn
<1>3. DOMAIN <<SyncJob>> = {1} /\ <<SyncJob>>[1] = SyncJob
  OBVIOUS
<1>4. ~ WrittenIn(<<SyncJob>>, p)
  BY <1>3, SyncJobsWriteNothing DEF WrittenIn
<1> QED BY <1>1, <1>2, <1>4, PendingNext

LEMMA CommitTakesPending ==
  ASSUME Steady, CommitFiles, NEW p \in GitPaths
  PROVE  /\ effects' = effects
         /\ Pending(p)' => Pending(p)
         /\ Pending(p) /\ ~ Pending(p)' => p \in DOMAIN chain[1].files /\ head'[p] = pages[p]
<1>1. effects' = effects
  BY DEF CommitFiles
<1>2. /\ WrittenIn(chain', p) => WrittenIn(chain, p)
      /\ WrittenIn(chain, p) => WrittenIn(chain', p) \/ LastWrite(chain, 1, p)
  BY CommitMeans, RestIsWritten, QueuesAreSequences
<1>3. Pending(p)' => Pending(p)
  BY <1>1, <1>2, PendingIsWritten, PendingNext
<1>4. ASSUME Pending(p), ~ Pending(p)'
      PROVE  p \in DOMAIN chain[1].files /\ head'[p] = pages[p]
  <2>1. LastWrite(chain, 1, p) /\ ~ WrittenIn(effects, p)
    BY <1>1, <1>2, <1>4, PendingIsWritten, PendingNext
  <2>2. 1 \in DOMAIN chain /\ p \in DOMAIN chain[1].files
    BY <2>1 DEF LastWrite, Writes
  <2>3. chain[1].files[p] = pages[p]
    BY <2>1, <2>2 DEF Steady, MirrorFollows, LastWriteIsThePage
  <2> QED BY <2>2, <2>3, CommitMeans
<1> QED BY <1>1, <1>3, <1>4

\* What waits before and after a step that is neither an edit nor a commit.
LEMMA OthersKeepPending ==
  ASSUME Steady, NEW p \in GitPaths,
         \/ Mirror \/ RequestSync \/ Pull \/ FailPull
         \/ ListChanges \/ FinishImport \/ Push \/ FailPush
         \/ \E q \in GitPaths : Import(q) \/ \E deletes \in BOOLEAN : ExternalCommit(q, deletes)
  PROVE  Pending(p)' <=> Pending(p)
<1>1. CASE Mirror
  BY <1>1, MirrorKeepsPending
<1>2. CASE RequestSync
  BY <1>2, RequestKeepsPending
<1>3. CASE Pull \/ FailPull
  BY <1>3, PullTakesSync
<1>4. CASE ListChanges \/ FinishImport \/ Push \/ FailPush
  BY <1>4, UnchangedPending DEF ListChanges, FinishImport, Push, FailPush
<1>5. ASSUME NEW q \in GitPaths, Import(q) \/ \E deletes \in BOOLEAN : ExternalCommit(q, deletes)
      PROVE  Pending(p)' <=> Pending(p)
  BY <1>5, UnchangedPending DEF Import, ExternalCommit
<1> QED BY <1>1, <1>2, <1>3, <1>4, <1>5

-----------------------------------------------------------------------------
(* What waits is in nobody's way.                                          *)

\* What WritesAreAlone says of a path.
AloneAt(p) ==
  /\ remote[p] = base[p]
  /\ marker # NoTree /\ marker[p] = head[p]
  /\ ~ (sync.at = "import" /\ p \in sync.paths)

LEMMA AloneParts ==
  ASSUME Steady
  PROVE  /\ \A p \in GitPaths : Pending(p) => AloneAt(p)
         /\ gitReady # "ready" => effects = <<>> /\ \A n \in DOMAIN chain : chain[n] = SyncJob
         /\ merging = NoTree /\ work = head /\ head \in Tree /\ remote \in Tree /\ base \in Tree
         /\ (gitReady = "waiting" => Authoritative /\ ~ synchronized)
         /\ (Authoritative /\ gitReady = "ready" => synchronized)
         /\ gitReady \in {"ready", "waiting", "failed"}
         /\ (marker # NoTree => marker \in Tree)
BY PartsOfShape DEF Steady, MirrorFollows, WritesAreAlone, AloneAt, RepositoryIsClean

LEMMA EditedIsAlone ==
  ASSUME Steady, NEW touched, EditsSomething(touched)
  PROVE  WritesAreAlone'
<1>1. gitReady' = "ready"
  BY EditsAreAlone, EditQueues DEF EditsSomething, server, Steady
<1>2. UNCHANGED <<remote, base, marker, head, sync, chain>>
  BY EditQueues DEF upstream, repository, server, Steady
<1>3. ASSUME NEW p \in GitPaths, Pending(p)'
      PROVE  AloneAt(p)
  <2>1. Pending(p) \/ p \in touched
    BY <1>2, <1>3, PendingIsWritten, PendingNext, EditQueues DEF Steady
  <2>2. p \in touched => AloneAt(p)
    BY EditsAreAlone DEF EditsSomething, AloneAt
  <2> QED BY <2>1, <2>2, AloneParts
<1> QED BY <1>1, <1>2, <1>3 DEF WritesAreAlone, AloneAt

LEMMA CommittedIsAlone ==
  ASSUME Steady, CommitFiles
  PROVE  WritesAreAlone'
<1>1. gitReady' = "ready"
  BY CommitMeans DEF CommitFiles, server
<1>2. UNCHANGED <<remote, base, sync>> /\ sync.at = "idle"
  BY CommitMeans DEF CommitFiles, server, upstream
<1>3. ASSUME NEW p \in GitPaths, Pending(p)'
      PROVE  remote[p] = base[p] /\ marker' # NoTree /\ marker'[p] = head'[p]
  <2>1. AloneAt(p)
    BY <1>3, CommitTakesPending, AloneParts
  <2>2. head' \in Tree
    <3>1. \A q \in DOMAIN chain[1].files : chain[1].files[q] \in File
      BY CommitMeans, JobsAreTold
    <3> QED BY <3>1, CommitMeans, AloneParts DEF Tree
  <2>3. head' # NoTree
    BY <2>2, TreesAreNotNoTree
  <2> QED BY <2>1, <2>3, CommitMeans DEF AloneAt
<1> QED BY <1>1, <1>2, <1>3 DEF WritesAreAlone

LEMMA WaitingIsAlone ==
  ASSUME Steady, GitNext
  PROVE  WritesAreAlone'
<1>1. ASSUME NEW touched, EditsSomething(touched) PROVE WritesAreAlone'
  BY <1>1, EditedIsAlone
<1>2. CASE CommitFiles
  BY <1>2, CommittedIsAlone
<1>3. CASE Mirror
  <2>1. \A p \in GitPaths : Pending(p)' <=> Pending(p)
    BY <1>3, OthersKeepPending
  <2>2. gitReady' = "ready" /\ UNCHANGED <<remote, base, marker, head, sync>>
    BY <1>3, MirrorMeans, AloneParts DEF Mirror, upstream, repository, server
  <2> QED BY <2>1, <2>2, AloneParts DEF WritesAreAlone, AloneAt
<1>4. CASE RequestSync
  <2>1. \A p \in GitPaths : Pending(p)' <=> Pending(p)
    BY <1>4, OthersKeepPending
  <2>2. UNCHANGED <<remote, base, marker, head, sync, gitReady, effects>>
    BY <1>4 DEF RequestSync, upstream, repository, server
  <2>3. (\A n \in DOMAIN chain : chain[n] = SyncJob) => \A n \in DOMAIN chain' : chain'[n] = SyncJob
    BY <1>4, QueuesAreSequences DEF RequestSync
  <2> QED BY <2>1, <2>2, <2>3, AloneParts DEF WritesAreAlone, AloneAt
<1>5. CASE Pull \/ FailPull
  <2>1. \A p \in GitPaths : Pending(p)' <=> Pending(p)
    BY <1>5, OthersKeepPending
  <2>2. chain # <<>> /\ chain' = Tail(chain) /\ effects' = effects /\ sync.at = "idle"
    BY <1>5, PullTakesSync
  <2>3. /\ sync'.at # "import" /\ marker' = marker
        /\ gitReady = "ready" => gitReady' = gitReady \/ gitReady' = "failed"
    BY <1>5 DEF Pull, FailPull, PullFailed, Throw, Idle, repository
  <2>4. gitReady' # "ready" => gitReady # "ready"
    BY <1>5 DEF Pull, FailPull, PullFailed, Throw
  <2>5. (\A n \in DOMAIN chain : chain[n] = SyncJob) => \A n \in DOMAIN chain' : chain'[n] = SyncJob
    BY <2>2, QueuesAreSequences
  <2>6. ASSUME NEW p \in GitPaths, AloneAt(p)
        PROVE  remote'[p] = base'[p] /\ marker' # NoTree /\ marker'[p] = head'[p]
    <3>1. CASE Pull
      BY <2>3, <2>6, <3>1, AloneParts DEF AloneAt, Pull, Merged
    <3>2. CASE FailPull
      BY <2>3, <2>6, <3>2 DEF AloneAt, FailPull, upstream, repository
    <3> QED BY <1>5, <3>1, <3>2
  <2> QED BY <2>1, <2>2, <2>3, <2>4, <2>5, <2>6, AloneParts DEF WritesAreAlone
<1>6. CASE ListChanges
  <2>1. \A p \in GitPaths : Pending(p)' <=> Pending(p)
    BY <1>6, OthersKeepPending
  <2>2. UNCHANGED <<remote, base, marker, head, chain, effects, gitReady>>
    BY <1>6 DEF ListChanges, upstream, repository
  <2>3. sync'.paths = Changes
    BY <1>6 DEF ListChanges
  <2>4. ASSUME NEW p \in GitPaths, Pending(p) PROVE p \notin Changes
    <3>1. AloneAt(p)
      BY <2>4, AloneParts
    <3>2. gitReady = "ready"
      <4>1. WrittenIn(effects, p) \/ WrittenIn(chain, p)
        BY <2>4, PendingIsWritten
      <4> QED BY <4>1, AloneParts, SyncJobsWriteNothing DEF WrittenIn
    <3>3. ~ ListsAll
      BY <3>1, <3>2, AloneParts DEF ListsAll, AloneAt
    <3> QED BY <3>1, <3>3 DEF Changes, AloneAt
  <2> QED BY <2>1, <2>2, <2>3, <2>4, AloneParts DEF WritesAreAlone, AloneAt
<1>7. ASSUME NEW q \in GitPaths, Import(q) PROVE WritesAreAlone'
  <2>1. \A p \in GitPaths : Pending(p)' <=> Pending(p)
    BY <1>7, OthersKeepPending
  <2>2. UNCHANGED <<remote, base, marker, head, chain, effects, gitReady>>
    BY <1>7 DEF Import, upstream, repository
  <2>3. sync.at = "import" /\ sync'.paths \subseteq sync.paths
    <3>1. sync \in [at : {"import"}, paths : SUBSET GitPaths, all : BOOLEAN]
      BY <1>7, PartsOfShape DEF Import, SyncStates, Idle, Steady
    <3> QED BY <1>7, <3>1 DEF Import
  <2> QED BY <2>1, <2>2, <2>3, AloneParts DEF WritesAreAlone, AloneAt
<1>8. CASE FinishImport
  <2>1. \A p \in GitPaths : Pending(p)' <=> Pending(p)
    BY <1>8, OthersKeepPending
  <2>2. UNCHANGED <<remote, base, head, chain, effects, gitReady>> /\ marker' = head
    BY <1>8 DEF FinishImport, upstream
  <2>3. sync'.at = "push" /\ head # NoTree
    BY <1>8, AloneParts, TreesAreNotNoTree DEF FinishImport
  <2> QED BY <2>1, <2>2, <2>3, AloneParts DEF WritesAreAlone, AloneAt
<1>9. CASE Push \/ FailPush
  <2>1. \A p \in GitPaths : Pending(p)' <=> Pending(p)
    BY <1>9, OthersKeepPending
  <2>2. /\ UNCHANGED <<marker, head, chain, effects>>
        /\ remote' = base' \/ UNCHANGED <<remote, base>>
    BY <1>9 DEF Push, FailPush, upstream, repository
  <2>3. sync'.at = "idle" /\ (gitReady' # "ready" => gitReady # "ready")
    BY <1>9 DEF Push, FailPush, Throw, Done, Idle
  <2> QED BY <2>1, <2>2, <2>3, AloneParts DEF WritesAreAlone, AloneAt
<1>10. ASSUME NEW q \in GitPaths, NEW deletes \in BOOLEAN, ExternalCommit(q, deletes)
       PROVE  WritesAreAlone'
  <2>1. \A p \in GitPaths : Pending(p)' <=> Pending(p)
    BY <1>10, OthersKeepPending
  <2>2. UNCHANGED <<marker, head, chain, effects, base, sync, gitReady>>
    BY <1>10 DEF ExternalCommit, repository, server
  <2>3. ~ Pending(q) /\ \A p \in GitPaths : p # q => remote'[p] = remote[p]
    BY <1>10, AloneParts DEF ExternalCommit, Unpushed, Steady, MirrorIsSpared, Tree
  <2> QED BY <2>1, <2>2, <2>3, AloneParts DEF WritesAreAlone, AloneAt
<1>11. CASE Restart
  <2>1. \A p \in GitPaths : ~ Pending(p)'
    BY <1>11, RestartDropsPending
  <2>2. effects' = <<>> /\ chain' \in {<<>>, <<SyncJob>>}
    BY <1>11 DEF Restart
  <2>3. \A n \in DOMAIN <<SyncJob>> : <<SyncJob>>[n] = SyncJob
    OBVIOUS
  <2> QED BY <2>1, <2>2, <2>3 DEF WritesAreAlone
<1> QED BY <1>1, <1>2, <1>3, <1>4, <1>5, <1>6, <1>7, <1>8, <1>9, <1>10, <1>11, SteadySteps,
           EditsEdit DEF GitNext, Syncing, Steady

-----------------------------------------------------------------------------
(* The marker and the imports.                                             *)

LEMMA HeadIsNoMarkerless ==
  ASSUME Steady, CommitFiles
  PROVE  head' \in Tree /\ head' # NoTree
<1>1. \A q \in DOMAIN chain[1].files : chain[1].files[q] \in File
  BY CommitMeans, JobsAreTold
<1>2. head' \in Tree
  BY <1>1, CommitMeans, AloneParts DEF Tree
<1> QED BY <1>2, TreesAreNotNoTree

LEMMA MarkerFollowsHead ==
  ASSUME Steady, GitNext
  PROVE  MarkerIsHead'
<1> USE DEF MarkerIsHead
<1>1. MarkerIsHead /\ gitMode' = gitMode /\ (Authoritative' <=> Authoritative)
  BY DEF Steady, MirrorFollows, GitNext, Syncing, bounds, Authoritative, SavePage, DeletePage,
         RestorePage, MovePage, Written, Mirror, CommitFiles, FailCommit, RequestSync, Pull,
         PullConflicts, FailPull, ListChanges, Import, FinishImport, Push, FailPush, FailImport,
         ExternalCommit, Restart
<1>2. ASSUME NEW touched, EditsSomething(touched) PROVE MarkerIsHead'
  <2>1. UNCHANGED <<marker, head, sync, gitReady>>
    BY <1>2, EditQueues DEF repository, server, Steady
  <2>2. marker # NoTree
    BY <1>2, EditsAreAlone DEF EditsSomething
  <2> QED BY <1>1, <2>1, <2>2
<1>3. CASE CommitFiles
  <2>1. UNCHANGED <<sync, gitReady, pages>> /\ sync.at = "idle"
    BY <1>3, CommitMeans DEF CommitFiles, server, wiki
  <2>2. head' # NoTree
    BY <1>3, HeadIsNoMarkerless
  <2> QED BY <1>1, <1>3, <2>1, <2>2, CommitMeans
<1>4. CASE Mirror \/ RequestSync
  BY <1>1, <1>4 DEF Mirror, RequestSync, wiki, repository, server
<1>5. CASE Pull
  <2>1. UNCHANGED <<marker, gitReady, pages>> /\ sync.at = "idle" /\ sync'.at = "pulled"
    BY <1>5 DEF Pull, Pulling, Idle, wiki
  <2> QED BY <1>1, <2>1
<1>6. CASE FailPull
  <2>1. /\ UNCHANGED <<marker, head, pages>> /\ sync.at = "idle" /\ sync'.at \in {"idle", "pulled"}
        /\ (gitReady' = "ready" => gitReady = "ready")
    BY <1>6 DEF FailPull, Pulling, PullFailed, Throw, Idle, wiki, repository
  <2> QED BY <1>1, <2>1
<1>7. CASE ListChanges
  BY <1>1, <1>7 DEF ListChanges, repository
<1>8. ASSUME NEW p \in GitPaths, Import(p) PROVE MarkerIsHead'
  <2>1. sync'.at = "import"
    <3>1. sync \in [at : {"import"}, paths : SUBSET GitPaths, all : BOOLEAN]
      BY <1>8, PartsOfShape DEF Import, SyncStates, Idle, Steady
    <3> QED BY <1>8, <3>1 DEF Import
  <2> QED BY <1>1, <1>8, <2>1 DEF Import, repository
<1>9. CASE FinishImport
  <2>1. marker' = head /\ head' = head /\ sync'.at = "push" /\ head # NoTree
    BY <1>9, AloneParts, TreesAreNotNoTree DEF FinishImport
  <2> QED BY <2>1
<1>10. CASE Push \/ FailPush
  <2>1. UNCHANGED <<marker, head>> /\ sync.at = "push" /\ sync'.at = "idle" /\ head # NoTree
    BY <1>10, AloneParts, TreesAreNotNoTree DEF Push, FailPush, Throw, Done, Idle, repository
  <2> QED BY <1>1, <2>1
<1>11. ASSUME NEW p \in GitPaths, NEW deletes \in BOOLEAN, ExternalCommit(p, deletes)
       PROVE  MarkerIsHead'
  BY <1>1, <1>11 DEF ExternalCommit, wiki, repository, server
<1>12. CASE Restart
  <2>1. gitReady' = "waiting" /\ sync'.at = "idle"
    BY <1>12 DEF Restart, Boot, Idle, Steady, Orderly
  <2> QED BY <2>1
<1> QED BY <1>2, <1>3, <1>4, <1>5, <1>6, <1>7, <1>8, <1>9, <1>10, <1>11, <1>12, SteadySteps,
           EditsEdit DEF GitNext, Syncing, Steady

LEMMA ImportsGoOn ==
  ASSUME Steady, GitNext
  PROVE  ImportsCoverAll'
<1>1. ImportsCoverAll
  BY DEF Steady, MirrorFollows
<1>2. ASSUME NEW touched, EditsSomething(touched) PROVE ImportsCoverAll'
  BY <1>1, <1>2, EditQueues DEF ImportsCoverAll, repository, server, Steady
<1>3. CASE CommitFiles \/ Pull \/ FailPull \/ FinishImport \/ Push \/ FailPush \/ Restart
  <2>1. sync'.at # "import"
    BY <1>3, CommitMeans
       DEF CommitFiles, Pull, FailPull, PullFailed, FinishImport, Push, FailPush, Restart, Throw,
           Done, Idle, server
  <2> QED BY <2>1 DEF ImportsCoverAll
<1>4. CASE Mirror \/ RequestSync
  BY <1>1, <1>4 DEF ImportsCoverAll, Mirror, RequestSync, repository, server
<1>5. CASE ListChanges
  <2>1. /\ sync' = [at |-> "import", paths |-> Changes, all |-> ListsAll]
        /\ UNCHANGED <<head, gitReady>>
    BY <1>5 DEF ListChanges, repository
  <2>2. gitReady = "waiting" => ListsAll
    BY AloneParts DEF ListsAll
  <2>3. ListsAll => \A p \in Changes : head[p] # Nothing
    BY AloneParts DEF Changes, Tracked
  <2> QED BY <2>1, <2>2, <2>3 DEF ImportsCoverAll
<1>6. ASSUME NEW p \in GitPaths, Import(p) PROVE ImportsCoverAll'
  <2>1. sync \in [at : {"import"}, paths : SUBSET GitPaths, all : BOOLEAN]
    BY <1>6, PartsOfShape DEF Import, SyncStates, Idle, Steady
  <2>2. sync'.paths \subseteq sync.paths /\ sync'.all = sync.all /\ sync.at = "import"
    BY <1>6, <2>1 DEF Import
  <2> QED BY <1>1, <1>6, <2>2 DEF ImportsCoverAll, Import, repository
<1>7. ASSUME NEW p \in GitPaths, NEW deletes \in BOOLEAN, ExternalCommit(p, deletes)
      PROVE  ImportsCoverAll'
  BY <1>1, <1>7 DEF ImportsCoverAll, ExternalCommit, repository, server
<1> QED BY <1>2, <1>3, <1>4, <1>5, <1>6, <1>7, SteadySteps, EditsEdit DEF GitNext, Syncing, Steady

-----------------------------------------------------------------------------
(* The last write is the page.                                             *)

LEMMA LastWriteParts ==
  ASSUME Steady, NEW p \in GitPaths
  PROVE  /\ \A n \in DOMAIN effects : LastWrite(effects, n, p) => effects[n].files[p] = pages[p]
         /\ ~ WrittenIn(effects, p) =>
              \A n \in DOMAIN chain : LastWrite(chain, n, p) => chain[n].files[p] = pages[p]
BY DEF Steady, MirrorFollows, LastWriteIsThePage

LEMMA LastIsWritten ==
  ASSUME NEW jobs, NEW n, NEW p, LastWrite(jobs, n, p)
  PROVE  WrittenIn(jobs, p) /\ n \in DOMAIN jobs
BY DEF LastWrite, WrittenIn

LEMMA EditIsLast ==
  ASSUME Steady, NEW touched, EditsSomething(touched)
  PROVE  LastWriteIsThePage'
<1> DEFINE job == FilesJob([p \in touched |-> pages'[p]])
<1>1. /\ effects' = Append(effects, job) /\ effects \in Seq(FilesJobs) /\ chain' = chain
      /\ \A p \in GitPaths :
           /\ WrittenIn(effects', p) <=> WrittenIn(effects, p) \/ p \in touched
           /\ \A n \in DOMAIN effects' : LastWrite(effects', n, p) =>
                IF p \in touched THEN n = Len(effects) + 1 \/ LastWrite(effects, n, p)
                ELSE LastWrite(effects, n, p)
  BY EditQueues DEF Steady
<1>2. \A p \in touched : job.files[p] = pages'[p] /\ p \in DOMAIN job.files
  BY DEF FilesJob
<1>3. \A p \in touched : Writes(job, p)
  BY <1>2 DEF Writes, FilesJob, SyncJob
<1> HIDE DEF job
<1>4. ASSUME NEW p \in GitPaths, NEW n \in DOMAIN effects', LastWrite(effects', n, p)
      PROVE  effects'[n].files[p] = pages'[p]
  <2>1. CASE n = Len(effects) + 1
    <3>1. effects'[n] = job
      BY <1>1, <2>1
    <3>2. p \in touched
      <4>1. ~ LastWrite(effects, n, p)
        BY <1>1, <2>1 DEF LastWrite
      <4> QED BY <1>1, <1>4, <4>1
    <3> QED BY <1>2, <3>1, <3>2
  <2>2. CASE n # Len(effects) + 1
    <3>1. LastWrite(effects, n, p)
      BY <1>1, <1>4, <2>2
    <3>2. n \in DOMAIN effects /\ effects'[n] = effects[n]
      BY <1>1, <3>1 DEF LastWrite
    <3>3. p \notin touched
      <4>1. SUFFICES ASSUME p \in touched PROVE FALSE
        OBVIOUS
      <4>2. Len(effects) + 1 \in n + 1 .. Len(effects')
        BY <1>1, <3>2
      <4>3. effects'[Len(effects) + 1] = job
        BY <1>1
      <4> QED BY <1>3, <1>4, <4>1, <4>2, <4>3 DEF LastWrite
    <3>4. pages'[p] = pages[p]
      BY <3>3 DEF EditsSomething
    <3> QED BY <3>1, <3>2, <3>4, LastWriteParts
  <2> QED BY <2>1, <2>2
<1>5. ASSUME NEW p \in GitPaths, ~ WrittenIn(effects', p),
             NEW n \in DOMAIN chain', LastWrite(chain', n, p)
      PROVE  chain'[n].files[p] = pages'[p]
  <2>1. p \notin touched /\ ~ WrittenIn(effects, p)
    BY <1>1, <1>5
  <2>2. pages'[p] = pages[p]
    BY <2>1 DEF EditsSomething
  <2> QED BY <1>1, <1>5, <2>1, <2>2, LastWriteParts
<1> QED BY <1>4, <1>5 DEF LastWriteIsThePage

LEMMA MirroredIsLast ==
  ASSUME Steady, Mirror
  PROVE  LastWriteIsThePage'
<1>1. /\ effects # <<>> /\ effects' = Tail(effects) /\ chain' = Append(chain, effects[1])
      /\ pages' = pages
  BY MirrorMeans DEF Mirror, wiki
<1>2. /\ effects \in Seq(FilesJobs \cup {SyncJob}) /\ chain \in Seq(FilesJobs \cup {SyncJob})
      /\ effects' \in Seq(FilesJobs \cup {SyncJob})
  BY <1>1, QueuesAreSequences
<1>3. ASSUME NEW p \in GitPaths, NEW n \in DOMAIN effects', LastWrite(effects', n, p)
      PROVE  effects'[n].files[p] = pages'[p]
  <2>1. LastWrite(effects, n + 1, p)
    BY <1>1, <1>2, <1>3, RestIsWritten
  <2>2. n + 1 \in DOMAIN effects /\ effects'[n] = effects[n + 1]
    BY <1>1, <1>2, <2>1 DEF LastWrite
  <2> QED BY <1>1, <2>1, <2>2, LastWriteParts
<1>4. ASSUME NEW p \in GitPaths, ~ WrittenIn(effects', p),
             NEW n \in DOMAIN chain', LastWrite(chain', n, p)
      PROVE  chain'[n].files[p] = pages'[p]
  <2>1. \/ n = Len(chain) + 1 /\ Writes(effects[1], p)
        \/ n \in DOMAIN chain /\ ~ Writes(effects[1], p) /\ LastWrite(chain, n, p)
    BY <1>1, <1>2, <1>4, MoreJobs
  <2>2. WrittenIn(effects, p) => LastWrite(effects, 1, p)
    BY <1>1, <1>2, <1>4, RestIsWritten
  <2>3. CASE n = Len(chain) + 1 /\ Writes(effects[1], p)
    <3>1. 1 \in DOMAIN effects /\ chain'[n] = effects[1]
      BY <1>1, <1>2, <2>3
    <3>2. LastWrite(effects, 1, p)
      BY <2>2, <2>3, <3>1 DEF WrittenIn
    <3> QED BY <1>1, <3>1, <3>2, LastWriteParts
  <2>4. CASE n \in DOMAIN chain /\ ~ Writes(effects[1], p) /\ LastWrite(chain, n, p)
    <3>1. ~ WrittenIn(effects, p)
      BY <2>2, <2>4 DEF LastWrite
    <3>2. chain'[n] = chain[n]
      BY <1>1, <1>2, <2>4
    <3> QED BY <1>1, <2>4, <3>1, <3>2, LastWriteParts
  <2> QED BY <2>1, <2>3, <2>4
<1> QED BY <1>3, <1>4 DEF LastWriteIsThePage

\* Steps that only take the first job, or add a sync, leave the last writes alone.
LEMMA StillLast ==
  ASSUME Steady, UNCHANGED <<effects, pages>>,
         \/ chain # <<>> /\ (chain' = Tail(chain) \/ chain' = Append(Tail(chain), SyncJob))
         \/ chain' = Append(chain, SyncJob)
         \/ chain' = chain
  PROVE  LastWriteIsThePage'
<1>1. chain \in Seq(FilesJobs \cup {SyncJob})
  BY QueuesAreSequences
<1>2. ASSUME NEW p \in GitPaths, ~ WrittenIn(effects', p),
             NEW n \in DOMAIN chain', LastWrite(chain', n, p)
      PROVE  chain'[n].files[p] = pages'[p]
  <2>1. CASE chain # <<>> /\ (chain' = Tail(chain) \/ chain' = Append(Tail(chain), SyncJob))
    <3>1. LastWrite(chain, n + 1, p)
      BY <1>1, <1>2, <2>1, RestIsWritten
    <3>2. n + 1 \in DOMAIN chain /\ (chain'[n] # SyncJob => chain'[n] = chain[n + 1])
      BY <1>1, <1>2, <2>1, <3>1, RestOfChain DEF LastWrite
    <3>3. chain'[n] # SyncJob
      BY <1>2 DEF LastWrite, Writes
    <3> QED BY <1>2, <3>1, <3>2, <3>3, LastWriteParts
  <2>2. CASE chain' = Append(chain, SyncJob)
    <3>1. n \in DOMAIN chain /\ LastWrite(chain, n, p)
      BY <1>1, <1>2, <2>2, MoreJobs, SyncJobsWriteNothing
    <3>2. chain'[n] = chain[n]
      BY <1>1, <2>2, <3>1
    <3> QED BY <1>2, <3>1, <3>2, LastWriteParts
  <2>3. CASE chain' = chain
    BY <1>2, <2>3, LastWriteParts
  <2> QED BY <2>1, <2>2, <2>3
<1>3. ASSUME NEW p \in GitPaths, NEW n \in DOMAIN effects', LastWrite(effects', n, p)
      PROVE  effects'[n].files[p] = pages'[p]
  BY <1>3, LastWriteParts
<1> QED BY <1>2, <1>3 DEF LastWriteIsThePage

\* What is imported waits for nothing.
LEMMA ImportedIsLast ==
  ASSUME Steady, UNCHANGED <<effects, chain>>,
         \A p \in GitPaths : Pending(p) => pages'[p] = pages[p]
  PROVE  LastWriteIsThePage'
<1>1. ASSUME NEW p \in GitPaths, NEW n \in DOMAIN effects, LastWrite(effects, n, p)
      PROVE  effects[n].files[p] = pages'[p]
  <2>1. Pending(p)
    BY <1>1, LastIsWritten, PendingIsWritten
  <2> QED BY <1>1, <2>1, LastWriteParts
<1>2. ASSUME NEW p \in GitPaths, ~ WrittenIn(effects, p),
             NEW n \in DOMAIN chain, LastWrite(chain, n, p)
      PROVE  chain[n].files[p] = pages'[p]
  <2>1. Pending(p)
    BY <1>2, LastIsWritten, PendingIsWritten
  <2> QED BY <1>2, <2>1, LastWriteParts
<1> QED BY <1>1, <1>2 DEF LastWriteIsThePage

\* In a boot nothing waits.
LEMMA BootsHaveNoWrites ==
  ASSUME Steady, gitReady # "ready", NEW p
  PROVE  ~ Pending(p)
<1>1. effects = <<>> /\ \A n \in DOMAIN chain : chain[n] = SyncJob
  BY AloneParts
<1>2. ~ WrittenIn(effects, p) /\ ~ WrittenIn(chain, p)
  BY <1>1, SyncJobsWriteNothing DEF WrittenIn
<1> QED BY <1>2, PendingIsWritten

LEMMA LastWritesStay ==
  ASSUME Steady, GitNext
  PROVE  LastWriteIsThePage'
<1>1. ASSUME NEW touched, EditsSomething(touched) PROVE LastWriteIsThePage'
  BY <1>1, EditIsLast
<1>2. CASE Mirror
  BY <1>2, MirroredIsLast
<1>3. CASE CommitFiles \/ RequestSync \/ Pull \/ FailPull
  <2>1. UNCHANGED <<effects, pages>>
    BY <1>3 DEF CommitFiles, RequestSync, Pull, FailPull, wiki
  <2>2. \/ chain # <<>> /\ (chain' = Tail(chain) \/ chain' = Append(Tail(chain), SyncJob))
        \/ chain' = Append(chain, SyncJob)
    BY <1>3 DEF CommitFiles, RequestSync, Pull, FailPull, Pulling, Onward
  <2> QED BY <2>1, <2>2, StillLast
<1>4. CASE \/ ListChanges \/ Push \/ FailPush
           \/ \E p \in GitPaths, deletes \in BOOLEAN : ExternalCommit(p, deletes)
  <2>1. UNCHANGED <<effects, pages, chain>>
    BY <1>4 DEF ListChanges, Push, FailPush, ExternalCommit, wiki
  <2> QED BY <2>1, StillLast
<1>5. ASSUME NEW p \in GitPaths, Import(p) PROVE LastWriteIsThePage'
  <2>1. ~ Pending(p)
    BY <1>5, AloneParts DEF Import, AloneAt
  <2>2. \A q \in GitPaths : q # p => pages'[q] = pages[q]
    BY <1>5, PartsOfShape DEF Import, wiki, Tree, Steady
  <2>3. UNCHANGED <<effects, chain>>
    BY <1>5 DEF Import
  <2> QED BY <2>1, <2>2, <2>3, ImportedIsLast
<1>6. CASE FinishImport
  <2>1. UNCHANGED <<effects, chain>>
    BY <1>6 DEF FinishImport
  <2>2. ASSUME NEW p \in GitPaths, Pending(p) PROVE pages'[p] = pages[p]
    <3>1. gitReady = "ready"
      BY <2>2, BootsHaveNoWrites
    <3>2. Reconciled = GitPaths
      BY <3>1, AloneParts DEF Reconciled
    <3> QED BY <1>6, <3>2 DEF FinishImport
  <2> QED BY <2>1, <2>2, ImportedIsLast
<1>7. CASE Restart
  <2>1. effects' = <<>> /\ chain' \in {<<>>, <<SyncJob>>}
    BY <1>7 DEF Restart
  <2>2. ASSUME NEW p, NEW n \in DOMAIN chain' PROVE ~ LastWrite(chain', n, p)
    <3>1. DOMAIN <<SyncJob>> = {1} /\ <<SyncJob>>[1] = SyncJob
      OBVIOUS
    <3> QED BY <2>1, <2>2, <3>1, SyncJobsWriteNothing DEF LastWrite
  <2> QED BY <2>1, <2>2 DEF LastWriteIsThePage
<1> QED BY <1>1, <1>2, <1>3, <1>4, <1>5, <1>6, <1>7, SteadySteps, EditsEdit
        DEF GitNext, Syncing, Steady

-----------------------------------------------------------------------------
(* The pages are mirrored.                                                 *)

LEMMA MirroredParts ==
  ASSUME Steady, NEW p \in GitPaths
  PROVE  Owed(p) \/ Pending(p) \/ pages[p] = head[p] \/ trash[p] # Nothing
BY DEF Steady, MirrorFollows, PagesAreMirrored, Mirrored

\* A step that moves neither the wiki nor HEAD, nor the sync.
LEMMA StillMirrored ==
  ASSUME Steady, UNCHANGED <<head, marker, sync, gitReady>>,
         \A p \in GitPaths :
           \/ Pending(p)'
           \/ UNCHANGED <<pages[p], trash[p]>> /\ (Pending(p) => Pending(p)')
  PROVE  PagesAreMirrored'
<1>1. ASSUME NEW p \in GitPaths PROVE Owed(p)' <=> Owed(p)
  BY DEF Owed
<1> QED BY <1>1, MirroredParts DEF PagesAreMirrored, Mirrored

LEMMA CommittedIsMirrored ==
  ASSUME Steady, CommitFiles
  PROVE  PagesAreMirrored'
<1>1. UNCHANGED <<pages, trash, sync, gitReady>> /\ sync.at = "idle" /\ gitReady = "ready"
  BY CommitMeans DEF CommitFiles, wiki, server
<1>2. ASSUME NEW p \in GitPaths PROVE (Owed(p) \/ Pending(p) \/ Mirrored(p))'
  <2>1. CASE Owed(p)
    <3>1. marker = NoTree
      BY <1>1, <2>1 DEF Owed
    <3>2. marker' = NoTree
      BY <3>1, CommitMeans
    <3> QED BY <1>1, <3>2 DEF Owed
  <2>2. CASE Pending(p)
    BY <1>1, <2>2, CommitTakesPending DEF Mirrored
  <2>3. CASE ~ Pending(p) /\ Mirrored(p)
    <3>1. head'[p] = head[p]
      BY <2>3, CommitMeans
    <3> QED BY <1>1, <2>3, <3>1 DEF Mirrored
  <2> QED BY <2>1, <2>2, <2>3, MirroredParts DEF Mirrored
<1> QED BY <1>2 DEF PagesAreMirrored

LEMMA PulledIsMirrored ==
  ASSUME Steady, Pull \/ FailPull
  PROVE  PagesAreMirrored'
<1>1. UNCHANGED <<pages, trash, marker>> /\ sync.at = "idle"
  BY DEF Pull, FailPull, Pulling, Idle, wiki, repository
<1>2. ASSUME NEW p \in GitPaths PROVE (Owed(p) \/ Pending(p) \/ Mirrored(p))'
  <2>1. Pending(p)' <=> Pending(p)
    BY PullTakesSync
  <2>2. CASE Pull
    <3>1. sync'.at = "pulled" /\ gitReady' = gitReady
      BY <2>2 DEF Pull
    <3>2. gitReady # "ready" => Owed(p)'
      BY <3>1, AloneParts DEF Owed
    <3>3. gitReady = "ready" /\ marker # NoTree => marker = head
      BY <1>1 DEF Steady, MirrorFollows, MarkerIsHead
    <3>4. marker = NoTree => Owed(p)'
      BY <1>1, <3>1 DEF Owed
    <3>5. marker # NoTree /\ marker[p] # head'[p] => Owed(p)'
      BY <1>1, <3>1 DEF Owed
    <3>6. gitReady = "ready" /\ marker # NoTree => ~ Owed(p)
      BY <1>1 DEF Owed
    <3> QED BY <1>1, <2>1, <3>2, <3>3, <3>4, <3>5, <3>6, MirroredParts DEF Mirrored
  <2>3. CASE FailPull
    <3>1. head' = head /\ sync'.at \in {"idle", "pulled"}
      BY <2>3 DEF FailPull, PullFailed, Throw, Idle, repository
    <3>2. gitReady' = gitReady \/ gitReady' = "failed"
      BY <2>3 DEF FailPull, PullFailed, Throw
    <3>3. Owed(p) => Owed(p)'
      BY <1>1, <3>1, <3>2 DEF Owed
    <3> QED BY <1>1, <2>1, <3>1, <3>3, MirroredParts DEF Mirrored
  <2> QED BY <2>2, <2>3
<1> QED BY <1>2 DEF PagesAreMirrored

LEMMA ListedIsMirrored ==
  ASSUME Steady, ListChanges
  PROVE  PagesAreMirrored'
<1>1. /\ UNCHANGED <<pages, trash, marker, head, gitReady>> /\ sync.at = "pulled"
      /\ sync'.at = "import" /\ sync'.paths = Changes
  BY DEF ListChanges, wiki, repository
<1>2. ASSUME NEW p \in GitPaths PROVE (Owed(p) \/ Pending(p) \/ Mirrored(p))'
  <2>1. Pending(p)' <=> Pending(p)
    BY OthersKeepPending
  <2>2. p \in Changes => Owed(p)'
    BY <1>1 DEF Owed
  <2>3. ListsAll => (p \in Changes <=> head[p] # Nothing)
    BY AloneParts DEF Changes, Tracked
  <2>4. CASE gitReady # "ready"
    <3>1. gitReady = "waiting" => ListsAll
      BY AloneParts DEF ListsAll
    <3>2. Owed(p)'
      BY <1>1, <2>2, <2>3, <2>4, <3>1, AloneParts DEF Owed
    <3> QED BY <3>2
  <2>5. CASE gitReady = "ready" /\ marker = NoTree
    <3>1. pages = EmptyTree /\ ListsAll
      BY <1>1, <2>5 DEF Steady, MirrorFollows, MarkerIsHead, ListsAll
    <3>2. pages[p] = Nothing
      BY <3>1 DEF EmptyTree
    <3> QED BY <1>1, <2>2, <2>3, <3>1, <3>2 DEF Mirrored
  <2>6. CASE gitReady = "ready" /\ marker # NoTree
    <3>1. ~ ListsAll
      BY <2>6, AloneParts DEF ListsAll
    <3>2. p \notin Changes => marker[p] = head[p]
      BY <3>1 DEF Changes
    <3>3. p \notin Changes => ~ Owed(p)
      BY <1>1, <2>6, <3>2 DEF Owed
    <3> QED BY <1>1, <2>1, <2>2, <3>3, MirroredParts DEF Mirrored
  <2> QED BY <2>4, <2>5, <2>6
<1> QED BY <1>2 DEF PagesAreMirrored

LEMMA ImportedIsMirrored ==
  ASSUME Steady, NEW p \in GitPaths, Import(p)
  PROVE  PagesAreMirrored'
<1>1. sync \in [at : {"import"}, paths : SUBSET GitPaths, all : BOOLEAN]
  BY PartsOfShape DEF Import, SyncStates, Idle, Steady
<1>2. /\ UNCHANGED <<head, marker, gitReady>> /\ sync.at = "import" /\ sync'.at = "import"
      /\ sync'.paths = sync.paths \ {p} /\ p \in sync.paths
  BY <1>1 DEF Import, repository
<1>3. pages \in Tree /\ trash \in Tree /\ work = head
  BY PartsOfShape DEF Steady, MirrorFollows, RepositoryIsClean
<1>4. ASSUME NEW q \in GitPaths, q # p PROVE (Owed(q) \/ Pending(q) \/ Mirrored(q))'
  <2>1. Pending(q)' <=> Pending(q)
    BY OthersKeepPending
  <2>2. pages'[q] = pages[q] /\ trash'[q] = trash[q]
    BY <1>3, <1>4 DEF Import, wiki, Tree
  <2>3. Owed(q) => Owed(q)'
    BY <1>2, <1>4 DEF Owed
  <2> QED BY <1>2, <2>1, <2>2, <2>3, MirroredParts DEF Mirrored
<1>5. Mirrored(p)'
  <2>1. CASE head[p] = Nothing /\ ~ sync.all
    BY <1>2, <1>3, <2>1 DEF Import, Mirrored, Tree
  <2>2. CASE ~ (head[p] = Nothing /\ ~ sync.all)
    <3>1. head[p] # Nothing
      BY <1>2, <2>2 DEF Steady, MirrorFollows, ImportsCoverAll
    <3>2. CASE trash[p] # Nothing /\ ~ Authoritative
      BY <1>2, <2>2, <3>2 DEF Import, Mirrored, wiki
    <3>3. CASE ~ (trash[p] # Nothing /\ ~ Authoritative)
      BY <1>2, <1>3, <2>2, <3>1, <3>3 DEF Import, Mirrored, Tree
    <3> QED BY <3>2, <3>3
  <2> QED BY <2>1, <2>2
<1> QED BY <1>4, <1>5 DEF PagesAreMirrored

LEMMA FinishedIsMirrored ==
  ASSUME Steady, FinishImport
  PROVE  PagesAreMirrored'
<1>1. /\ UNCHANGED <<head, gitReady>> /\ sync.at = "import" /\ sync.paths = {}
      /\ pages' = [p \in GitPaths |-> IF p \in Reconciled THEN pages[p] ELSE Nothing]
      /\ trash' = [p \in GitPaths |->
           IF p \notin Reconciled /\ pages[p] # Nothing THEN pages[p] ELSE trash[p]]
  BY DEF FinishImport
<1>2. \A p \in GitPaths : p \in Tracked <=> head[p] # Nothing
  BY AloneParts DEF Tracked
<1>3. Reconciled = GitPaths \/ Reconciled = Tracked
  BY DEF Reconciled
<1>4. gitReady = "waiting" => Reconciled = Tracked
  <2>1. ASSUME Authoritative PROVE Tracked # {}
    BY <1>2, <2>1 DEF Steady, MirrorFollows, SomePathLives, Lives
  <2> QED BY <2>1, AloneParts DEF Reconciled
<1>5. ASSUME NEW p \in GitPaths PROVE (Owed(p) \/ Pending(p) \/ Mirrored(p))'
  <2>1. Pending(p)' <=> Pending(p)
    BY OthersKeepPending
  <2>2. gitReady = "failed" => Owed(p)'
    BY <1>1 DEF Owed
  <2>3. p \notin Reconciled => pages'[p] = head[p]
    BY <1>1, <1>2, <1>3
  <2>4. p \in Reconciled => pages'[p] = pages[p] /\ trash'[p] = trash[p]
    BY <1>1
  <2>5. Owed(p) /\ gitReady # "failed" => p \notin Reconciled
    BY <1>1, <1>2, <1>4 DEF Owed
  <2> QED BY <1>1, <2>1, <2>2, <2>3, <2>4, <2>5, MirroredParts DEF Mirrored
<1> QED BY <1>5 DEF PagesAreMirrored

LEMMA PushedIsMirrored ==
  ASSUME Steady, Push \/ FailPush
  PROVE  PagesAreMirrored'
<1>1. UNCHANGED <<pages, trash, head, marker>> /\ sync.at = "push"
  BY DEF Push, FailPush, wiki, repository
<1>2. gitReady = "failed" => gitReady' = "failed"
  BY DEF Push, FailPush, Throw, Done
<1>3. ASSUME NEW p \in GitPaths PROVE (Owed(p) \/ Pending(p) \/ Mirrored(p))'
  <2>1. Pending(p)' <=> Pending(p)
    BY OthersKeepPending
  <2>2. Owed(p) => Owed(p)'
    BY <1>1, <1>2 DEF Owed
  <2> QED BY <1>1, <2>1, <2>2, MirroredParts DEF Mirrored
<1> QED BY <1>3 DEF PagesAreMirrored

LEMMA PagesStayMirrored ==
  ASSUME Steady, GitNext
  PROVE  PagesAreMirrored'
<1>1. ASSUME NEW touched, EditsSomething(touched) PROVE PagesAreMirrored'
  <2>1. UNCHANGED <<head, marker, sync, gitReady>>
    BY <1>1, EditQueues DEF repository, server, Steady
  <2>2. ASSUME NEW p \in GitPaths
        PROVE  \/ Pending(p)'
               \/ UNCHANGED <<pages[p], trash[p]>> /\ (Pending(p) => Pending(p)')
    <3>1. /\ WrittenIn(effects', p) <=> WrittenIn(effects, p) \/ p \in touched
          /\ chain' = chain
      BY <1>1, EditQueues DEF Steady
    <3>2. p \notin touched => UNCHANGED <<pages[p], trash[p]>>
      BY <1>1 DEF EditsSomething
    <3> QED BY <3>1, <3>2, PendingIsWritten, PendingNext
  <2> QED BY <2>1, <2>2, StillMirrored
<1>2. CASE CommitFiles
  BY <1>2, CommittedIsMirrored
<1>3. CASE Pull \/ FailPull
  BY <1>3, PulledIsMirrored
<1>4. CASE ListChanges
  BY <1>4, ListedIsMirrored
<1>5. ASSUME NEW p \in GitPaths, Import(p) PROVE PagesAreMirrored'
  BY <1>5, ImportedIsMirrored
<1>6. CASE FinishImport
  BY <1>6, FinishedIsMirrored
<1>7. CASE Push \/ FailPush
  BY <1>7, PushedIsMirrored
<1>8. CASE \/ Mirror \/ RequestSync
           \/ \E p \in GitPaths, deletes \in BOOLEAN : ExternalCommit(p, deletes)
  <2>1. UNCHANGED <<head, marker, sync, gitReady, pages, trash>>
    BY <1>8 DEF Mirror, RequestSync, ExternalCommit, wiki, repository, server
  <2>2. \A p \in GitPaths : Pending(p)' <=> Pending(p)
    BY <1>8, OthersKeepPending
  <2> QED BY <2>1, <2>2, StillMirrored
<1>9. CASE Restart
  <2>1. gitReady' = "waiting" /\ sync'.at = "idle"
    BY <1>9 DEF Restart, Boot, Idle, Steady, Orderly
  <2> QED BY <2>1 DEF PagesAreMirrored, Owed
<1> QED BY <1>1, <1>2, <1>3, <1>4, <1>5, <1>6, <1>7, <1>8, <1>9, SteadySteps, EditsEdit
        DEF GitNext, Syncing, Steady

-----------------------------------------------------------------------------
(* An authoritative repository keeps a path.                               *)

\* The nth job of the queue leaves a path: it writes one, or one that lives was there.
ChainSpares(n) ==
  chain[n] # SyncJob =>
    \/ \E p \in DOMAIN chain[n].files : chain[n].files[p] # Nothing
    \/ \E p \in GitPaths : Lives(p) /\ \A m \in 1 .. n : ~ Writes(chain[m], p)

EffectSpares(n) ==
  \/ \E p \in DOMAIN effects[n].files : effects[n].files[p] # Nothing
  \/ \E p \in GitPaths :
       Lives(p) /\ ~ WrittenIn(chain, p) /\ \A m \in 1 .. n : ~ Writes(effects[m], p)

LEMMA LivesParts ==
  ASSUME Steady, Authoritative
  PROVE  /\ \E p \in GitPaths : Lives(p)
         /\ \A n \in DOMAIN chain : ChainSpares(n)
         /\ \A n \in DOMAIN effects : EffectSpares(n)
BY DEF Steady, MirrorFollows, SomePathLives, ChainSpares, EffectSpares

\* Steps that leave the queues as they are, and every path that lives alive.
LEMMA StillLives ==
  ASSUME Steady, UNCHANGED <<effects, gitMode>>, Authoritative,
         \A p \in GitPaths : Lives(p) => Lives(p)',
         chain' = chain \/ chain' = Append(chain, SyncJob)
         \/ (chain # <<>> /\ chain[1] = SyncJob /\ chain' = Tail(chain))
  PROVE  SomePathLives'
<1>1. chain \in Seq(FilesJobs \cup {SyncJob})
  BY QueuesAreSequences
<1>2. \E p \in GitPaths : Lives(p)'
  BY LivesParts
<1>3. ASSUME NEW n \in DOMAIN chain' PROVE ChainSpares(n)'
  <2>1. CASE chain' = chain
    BY <1>3, <2>1, LivesParts DEF ChainSpares
  <2>2. CASE chain' = Append(chain, SyncJob)
    <3>1. CASE n \in DOMAIN chain
      <4>1. \A m \in 1 .. n : chain'[m] = chain[m] /\ chain'[n] = chain[n]
        BY <1>1, <2>2, <3>1
      <4>2. chain'[n] = chain[n]
        BY <1>1, <2>2, <3>1
      <4> QED BY <3>1, <4>1, <4>2, LivesParts DEF ChainSpares
    <3>2. CASE n \notin DOMAIN chain
      <4>1. chain'[n] = SyncJob
        BY <1>1, <1>3, <2>2, <3>2
      <4> QED BY <4>1 DEF ChainSpares
    <3> QED BY <3>1, <3>2
  <2>3. CASE chain # <<>> /\ chain[1] = SyncJob /\ chain' = Tail(chain)
    <3>1. n + 1 \in DOMAIN chain /\ chain'[n] = chain[n + 1]
      BY <1>1, <1>3, <2>3
    <3>2. \A m \in 1 .. n : chain'[m] = chain[m + 1] /\ m + 1 \in 1 .. n + 1
      BY <1>1, <1>3, <2>3
    <3>3. ChainSpares(n + 1)
      BY <3>1, LivesParts
    <3> QED BY <3>1, <3>2, <3>3 DEF ChainSpares
  <2> QED BY <2>1, <2>2, <2>3
<1>4. ASSUME NEW p \in GitPaths PROVE WrittenIn(chain', p) => WrittenIn(chain, p)
  BY <1>1, MoreJobs, RestIsWritten, SyncJobsWriteNothing
<1>5. ASSUME NEW n \in DOMAIN effects' PROVE EffectSpares(n)'
  BY <1>4, <1>5, LivesParts DEF EffectSpares
<1> QED BY <1>2, <1>3, <1>5 DEF SomePathLives, ChainSpares, EffectSpares

LEMMA EditLeavesSome ==
  ASSUME Steady, Authoritative, NEW touched, EditsSomething(touched),
         \/ \E p \in touched : pages'[p] # Nothing
         \/ \E p \in GitPaths \ touched : Lives(p) /\ ~ Pending(p)
  PROVE  SomePathLives'
<1> DEFINE job == FilesJob([p \in touched |-> pages'[p]])
<1>1. /\ effects' = Append(effects, job) /\ effects \in Seq(FilesJobs) /\ chain' = chain
      /\ UNCHANGED <<head, base, remote>>
  BY EditQueues DEF Steady, repository, upstream
<1>2. DOMAIN job.files = touched /\ \A p \in touched : job.files[p] = pages'[p]
  BY DEF FilesJob
<1>3. \A p : p \notin touched => ~ Writes(job, p)
  BY <1>2 DEF Writes
<1> HIDE DEF job
<1>4. \A p : Lives(p)' <=> Lives(p)
  BY <1>1 DEF Lives
<1>5. ASSUME NEW n \in DOMAIN effects' PROVE EffectSpares(n)'
  <2>1. CASE n \in DOMAIN effects
    <3>1. effects'[n] = effects[n] /\ \A m \in 1 .. n : effects'[m] = effects[m]
      BY <1>1, <2>1
    <3> QED BY <1>1, <1>4, <2>1, <3>1, LivesParts DEF EffectSpares
  <2>2. CASE n \notin DOMAIN effects
    <3>1. n = Len(effects) + 1 /\ effects'[n] = job
      BY <1>1, <1>5, <2>2
    <3>2. CASE \E p \in touched : pages'[p] # Nothing
      BY <1>2, <3>1, <3>2 DEF EffectSpares
    <3>3. CASE \E p \in GitPaths \ touched : Lives(p) /\ ~ Pending(p)
      <4>1. PICK p \in GitPaths \ touched : Lives(p) /\ ~ Pending(p)
        BY <3>3
      <4>2. ~ WrittenIn(effects, p) /\ ~ WrittenIn(chain, p) /\ ~ Writes(job, p)
        BY <1>3, <4>1, PendingIsWritten
      <4>3. ASSUME NEW m \in 1 .. n PROVE ~ Writes(effects'[m], p)
        <5>1. CASE m \in DOMAIN effects
          <6>1. effects'[m] = effects[m]
            BY <1>1, <5>1
          <6> QED BY <4>2, <5>1, <6>1 DEF WrittenIn
        <5>2. CASE m \notin DOMAIN effects
          <6>1. effects'[m] = job
            BY <1>1, <3>1, <4>3, <5>2
          <6> QED BY <4>2, <6>1
        <5> QED BY <5>1, <5>2
      <4> QED BY <1>1, <1>4, <4>1, <4>2, <4>3 DEF EffectSpares
    <3> QED BY <3>2, <3>3
  <2> QED BY <2>1, <2>2
<1>6. ASSUME NEW n \in DOMAIN chain' PROVE ChainSpares(n)'
  BY <1>1, <1>4, <1>6, LivesParts DEF ChainSpares
<1>7. \E p \in GitPaths : Lives(p)'
  BY <1>4, LivesParts
<1> QED BY <1>5, <1>6, <1>7 DEF SomePathLives, ChainSpares, EffectSpares

LEMMA MirrorLeavesSome ==
  ASSUME Steady, Authoritative, Mirror
  PROVE  SomePathLives'
<1>1. /\ effects # <<>> /\ effects' = Tail(effects) /\ chain' = Append(chain, effects[1])
      /\ UNCHANGED <<head, base, remote>>
  BY MirrorMeans DEF Mirror, repository, upstream
<1>2. effects \in Seq(FilesJobs) /\ chain \in Seq(FilesJobs \cup {SyncJob})
  BY QueuesAreSequences
<1>3. \A p : Lives(p)' <=> Lives(p)
  BY <1>1 DEF Lives
<1>4. ASSUME NEW p PROVE WrittenIn(chain', p) <=> WrittenIn(chain, p) \/ Writes(effects[1], p)
  BY <1>1, <1>2, MoreJobs
<1>5. ASSUME NEW n \in DOMAIN chain' PROVE ChainSpares(n)'
  <2>1. CASE n \in DOMAIN chain
    <3>1. chain'[n] = chain[n] /\ \A m \in 1 .. n : chain'[m] = chain[m]
      BY <1>1, <1>2, <2>1
    <3> QED BY <1>3, <2>1, <3>1, LivesParts DEF ChainSpares
  <2>2. CASE n \notin DOMAIN chain
    <3>1. n = Len(chain) + 1 /\ chain'[n] = effects[1] /\ 1 \in DOMAIN effects
      BY <1>1, <1>2, <1>5, <2>2
    <3>2. EffectSpares(1)
      BY <3>1, LivesParts
    <3>3. ASSUME NEW p, ~ WrittenIn(chain, p), ~ Writes(effects[1], p),
                 NEW m \in 1 .. n
          PROVE  ~ Writes(chain'[m], p)
      <4>1. ~ WrittenIn(chain', p)
        BY <1>4, <3>3
      <4>2. m \in DOMAIN chain'
        BY <1>1, <1>2, <3>1, <3>3
      <4> QED BY <4>1, <4>2 DEF WrittenIn
    <3>4. 1 \in 1 .. 1
      OBVIOUS
    <3> QED BY <1>3, <3>1, <3>2, <3>3, <3>4 DEF ChainSpares, EffectSpares
  <2> QED BY <2>1, <2>2
<1>6. ASSUME NEW n \in DOMAIN effects' PROVE EffectSpares(n)'
  <2>1. n + 1 \in DOMAIN effects /\ effects'[n] = effects[n + 1] /\ 1 \in 1 .. n + 1
    BY <1>1, <1>2, <1>6
  <2>2. \A m \in 1 .. n : effects'[m] = effects[m + 1] /\ m + 1 \in 1 .. n + 1
    BY <1>1, <1>2, <1>6
  <2>3. EffectSpares(n + 1)
    BY <2>1, LivesParts
  <2>4. CASE \E p \in DOMAIN effects[n + 1].files : effects[n + 1].files[p] # Nothing
    BY <2>1, <2>4 DEF EffectSpares
  <2>5. CASE \E p \in GitPaths : /\ Lives(p) /\ ~ WrittenIn(chain, p)
                                 /\ \A m \in 1 .. n + 1 : ~ Writes(effects[m], p)
    <3>1. PICK p \in GitPaths : /\ Lives(p) /\ ~ WrittenIn(chain, p)
                                /\ \A m \in 1 .. n + 1 : ~ Writes(effects[m], p)
      BY <2>5
    <3>2. ~ WrittenIn(chain', p) /\ \A m \in 1 .. n : ~ Writes(effects'[m], p)
      BY <1>4, <2>1, <2>2, <3>1
    <3> QED BY <1>3, <3>1, <3>2 DEF EffectSpares
  <2> QED BY <2>3, <2>4, <2>5 DEF EffectSpares
<1>7. \E p \in GitPaths : Lives(p)'
  BY <1>3, LivesParts
<1> QED BY <1>5, <1>6, <1>7 DEF SomePathLives, ChainSpares, EffectSpares

LEMMA CommitLeavesSome ==
  ASSUME Steady, Authoritative, CommitFiles
  PROVE  SomePathLives'
<1>1. /\ chain # <<>> /\ effects' = effects /\ UNCHANGED <<base, remote>>
      /\ chain' = Tail(chain) \/ chain' = Append(Tail(chain), SyncJob)
  BY CommitMeans DEF CommitFiles, upstream
<1>2. chain \in Seq(FilesJobs \cup {SyncJob}) /\ chain[1] # SyncJob /\ 1 \in DOMAIN chain
  BY <1>1, CommitMeans, QueuesAreSequences, JobsAreTold
<1>3. ASSUME NEW p \in GitPaths, Lives(p), ~ Writes(chain[1], p) PROVE Lives(p)'
  <2>1. head'[p] = head[p]
    BY <1>2, <1>3, CommitMeans DEF Writes
  <2> QED BY <1>1, <1>3, <2>1 DEF Lives
<1>4. \E p \in GitPaths : Lives(p)'
  <2>1. ChainSpares(1)
    BY <1>2, LivesParts
  <2>2. CASE \E p \in DOMAIN chain[1].files : chain[1].files[p] # Nothing
    <3>1. PICK p \in DOMAIN chain[1].files : chain[1].files[p] # Nothing
      BY <2>2
    <3>2. p \in GitPaths
      BY <3>1, CommitMeans, JobsAreTold
    <3>3. remote[p] = base[p]
      BY <3>1, <3>2, CommitMeans, AloneParts DEF AloneAt
    <3>4. head'[p] # Nothing
      BY <3>1, <3>2, CommitMeans
    <3> QED BY <1>1, <3>2, <3>3, <3>4 DEF Lives
  <2>3. CASE \E p \in GitPaths : Lives(p) /\ \A m \in 1 .. 1 : ~ Writes(chain[m], p)
    BY <1>3, <2>3
  <2> QED BY <1>2, <2>1, <2>2, <2>3 DEF ChainSpares
<1>5. ASSUME NEW n \in DOMAIN chain' PROVE ChainSpares(n)'
  <2>1. SUFFICES ASSUME chain'[n] # SyncJob PROVE ChainSpares(n)'
    BY DEF ChainSpares
  <2>2. n + 1 \in DOMAIN chain /\ chain'[n] = chain[n + 1]
    BY <1>1, <1>2, <2>1, RestOfChain
  <2>3. ASSUME NEW m \in 1 .. n
        PROVE  m + 1 \in 1 .. n + 1 /\ (chain'[m] # SyncJob => chain'[m] = chain[m + 1])
    <3>1. chain' \in Seq(FilesJobs \cup {SyncJob})
      BY <1>1, <1>2, RestOfChain
    <3>2. m \in DOMAIN chain'
      BY <2>3, <3>1
    <3> QED BY <1>1, <1>2, <2>3, <3>1, <3>2, RestOfChain
  <2>4. ChainSpares(n + 1) /\ 1 \in 1 .. n + 1
    BY <1>2, <2>2, LivesParts
  <2>5. CASE \E p \in DOMAIN chain[n + 1].files : chain[n + 1].files[p] # Nothing
    BY <2>2, <2>5 DEF ChainSpares
  <2>6. CASE \E p \in GitPaths : Lives(p) /\ \A m \in 1 .. n + 1 : ~ Writes(chain[m], p)
    <3>1. PICK p \in GitPaths : Lives(p) /\ \A m \in 1 .. n + 1 : ~ Writes(chain[m], p)
      BY <2>6
    <3>2. Lives(p)'
      BY <1>3, <2>4, <3>1
    <3>3. \A m \in 1 .. n : ~ Writes(chain'[m], p)
      BY <2>3, <3>1, SyncJobsWriteNothing
    <3> QED BY <3>1, <3>2, <3>3 DEF ChainSpares
  <2> QED BY <2>1, <2>2, <2>4, <2>5, <2>6 DEF ChainSpares
<1>6. ASSUME NEW n \in DOMAIN effects' PROVE EffectSpares(n)'
  <2>1. ASSUME NEW p \in GitPaths, Lives(p), ~ WrittenIn(chain, p)
        PROVE  Lives(p)' /\ ~ WrittenIn(chain', p)
    <3>1. ~ Writes(chain[1], p)
      BY <1>2, <2>1 DEF WrittenIn
    <3>2. ~ WrittenIn(chain', p)
      BY <1>1, <1>2, <2>1, RestIsWritten
    <3> QED BY <1>3, <2>1, <3>1, <3>2
  <2> QED BY <1>1, <1>6, <2>1, LivesParts DEF EffectSpares
<1> QED BY <1>4, <1>5, <1>6 DEF SomePathLives, ChainSpares, EffectSpares

\* Somebody deletes a file: one that nobody has touched is left, after each job.
LEMMA ExternalLeavesSome ==
  ASSUME Steady, Authoritative, NEW p \in GitPaths, NEW deletes \in BOOLEAN,
         ExternalCommit(p, deletes)
  PROVE  SomePathLives'
<1>1. UNCHANGED <<effects, chain, gitMode, head, base>> /\ remote \in Tree
  BY AloneParts DEF ExternalCommit, repository
<1>2. CASE ~ deletes
  <2>1. remote'[p] # Nothing /\ \A q \in GitPaths : q # p => remote'[q] = remote[q]
    <3>1. edits \in Nat
      BY PartsOfShape, GitAssumption DEF Steady
    <3> QED BY <1>1, <1>2, <3>1 DEF ExternalCommit, Tree, Nothing
  <2>2. \A q \in GitPaths : Lives(q) => Lives(q)'
    BY <1>1, <2>1 DEF Lives
  <2> QED BY <1>1, <2>2, StillLives
<1>3. CASE deletes
  <2>1. PICK q \in GitPaths \ {p} : ~ Pending(q) /\ Nothing \notin {pages[q], head[q], remote[q]}
    BY <1>3, SteadySteps DEF ExternalCommit, MayDelete
  <2>2. remote'[q] = remote[q]
    BY <1>1, <2>1 DEF ExternalCommit, Tree
  <2>3. Lives(q)'
    BY <1>1, <2>1, <2>2 DEF Lives
  <2>4. ~ WrittenIn(effects, q) /\ ~ WrittenIn(chain, q)
    BY <2>1, PendingIsWritten
  <2>5. ASSUME NEW n \in DOMAIN chain PROVE \A m \in 1 .. n : ~ Writes(chain[m], q)
    <3>1. 1 .. n \subseteq DOMAIN chain
      BY <2>5, QueuesAreSequences
    <3> QED BY <2>4, <3>1 DEF WrittenIn
  <2>6. ASSUME NEW n \in DOMAIN effects PROVE \A m \in 1 .. n : ~ Writes(effects[m], q)
    <3>1. 1 .. n \subseteq DOMAIN effects
      BY <2>6, QueuesAreSequences
    <3> QED BY <2>4, <3>1 DEF WrittenIn
  <2> QED BY <1>1, <2>1, <2>3, <2>4, <2>5, <2>6 DEF SomePathLives
<1> QED BY <1>2, <1>3

LEMMA PullKeepsAlive ==
  ASSUME Steady, Pull \/ Push, NEW p \in GitPaths, Lives(p)
  PROVE  Lives(p)'
<1>1. CASE Pull
  <2>1. ~ behind => remote = base
    BY DEF Steady, MirrorFollows, RepositoryIsClean
  <2>2. base' = remote /\ remote' = remote /\ head' = IF behind THEN Merged ELSE head
    BY <1>1 DEF Pull
  <2> QED BY <2>1, <2>2 DEF Lives, Merged
<1>2. CASE Push
  BY <1>2 DEF Push, Lives, repository
<1> QED BY <1>1, <1>2

LEMMA EditsLeaveSome ==
  ASSUME Steady, Authoritative, NEW p \in GitPaths
  PROVE  /\ SavePage(p) \/ DeletePage(p) \/ RestorePage(p) => SomePathLives'
         /\ \A q \in GitPaths : MovePage(p, q) => SomePathLives'
<1>1. pages \in Tree /\ trash \in Tree /\ MirrorShape
  BY PartsOfShape DEF Steady
<1>2. ASSUME SavePage(p) PROVE SomePathLives'
  <2>1. pages'[p] # Nothing
    <3>1. edits \in Nat
      BY PartsOfShape, GitAssumption DEF Steady
    <3> QED BY <1>1, <1>2, <3>1 DEF SavePage, MayEdit, Tree, Nothing
  <2> QED BY <1>1, <1>2, <2>1, EditsEdit, EditLeavesSome
<1>3. ASSUME DeletePage(p) PROVE SomePathLives'
  <2>1. PICK q \in GitPaths \ {p} : ~ Pending(q) /\ Nothing \notin {pages[q], head[q], remote[q]}
    BY <1>3, SteadySteps DEF DeletePage, MayDelete
  <2>2. Lives(q)
    BY <2>1 DEF Lives
  <2> QED BY <1>1, <1>3, <2>1, <2>2, EditsEdit, EditLeavesSome
<1>4. ASSUME RestorePage(p) PROVE SomePathLives'
  <2>1. pages'[p] # Nothing
    BY <1>1, <1>4 DEF RestorePage, Tree
  <2> QED BY <1>1, <1>4, <2>1, EditsEdit, EditLeavesSome
<1>5. ASSUME NEW q \in GitPaths, MovePage(p, q) PROVE SomePathLives'
  <2>1. pages'[q] # Nothing
    BY <1>1, <1>5 DEF MovePage, Tree
  <2>2. EditsSomething({p, q})
    BY <1>1, <1>5, EditsEdit
  <2> QED BY <2>1, <2>2, EditLeavesSome
<1> QED BY <1>2, <1>3, <1>4, <1>5

LEMMA SomePathStays ==
  ASSUME Steady, GitNext
  PROVE  SomePathLives'
<1>1. Authoritative' <=> Authoritative
  BY DEF GitNext, Syncing, bounds, Authoritative, SavePage, DeletePage,
         RestorePage, MovePage, Written, Mirror, CommitFiles, FailCommit, RequestSync, Pull,
         PullConflicts, FailPull, ListChanges, Import, FinishImport, Push, FailPush, FailImport,
         ExternalCommit, Restart
<1>2. SUFFICES ASSUME Authoritative PROVE SomePathLives'
  BY <1>1 DEF SomePathLives
<1>3. ASSUME NEW p \in GitPaths, SavePage(p) \/ DeletePage(p) \/ RestorePage(p)
                                 \/ \E q \in GitPaths : MovePage(p, q)
      PROVE  SomePathLives'
  BY <1>2, <1>3, EditsLeaveSome
<1>4. CASE Mirror
  BY <1>2, <1>4, MirrorLeavesSome
<1>5. CASE CommitFiles
  BY <1>2, <1>5, CommitLeavesSome
<1>6. ASSUME NEW p \in GitPaths, NEW deletes \in BOOLEAN, ExternalCommit(p, deletes)
      PROVE  SomePathLives'
  BY <1>2, <1>6, ExternalLeavesSome
<1>7. CASE \/ RequestSync \/ FailPull \/ ListChanges \/ FinishImport \/ FailPush
           \/ \E p \in GitPaths : Import(p)
  <2>1. UNCHANGED <<head, base, remote, effects, gitMode>>
    BY <1>7 DEF RequestSync, FailPull, ListChanges, FinishImport, FailPush, Import, repository,
                upstream, bounds
  <2>2. \A p \in GitPaths : Lives(p) => Lives(p)'
    BY <2>1 DEF Lives
  <2>3. \/ chain' = chain \/ chain' = Append(chain, SyncJob)
        \/ chain # <<>> /\ chain[1] = SyncJob /\ chain' = Tail(chain)
    BY <1>7, PullTakesSync DEF RequestSync, ListChanges, FinishImport, FailPush, Import
  <2> QED BY <1>2, <2>1, <2>2, <2>3, StillLives
<1>8. CASE Pull
  <2>1. chain # <<>> /\ chain[1] = SyncJob /\ chain' = Tail(chain)
    BY <1>8, PullTakesSync
  <2>2. UNCHANGED <<effects, gitMode>>
    BY <1>8 DEF Pull, bounds
  <2> QED BY <1>2, <1>8, <2>1, <2>2, PullKeepsAlive, StillLives
<1>9. CASE Push
  <2>1. UNCHANGED <<effects, chain, gitMode>>
    BY <1>9 DEF Push, bounds
  <2> QED BY <1>2, <1>9, <2>1, PullKeepsAlive, StillLives
<1>10. CASE Restart
  <2>1. effects' = <<>> /\ chain' = <<SyncJob>> /\ UNCHANGED <<head, base, remote>>
    BY <1>2, <1>10 DEF Restart, repository, upstream
  <2>2. \E p \in GitPaths : Lives(p)'
    BY <1>2, <2>1, LivesParts DEF Lives
  <2>3. DOMAIN <<SyncJob>> = {1} /\ <<SyncJob>>[1] = SyncJob
    OBVIOUS
  <2> QED BY <2>1, <2>2, <2>3 DEF SomePathLives
<1> QED BY <1>3, <1>4, <1>5, <1>6, <1>7, <1>8, <1>9, <1>10, SteadySteps DEF GitNext, Syncing

-----------------------------------------------------------------------------
(* The mirror is the wiki.                                                 *)

MirrorKeeps == MirrorShape /\ (Orderly /\ MirrorIsSpared => MirrorFollows)

LEMMA MirrorStarts ==
  ASSUME GitInit, Orderly, MirrorIsSpared
  PROVE  MirrorFollows
<1> USE DEF GitInit
<1>1. RepositoryIsClean
  BY DEF RepositoryIsClean
<1>2. effects = <<>> /\ \A n \in DOMAIN chain : chain[n] = SyncJob
  OBVIOUS
<1>3. \A p : ~ WrittenIn(effects, p) /\ ~ WrittenIn(chain, p)
  BY <1>2, SyncJobsWriteNothing DEF WrittenIn
<1>4. WritesAreAlone
  BY <1>2, <1>3, PendingIsWritten DEF WritesAreAlone
<1>5. MarkerIsHead
  BY DEF MarkerIsHead, Idle, Boot, NoTree
<1>6. ImportsCoverAll
  BY DEF ImportsCoverAll, Idle
<1>7. LastWriteIsThePage
  BY <1>3, LastIsWritten DEF LastWriteIsThePage
<1>8. PagesAreMirrored
  BY DEF PagesAreMirrored, Owed, Idle
<1>9. SomePathLives
  <2>1. ASSUME Authoritative PROVE \E p \in GitPaths : Lives(p)
    <3>1. remote # EmptyTree /\ remote \in [GitPaths -> {Nothing, 1}]
      BY <2>1 DEF Orderly
    <3>2. PICK p \in GitPaths : remote[p] # Nothing
      BY <3>1 DEF EmptyTree
    <3> QED BY <3>2 DEF Lives
  <2> QED BY <1>2, <2>1 DEF SomePathLives
<1> QED BY <1>1, <1>4, <1>5, <1>6, <1>7, <1>8, <1>9 DEF MirrorFollows

LEMMA GitModeStays ==
  ASSUME [GitNext]_gitVars
  PROVE  gitMode' = gitMode
BY DEF GitNext, Syncing, bounds, SavePage, DeletePage, RestorePage, MovePage, Written, Mirror,
       CommitFiles, FailCommit, RequestSync, Pull, PullConflicts, FailPull, ListChanges, Import,
       FinishImport, Push, FailPush, FailImport, ExternalCommit, Restart, gitVars

LEMMA MirrorGoesOn ==
  ASSUME MirrorKeeps, [GitNext]_gitVars
  PROVE  MirrorKeeps'
<1>1. MirrorShape'
  BY ShapeIsKept DEF MirrorKeeps
<1>2. ASSUME Orderly', MirrorIsSpared' PROVE MirrorFollows'
  <2>1. Steady
    BY <1>2, GitModeStays DEF MirrorKeeps, Steady, Orderly, MirrorIsSpared, Authoritative
  <2>2. CASE UNCHANGED gitVars
    BY <2>1, <2>2
       DEF Steady, gitVars, MirrorFollows, RepositoryIsClean, WritesAreAlone, MarkerIsHead,
           ImportsCoverAll, LastWriteIsThePage, PagesAreMirrored, SomePathLives, Pending, Owed,
           Mirrored, Lives, Authoritative
  <2>3. CASE GitNext
    BY <2>1, <2>3, CleanRepository, WaitingIsAlone, MarkerFollowsHead, ImportsGoOn,
       LastWritesStay, PagesStayMirrored, SomePathStays DEF MirrorFollows
  <2> QED BY <2>2, <2>3
<1> QED BY <1>1, <1>2 DEF MirrorKeeps

LEMMA QuietMirror ==
  ASSUME MirrorKeeps, Orderly
  PROVE  GitInv
<1>1. GitTypeOK
  BY DEF MirrorKeeps, MirrorShape
<1>2. ASSUME GitQuiet, MirrorIsSpared, NEW p \in GitPaths PROVE Mirrored(p)
  <2>1. PagesAreMirrored
    BY <1>2 DEF MirrorKeeps, MirrorFollows
  <2>2. ~ Owed(p)
    BY <1>2 DEF GitQuiet, Owed, Idle
  <2>3. ~ Pending(p)
    BY <1>2 DEF GitQuiet, Pending
  <2> QED BY <2>1, <2>2, <2>3 DEF PagesAreMirrored
<1> QED BY <1>1, <1>2 DEF GitInv, QuietMirrorIsTheWiki

\* "DB -> Git" and "Git -> DB" (git.ts): whenever nothing waits, every page that is not in
\* the trash is its file, and every file its page, through failing pulls and pushes,
\* commits of others and, where the repository is the source of truth, restarts.
THEOREM TheMirrorIsTheWiki ==
  ASSUME \A mode \in GitModes :
           /\ {"reorder", "early", "emptied"} \cap mode = {}
           /\ "restart" \in mode => "authoritative" \in mode
  PROVE  GitSpec => []GitInv
<1>1. GitInit => MirrorKeeps
  BY ShapeStarts, MirrorStarts DEF MirrorKeeps
<1>2. MirrorKeeps /\ [GitNext]_gitVars => MirrorKeeps'
  BY MirrorGoesOn
<1>3. MirrorKeeps => Orderly
  BY DEF MirrorKeeps, MirrorShape, GitTypeOK, Orderly, Authoritative
<1>4. MirrorKeeps => GitInv
  BY <1>3, QuietMirror
<1> QED BY <1>1, <1>2, <1>4, PTL DEF GitSpec

-----------------------------------------------------------------------------
(* An import brings only what the marker has not seen.                     *)

ImportsTheUnseen ==
  sync.at = "import" =>
    /\ sync.all => marker = NoTree \/ (Authoritative /\ ~ synchronized)
    /\ ~ sync.all => \A p \in sync.paths : marker[p] # head[p]

LEMMA UnseenStays ==
  ASSUME MirrorShape, ImportsTheUnseen, [GitNext]_gitVars
  PROVE  ImportsTheUnseen'
<1>1. gitMode' = gitMode
  BY GitModeStays
<1>2. ASSUME UNCHANGED <<sync, marker, head, synchronized>> PROVE ImportsTheUnseen'
  BY <1>1, <1>2 DEF ImportsTheUnseen, Authoritative
<1>3. ASSUME NEW p \in GitPaths, SavePage(p) \/ DeletePage(p) \/ RestorePage(p)
                                 \/ \E q \in GitPaths : MovePage(p, q)
      PROVE  ImportsTheUnseen'
  BY <1>2, <1>3 DEF SavePage, DeletePage, RestorePage, MovePage, Written, repository, server
<1>4. CASE UNCHANGED gitVars \/ Mirror \/ FailCommit \/ RequestSync
  BY <1>2, <1>4 DEF gitVars, Mirror, FailCommit, RequestSync, repository, server
<1>5. CASE CommitFiles \/ Pull \/ PullConflicts \/ FailPull \/ FinishImport \/ FailImport
           \/ Push \/ FailPush \/ Restart
  <2>1. sync'.at # "import"
    BY <1>5 DEF CommitFiles, Pull, PullConflicts, FailPull, PullFailed, FinishImport, FailImport,
                Push, FailPush, Restart, Throw, Done, Idle, server
  <2> QED BY <2>1 DEF ImportsTheUnseen
<1>6. CASE ListChanges
  <2>1. sync' = [at |-> "import", paths |-> Changes, all |-> ListsAll]
        /\ UNCHANGED <<marker, head, synchronized>>
    BY <1>6 DEF ListChanges, repository
  <2> QED BY <1>1, <2>1 DEF ImportsTheUnseen, Changes, ListsAll, Authoritative
<1>7. ASSUME NEW p \in GitPaths, Import(p) PROVE ImportsTheUnseen'
  <2>1. sync \in [at : {"import"}, paths : SUBSET GitPaths, all : BOOLEAN]
    BY <1>7, PartsOfShape DEF Import, SyncStates, Idle
  <2>2. sync'.paths \subseteq sync.paths /\ sync'.all = sync.all /\ sync.at = "import"
        /\ UNCHANGED <<marker, head, synchronized>>
    BY <1>7, <2>1 DEF Import, repository
  <2> QED BY <1>1, <2>2 DEF ImportsTheUnseen, Authoritative
<1>8. ASSUME NEW p \in GitPaths, NEW deletes \in BOOLEAN, ExternalCommit(p, deletes)
      PROVE  ImportsTheUnseen'
  BY <1>2, <1>8 DEF ExternalCommit, repository, server
<1> QED BY <1>3, <1>4, <1>5, <1>6, <1>7, <1>8 DEF GitNext, Syncing

\* "only externally-authored commits are pulled into the DB" (git.ts): whatever fails or
\* conflicts, an import writes only what the marker has not seen, or a boot's first.
THEOREM OwnCommitsStay == GitInit /\ [][GitNext]_gitVars => OwnCommitsAreNotImported
<1> DEFINE Seen == MirrorShape /\ ImportsTheUnseen
           Brought == \A p \in GitPaths :
             sync.at = "import" /\ sync'.at = "import" /\ sync' # sync /\ pages'[p] # pages[p]
               => marker = NoTree \/ marker[p] # head[p] \/ ~ synchronized
<1>1. GitInit => Seen
  <2>1. SUFFICES ASSUME GitInit PROVE Seen
    OBVIOUS
  <2>2. ImportsTheUnseen
    BY <2>1 DEF GitInit, ImportsTheUnseen, Idle
  <2> QED BY <2>1, <2>2, ShapeStarts
<1>2. Seen /\ [GitNext]_gitVars => Seen'
  BY ShapeIsKept, UnseenStays
<1>3. Seen /\ [GitNext]_gitVars => [Brought]_gitVars
  <2>1. SUFFICES ASSUME Seen, GitNext PROVE Brought
    OBVIOUS
  <2>2. SUFFICES ASSUME NEW p \in GitPaths, sync.at = "import", sync'.at = "import",
                        sync' # sync, pages'[p] # pages[p]
                 PROVE  marker = NoTree \/ marker[p] # head[p] \/ ~ synchronized
    OBVIOUS
  <2>3. PICK q \in GitPaths : Import(q)
    <3>1. ASSUME NEW q \in GitPaths, SavePage(q) \/ DeletePage(q) \/ RestorePage(q)
                                     \/ \E r \in GitPaths : MovePage(q, r)
          PROVE  FALSE
      BY <2>2, <3>1 DEF SavePage, DeletePage, RestorePage, MovePage, Written, server
    <3>2. ~ (Mirror \/ FailCommit \/ RequestSync)
      BY <2>2 DEF Mirror, FailCommit, RequestSync, server
    <3>3. ~ (CommitFiles \/ ListChanges)
      BY <2>2 DEF CommitFiles, ListChanges, server
    <3>4. ~ (\/ Pull \/ PullConflicts \/ FailPull \/ FinishImport
             \/ FailImport \/ Push \/ FailPush \/ Restart)
      BY <2>2 DEF Pull, PullConflicts, FailPull, PullFailed, FinishImport, FailImport, Push,
                  FailPush, Restart, Throw, Done, Idle
    <3>5. ASSUME NEW q \in GitPaths, NEW deletes \in BOOLEAN, ExternalCommit(q, deletes) PROVE FALSE
      BY <2>2, <3>5 DEF ExternalCommit, server
    <3> QED BY <2>1, <3>1, <3>2, <3>3, <3>4, <3>5 DEF GitNext, Syncing
  <2>4. p = q
    BY <2>1, <2>2, <2>3, PartsOfShape DEF Import, wiki, Tree
  <2>5. p \in sync.paths /\ sync \in [at : {"import"}, paths : SUBSET GitPaths, all : BOOLEAN]
    BY <2>1, <2>3, <2>4, PartsOfShape DEF Import, SyncStates, Idle
  <2> QED BY <2>1, <2>2, <2>5 DEF ImportsTheUnseen
<1>4. (GitInit /\ [][GitNext]_gitVars) => [][Brought]_gitVars
  BY <1>1, <1>2, <1>3, PTL
<1> QED BY <1>4 DEF OwnCommitsAreNotImported

-----------------------------------------------------------------------------
(* The automation rules.                                                   *)

LEMMA LeastNumber ==
  ASSUME NEW T, T \subseteq Nat, T # {}
  PROVE  \E n \in T : \A m \in T : ~ (m < n)
<1>1. \E n \in T : \A m \in T : ~ (<<m, n>> \in OpToRel(<, Nat))
  BY NatLessThanWellFounded, WFMin
<1> QED BY <1>1 DEF OpToRel

\* The results of the first k rules, one after the other.
IsTrace(trace, k) ==
  /\ trace[0] = AsFound
  /\ \A n \in 1 .. k : trace[n] = AfterRule(trace[n - 1], asked.rules[n])

IsOutcome(outcome) ==
  outcome = [n \in 0 .. Len(asked.rules) |->
               IF n = 0 THEN AsFound ELSE AfterRule(outcome[n - 1], asked.rules[n])]

LEMMA OutcomeIsTrace ==
  ASSUME Len(asked.rules) \in Nat, NEW outcome, IsOutcome(outcome)
  PROVE  IsTrace(outcome, Len(asked.rules))
<1>1. 0 \in 0 .. Len(asked.rules) /\ 1 .. Len(asked.rules) \subseteq 0 .. Len(asked.rules)
  OBVIOUS
<1>2. \A n \in 1 .. Len(asked.rules) : n # 0
  OBVIOUS
<1> QED BY <1>1, <1>2 DEF IsOutcome, IsTrace

LEMMA TracesAgree ==
  ASSUME NEW k \in Nat, NEW f, NEW g, IsTrace(f, k), IsTrace(g, k)
  PROVE  f[k] = g[k]
<1> DEFINE Differ == {n \in 0 .. k : f[n] # g[n]}
<1>1. SUFFICES ASSUME Differ # {} PROVE FALSE
  OBVIOUS
<1>2. Differ \subseteq Nat
  OBVIOUS
<1>3. PICK n \in Differ : \A m \in Differ : ~ (m < n)
  BY <1>1, <1>2, LeastNumber
<1>4. n # 0
  BY <1>3 DEF IsTrace
<1>5. n \in 1 .. k /\ n - 1 \in 0 .. k /\ n - 1 < n
  BY <1>3, <1>4
<1>6. f[n - 1] = g[n - 1]
  BY <1>3, <1>5
<1>7. f[n] = g[n]
  BY <1>5, <1>6 DEF IsTrace
<1> QED BY <1>3, <1>7

\* What the rules mean is what a trace of them ends with, or stops with.
LEMMA MeaningOfTrace ==
  ASSUME Len(asked.rules) \in Nat, NEW k \in 0 .. Len(asked.rules), NEW trace, IsTrace(trace, k),
         k = Len(asked.rules) \/ trace[k].stopped
  PROVE  Meaning = trace[k]
<1> DEFINE N == Len(asked.rules)
           whole == [n \in 0 .. N |-> IF n <= k THEN trace[n] ELSE trace[k]]
           chosen == CHOOSE outcome : IsOutcome(outcome)
<1>1. ASSUME NEW n \in 0 .. N
      PROVE  whole[n] = IF n = 0 THEN AsFound ELSE AfterRule(whole[n - 1], asked.rules[n])
  <2>1. CASE n = 0
    BY <2>1 DEF IsTrace
  <2>2. CASE n \in 1 .. k
    BY <2>2 DEF IsTrace
  <2>3. CASE n > k
    <3>1. whole[n] = trace[k] /\ whole[n - 1] = trace[k]
      BY <2>3
    <3>2. trace[k].stopped
      BY <2>3
    <3>3. AfterRule(trace[k], asked.rules[n]) = trace[k]
      BY <3>2 DEF AfterRule
    <3>4. n # 0
      BY <2>3
    <3> QED BY <3>1, <3>3, <3>4
  <2> QED BY <2>1, <2>2, <2>3
<1>2. IsOutcome(whole)
  BY <1>1 DEF IsOutcome
<1>3. IsOutcome(chosen)
  BY <1>2
<1>4. IsTrace(chosen, N) /\ IsTrace(whole, N)
  BY <1>2, <1>3, OutcomeIsTrace
<1>5. chosen[N] = whole[N]
  BY <1>4, TracesAgree
<1>6. whole[N] = trace[k]
  OBVIOUS
<1>7. Meaning = chosen[N]
  BY DEF Meaning, IsOutcome
<1> QED BY <1>5, <1>6, <1>7

\* What has been made of the page so far.
SoFar(row, stopped) == [row |-> row, sent |-> data, fired |-> extraEvents, stopped |-> stopped]

\* The first k rules have been applied, the others are still to do.
RulesApplied(k) ==
  /\ todo = SubSeq(asked.rules, k + 1, Len(asked.rules))
  /\ \E trace : IsTrace(trace, k) /\ trace[k] = SoFar(current, FALSE)

\* One of them has stopped the others.
RulesStopped(k) ==
  /\ todo = <<>>
  /\ \E trace : IsTrace(trace, k) /\ trace[k] = SoFar(current, TRUE)

\* Of the next, which matches, the labels are on the page.
LabelsApplied(k) ==
  /\ todo = SubSeq(asked.rules, k + 1, Len(asked.rules)) /\ todo # <<>>
  /\ \E trace, row :
       /\ IsTrace(trace, k) /\ trace[k] = SoFar(row, FALSE)
       /\ ConditionsMatch(Head(todo), row) /\ current = Updated(row, Head(todo))

PublicationGoesOn(Configs) ==
  /\ rules \in Seq(Configs) /\ asked.rules \in Seq(Configs)
  /\ current = page
  /\ turn = "begin" => data = page /\ extraEvents = <<>>
  /\ turn = "rule" => \E k \in 0 .. Len(asked.rules) : RulesApplied(k) \/ RulesStopped(k)
  /\ turn = "move" => \E k \in 0 .. Len(asked.rules) : LabelsApplied(k)
  /\ RulesAreAppliedAsFound

\* A trace and the result of one more rule are a trace.
LEMMA TraceGoesOn ==
  ASSUME NEW k \in Nat, NEW trace, IsTrace(trace, k)
  PROVE  \E longer : /\ IsTrace(longer, k + 1)
                     /\ longer[k + 1] = AfterRule(trace[k], asked.rules[k + 1])
<1> DEFINE longer == [n \in 0 .. k + 1 |->
                        IF n <= k THEN trace[n] ELSE AfterRule(trace[k], asked.rules[k + 1])]
<1>1. longer[0] = AsFound
  BY DEF IsTrace
<1>2. longer[k + 1] = AfterRule(trace[k], asked.rules[k + 1])
  OBVIOUS
<1>3. ASSUME NEW n \in 1 .. k + 1 PROVE longer[n] = AfterRule(longer[n - 1], asked.rules[n])
  <2>1. CASE n \in 1 .. k
    <3>1. longer[n] = trace[n] /\ longer[n - 1] = trace[n - 1]
      BY <2>1
    <3> QED BY <2>1, <3>1 DEF IsTrace
  <2>2. CASE n = k + 1
    <3>1. longer[n - 1] = trace[k]
      BY <2>2
    <3> QED BY <1>2, <2>2, <3>1
  <2> QED BY <2>1, <2>2
<1> QED BY <1>1, <1>2, <1>3 DEF IsTrace

\* The rules that are left.
LEMMA RulesLeft ==
  ASSUME NEW S, NEW line \in Seq(S), NEW k \in 0 .. Len(line), NEW left,
         left = SubSeq(line, k + 1, Len(line))
  PROVE  /\ left = <<>> => k = Len(line)
         /\ left # <<>> => /\ k + 1 \in 0 .. Len(line) /\ Head(left) = line[k + 1]
                           /\ Tail(left) = SubSeq(line, k + 1 + 1, Len(line))
<1>1. left \in Seq(S) /\ Len(left) = Len(line) - k
  OBVIOUS
<1>2. left = <<>> => k = Len(line)
  <2>1. Len(<<>>) = 0 /\ Len(line) \in Nat
    OBVIOUS
  <2> QED BY <1>1, <2>1
<1>3. ASSUME left # <<>>
      PROVE  /\ k + 1 \in 0 .. Len(line) /\ Head(left) = line[k + 1]
             /\ Tail(left) = SubSeq(line, k + 1 + 1, Len(line))
  <2>1. Len(left) # 0
    BY <1>1, <1>3
  <2>2. k + 1 \in 0 .. Len(line)
    BY <1>1, <2>1
  <2>3. Head(left) = line[k + 1]
    BY <1>1, <1>3, <2>2
  <2>4. /\ Tail(left) \in Seq(S) /\ SubSeq(line, k + 1 + 1, Len(line)) \in Seq(S)
        /\ Len(Tail(left)) = Len(line) - k - 1
        /\ Len(SubSeq(line, k + 1 + 1, Len(line))) = Len(line) - k - 1
    BY <1>1, <1>3, <2>1, <2>2
  <2>5. ASSUME NEW n \in 1 .. Len(line) - k - 1
        PROVE  Tail(left)[n] = SubSeq(line, k + 1 + 1, Len(line))[n]
    <3>1. Tail(left)[n] = left[n + 1]
      BY <1>1, <1>3, <2>4, <2>5
    <3>2. left[n + 1] = line[k + 1 + n]
      BY <1>1, <2>5
    <3>3. SubSeq(line, k + 1 + 1, Len(line))[n] = line[k + 1 + n]
      BY <2>5
    <3> QED BY <3>1, <3>2, <3>3
  <2>6. Tail(left) = SubSeq(line, k + 1 + 1, Len(line))
    BY <2>4, <2>5, SeqEqual
  <2> QED BY <2>2, <2>3, <2>6
<1> QED BY <1>2, <1>3

LEMMA StartOfRules ==
  ASSUME NEW Configs, AutoInit(Configs)
  PROVE  PublicationGoesOn(Configs)
<1>1. PICK n \in 0 .. MaxRules : rules \in [1 .. n -> Configs]
  BY DEF AutoInit, Short
<1>2. rules \in Seq(Configs)
  BY <1>1
<1> QED BY <1>2 DEF AutoInit, PublicationGoesOn, RulesAreAppliedAsFound

LEMMA RulesStaySequences ==
  ASSUME NEW S, NEW line \in Seq(S), NEW item \in S
  PROVE  /\ \A n \in 1 .. Len(line) + 1 : InsertAt(line, n, item) \in Seq(S)
         /\ \A n \in DOMAIN line : /\ RemoveAt(line, n) \in Seq(S)
                                   /\ Len(RemoveAt(line, n)) = Len(line) - 1
<1>1. ASSUME NEW n \in 1 .. Len(line) + 1 PROVE InsertAt(line, n, item) \in Seq(S)
  <2>1. SubSeq(line, 1, n - 1) \in Seq(S) /\ SubSeq(line, n, Len(line)) \in Seq(S)
    OBVIOUS
  <2>2. <<item>> \in Seq(S)
    OBVIOUS
  <2> QED BY <2>1, <2>2 DEF InsertAt
<1>2. ASSUME NEW n \in DOMAIN line
      PROVE  RemoveAt(line, n) \in Seq(S) /\ Len(RemoveAt(line, n)) = Len(line) - 1
  <2>1. /\ SubSeq(line, 1, n - 1) \in Seq(S) /\ Len(SubSeq(line, 1, n - 1)) = n - 1
        /\ SubSeq(line, n + 1, Len(line)) \in Seq(S)
        /\ Len(SubSeq(line, n + 1, Len(line))) = Len(line) - n
    OBVIOUS
  <2>2. ASSUME NEW a \in Seq(S), NEW b \in Seq(S)
        PROVE  a \o b \in Seq(S) /\ Len(a \o b) = Len(a) + Len(b)
    OBVIOUS
  <2>3. /\ RemoveAt(line, n) \in Seq(S)
        /\ Len(RemoveAt(line, n)) = n - 1 + (Len(line) - n)
    BY <2>1, <2>2 DEF RemoveAt
  <2> QED BY <2>3
<1> QED BY <1>1, <1>2

\* While the publication goes on, the traces stay what they are.
LEMMA TracesStay ==
  ASSUME UNCHANGED <<asked, taken>>, NEW k, NEW trace
  PROVE  IsTrace(trace, k)' <=> IsTrace(trace, k)
BY DEF IsTrace, AsFound, AfterRule, RuleResult, Moved, Updated, ConditionsMatch

\* Nothing but the administrator's rules changes.
LEMMA OnlyRulesChange ==
  ASSUME NEW Configs, PublicationGoesOn(Configs), rules' \in Seq(Configs),
         UNCHANGED <<page, taken, todo, current, data, extraEvents, turn, asked>>
  PROVE  PublicationGoesOn(Configs)'
<1>1. \A k, trace : IsTrace(trace, k)' <=> IsTrace(trace, k)
  BY DEF IsTrace, AsFound, AfterRule, RuleResult, Moved, Updated, ConditionsMatch
<1>2. \A row, stopped : SoFar(row, stopped)' = SoFar(row, stopped)
  BY DEF SoFar
<1>3. ASSUME NEW k
      PROVE  /\ RulesApplied(k)' <=> RulesApplied(k)
             /\ RulesStopped(k)' <=> RulesStopped(k)
             /\ LabelsApplied(k)' <=> LabelsApplied(k)
  <2>1. RulesApplied(k)' <=> RulesApplied(k)
    BY <1>1, <1>2 DEF RulesApplied
  <2>2. RulesStopped(k)' <=> RulesStopped(k)
    BY <1>1, <1>2 DEF RulesStopped
  <2>3. LabelsApplied(k)' <=> LabelsApplied(k)
    BY <1>1, <1>2 DEF LabelsApplied, ConditionsMatch, Updated
  <2> QED BY <2>1, <2>2, <2>3
<1>4. Meaning' = Meaning
  BY DEF Meaning, AsFound, AfterRule, RuleResult, Moved, Updated, ConditionsMatch
<1> QED BY <1>3, <1>4 DEF PublicationGoesOn, RulesAreAppliedAsFound

LEMMA AdministratorsGoOn ==
  ASSUME NEW Configs, PublicationGoesOn(Configs),
         \/ \E config \in Configs :
              CreateRule(config) \/ \E n \in 1 .. MaxRules : UpdateRule(n, config)
         \/ \E n \in 1 .. MaxRules : DeleteRule(n)
  PROVE  PublicationGoesOn(Configs)'
<1>1. rules \in Seq(Configs)
  BY DEF PublicationGoesOn
<1>2. ASSUME NEW config \in Configs, CreateRule(config) PROVE PublicationGoesOn(Configs)'
  <2>1. rules' \in Seq(Configs)
    BY <1>1, <1>2, RulesStaySequences DEF CreateRule
  <2> QED BY <1>2, <2>1, OnlyRulesChange DEF CreateRule
<1>3. ASSUME NEW config \in Configs, NEW n \in 1 .. MaxRules, UpdateRule(n, config)
      PROVE  PublicationGoesOn(Configs)'
  <2>1. n \in DOMAIN rules /\ RemoveAt(rules, n) \in Seq(Configs)
        /\ Len(RemoveAt(rules, n)) = Len(rules) - 1
    BY <1>1, <1>3, RulesStaySequences DEF UpdateRule
  <2>2. PICK place \in DOMAIN rules : rules' = InsertAt(RemoveAt(rules, n), place, config)
    BY <1>3 DEF UpdateRule
  <2>3. place \in 1 .. Len(RemoveAt(rules, n)) + 1
    BY <1>1, <2>1, <2>2
  <2>4. rules' \in Seq(Configs)
    BY <2>1, <2>2, <2>3, RulesStaySequences
  <2> QED BY <1>3, <2>4, OnlyRulesChange DEF UpdateRule
<1>4. ASSUME NEW n \in 1 .. MaxRules, DeleteRule(n) PROVE PublicationGoesOn(Configs)'
  <2>1. n \in DOMAIN rules
    BY <1>4 DEF DeleteRule
  <2>2. rules[n] \in Configs
    BY <1>1, <2>1
  <2>3. rules' \in Seq(Configs)
    BY <1>1, <1>4, <2>1, <2>2, RulesStaySequences DEF DeleteRule
  <2> QED BY <1>4, <2>3, OnlyRulesChange DEF DeleteRule
<1> QED BY <1>2, <1>3, <1>4

LEMMA BeginsWithNothing ==
  ASSUME NEW Configs, PublicationGoesOn(Configs), Begin
  PROVE  PublicationGoesOn(Configs)'
<1>1. /\ todo' = rules /\ current' = page /\ asked' = [rules |-> rules, page |-> page]
      /\ turn' = "rule" /\ UNCHANGED <<rules, page, data, extraEvents>>
      /\ data = page /\ extraEvents = <<>> /\ rules \in Seq(Configs)
  BY DEF Begin, PublicationGoesOn
<1>2. PICK trace : trace = [n \in {0} |->
                              [row |-> page, sent |-> page, fired |-> <<>>, stopped |-> FALSE]]
  OBVIOUS
<1>3. IsTrace(trace, 0)' /\ trace[0] = SoFar(current, FALSE)'
  BY <1>1, <1>2 DEF IsTrace, AsFound, SoFar
<1>4. todo' = SubSeq(asked'.rules, 0 + 1, Len(asked'.rules))
  <2>1. SubSeq(rules, 1, Len(rules)) = rules
    BY <1>1, SeqEqual
  <2> QED BY <1>1, <2>1
<1>5. RulesApplied(0)'
  BY <1>3, <1>4 DEF RulesApplied
<1>6. 0 \in 0 .. Len(asked'.rules)
  BY <1>1
<1> QED BY <1>1, <1>5, <1>6 DEF PublicationGoesOn, RulesAreAppliedAsFound

\* The rule that comes next, after k of them.
LEMMA NextRule ==
  ASSUME NEW Configs, Configs \subseteq RuleConfigs, PublicationGoesOn(Configs),
         NEW k \in 0 .. Len(asked.rules), todo # <<>>,
         todo = SubSeq(asked.rules, k + 1, Len(asked.rules))
  PROVE  /\ k \in Nat /\ k + 1 \in 0 .. Len(asked.rules)
         /\ Head(todo) = asked.rules[k + 1] /\ Head(todo).stop \in BOOLEAN
         /\ Tail(todo) = SubSeq(asked.rules, k + 1 + 1, Len(asked.rules))
<1>1. asked.rules \in Seq(Configs)
  BY DEF PublicationGoesOn
<1>2. /\ k + 1 \in 0 .. Len(asked.rules) /\ Head(todo) = asked.rules[k + 1]
      /\ Tail(todo) = SubSeq(asked.rules, k + 1 + 1, Len(asked.rules))
  BY <1>1, RulesLeft
<1>3. k \in Nat /\ asked.rules[k + 1] \in Configs
  BY <1>1, <1>2
<1>4. asked.rules[k + 1].stop \in BOOLEAN
  BY <1>3 DEF RuleConfigs
<1> QED BY <1>2, <1>3, <1>4

LEMMA SkippedGoesOn ==
  ASSUME NEW Configs, Configs \subseteq RuleConfigs, PublicationGoesOn(Configs), SkipRule
  PROVE  PublicationGoesOn(Configs)'
<1>1. /\ turn = "rule" /\ todo # <<>>
      /\ ~ ConditionsMatch(Head(todo), current) /\ todo' = Tail(todo)
      /\ UNCHANGED <<rules, page, taken, current, data, extraEvents, turn, asked>>
  BY DEF SkipRule
<1>2. PICK k \in 0 .. Len(asked.rules) : RulesApplied(k)
  BY <1>1 DEF PublicationGoesOn, RulesStopped
<1>3. PICK trace : IsTrace(trace, k) /\ trace[k] = SoFar(current, FALSE)
  BY <1>2 DEF RulesApplied
<1>4. /\ k \in Nat /\ k + 1 \in 0 .. Len(asked.rules) /\ Head(todo) = asked.rules[k + 1]
      /\ Tail(todo) = SubSeq(asked.rules, k + 1 + 1, Len(asked.rules))
  BY <1>1, <1>2, NextRule DEF RulesApplied
<1>5. PICK longer : /\ IsTrace(longer, k + 1)
                    /\ longer[k + 1] = AfterRule(trace[k], asked.rules[k + 1])
  BY <1>3, <1>4, TraceGoesOn
<1>6. AfterRule(trace[k], asked.rules[k + 1]) = trace[k]
  BY <1>1, <1>3, <1>4 DEF AfterRule, SoFar
<1>7. IsTrace(longer, k + 1)' /\ SoFar(current, FALSE)' = SoFar(current, FALSE)
  BY <1>1, <1>5, TracesStay DEF SoFar
<1>8. RulesApplied(k + 1)'
  BY <1>1, <1>3, <1>4, <1>5, <1>6, <1>7 DEF RulesApplied
<1> QED BY <1>1, <1>4, <1>8 DEF PublicationGoesOn, RulesAreAppliedAsFound

LEMMA LabelledGoesOn ==
  ASSUME NEW Configs, PublicationGoesOn(Configs), ApplyUpdate
  PROVE  PublicationGoesOn(Configs)'
<1>1. /\ turn = "rule" /\ todo # <<>> /\ ConditionsMatch(Head(todo), current)
      /\ page' = Updated(current, Head(todo)) /\ current' = page' /\ turn' = "move"
      /\ UNCHANGED <<rules, taken, todo, data, extraEvents, asked>>
  BY DEF ApplyUpdate
<1>2. PICK k \in 0 .. Len(asked.rules) : RulesApplied(k)
  BY <1>1 DEF PublicationGoesOn, RulesStopped
<1>3. PICK trace : IsTrace(trace, k) /\ trace[k] = SoFar(current, FALSE)
  BY <1>2 DEF RulesApplied
<1>4. IsTrace(trace, k)'
  BY <1>1, <1>3, TracesStay
<1>5. PICK row : row = current
  OBVIOUS
<1>6. trace[k] = SoFar(row, FALSE)'
  BY <1>1, <1>3, <1>5 DEF SoFar
<1>7. ConditionsMatch(Head(todo), row)' /\ (current = Updated(row, Head(todo)))'
  BY <1>1, <1>5 DEF ConditionsMatch, Updated
<1>8. todo' = SubSeq(asked'.rules, k + 1, Len(asked'.rules)) /\ todo' # <<>>
  BY <1>1, <1>2 DEF RulesApplied
<1>9. LabelsApplied(k)'
  BY <1>4, <1>6, <1>7, <1>8 DEF LabelsApplied
<1> QED BY <1>1, <1>9 DEF PublicationGoesOn, RulesAreAppliedAsFound

LEMMA MovedGoesOn ==
  ASSUME NEW Configs, Configs \subseteq RuleConfigs, PublicationGoesOn(Configs), ApplyMove
  PROVE  PublicationGoesOn(Configs)'
<1>1. /\ turn = "move" /\ page' = Moved(current, Head(todo)) /\ current' = page' /\ data' = page'
      /\ extraEvents' = IF Head(todo).fire = NoValue THEN extraEvents
                        ELSE Append(extraEvents, [type |-> Head(todo).fire, data |-> data'])
      /\ todo' = IF Head(todo).stop THEN <<>> ELSE Tail(todo)
      /\ turn' = "rule" /\ UNCHANGED <<rules, taken, asked>>
  BY DEF ApplyMove
<1>2. PICK k \in 0 .. Len(asked.rules) : LabelsApplied(k)
  BY <1>1 DEF PublicationGoesOn
<1>3. PICK trace, row : /\ IsTrace(trace, k) /\ trace[k] = SoFar(row, FALSE)
                        /\ ConditionsMatch(Head(todo), row) /\ current = Updated(row, Head(todo))
  BY <1>2 DEF LabelsApplied
<1>4. /\ k \in Nat /\ k + 1 \in 0 .. Len(asked.rules) /\ Head(todo) = asked.rules[k + 1]
      /\ Head(todo).stop \in BOOLEAN
      /\ Tail(todo) = SubSeq(asked.rules, k + 1 + 1, Len(asked.rules))
  BY <1>2, NextRule DEF LabelsApplied
<1>5. PICK longer : /\ IsTrace(longer, k + 1)
                    /\ longer[k + 1] = AfterRule(trace[k], asked.rules[k + 1])
  BY <1>3, <1>4, TraceGoesOn
<1>6. AfterRule(trace[k], Head(todo)) =
        [row |-> current', sent |-> data', stopped |-> Head(todo).stop, fired |-> extraEvents']
  BY <1>1, <1>3 DEF AfterRule, SoFar, RuleResult
<1>7. IsTrace(longer, k + 1)'
  BY <1>1, <1>5, TracesStay
<1>8. CASE Head(todo).stop
  <2>1. longer[k + 1] = SoFar(current, TRUE)'
    BY <1>4, <1>5, <1>6, <1>8 DEF SoFar
  <2>2. RulesStopped(k + 1)'
    BY <1>1, <1>7, <1>8, <2>1 DEF RulesStopped
  <2> QED BY <1>1, <1>4, <2>2 DEF PublicationGoesOn, RulesAreAppliedAsFound
<1>9. CASE ~ Head(todo).stop
  <2>1. longer[k + 1] = SoFar(current, FALSE)'
    BY <1>4, <1>5, <1>6, <1>9 DEF SoFar
  <2>2. RulesApplied(k + 1)'
    BY <1>1, <1>4, <1>7, <1>9, <2>1 DEF RulesApplied
  <2> QED BY <1>1, <1>4, <2>2 DEF PublicationGoesOn, RulesAreAppliedAsFound
<1> QED BY <1>8, <1>9

LEMMA SentIsMeant ==
  ASSUME NEW Configs, PublicationGoesOn(Configs), SendPayload
  PROVE  PublicationGoesOn(Configs)'
<1>1. /\ turn = "rule" /\ todo = <<>> /\ turn' = "end"
      /\ UNCHANGED <<rules, page, taken, current, data, extraEvents, asked>>
  BY DEF SendPayload
<1>2. asked.rules \in Seq(Configs) /\ current = page
  BY DEF PublicationGoesOn
<1>3. PICK k \in 0 .. Len(asked.rules) : RulesApplied(k) \/ RulesStopped(k)
  BY <1>1 DEF PublicationGoesOn
<1>4. PICK trace, stopped : /\ IsTrace(trace, k) /\ trace[k] = SoFar(current, stopped)
                            /\ stopped = TRUE \/ k = Len(asked.rules)
  <2>1. RulesApplied(k) => k = Len(asked.rules)
    BY <1>1, <1>2, RulesLeft DEF RulesApplied
  <2> QED BY <1>3, <2>1 DEF RulesApplied, RulesStopped
<1>5. Meaning = SoFar(current, stopped)
  <2>1. Len(asked.rules) \in Nat
    BY <1>2
  <2>2. k = Len(asked.rules) \/ trace[k].stopped
    BY <1>4 DEF SoFar
  <2> QED BY <1>4, <2>1, <2>2, MeaningOfTrace
<1>6. Meaning' = Meaning
  BY <1>1 DEF Meaning, AsFound, AfterRule, RuleResult, Moved, Updated, ConditionsMatch
<1>7. RulesAreAppliedAsFound'
  BY <1>1, <1>2, <1>5, <1>6 DEF RulesAreAppliedAsFound, SoFar
<1> QED BY <1>1, <1>7 DEF PublicationGoesOn

\* What is sent, and what is left of the page, is what the rules mean that were enabled when
\* the publication began (webhooks/automation.ts), however administrators change them.
THEOREM RulesApplyAsFound ==
  ASSUME NEW CONSTANT Configs, Configs \subseteq RuleConfigs
  PROVE  AutoInit(Configs) /\ [][AutoNext(Configs)]_autoVars => []RulesAreAppliedAsFound
<1>1. AutoInit(Configs) => PublicationGoesOn(Configs)
  BY StartOfRules
<1>2. PublicationGoesOn(Configs) /\ [AutoNext(Configs)]_autoVars => PublicationGoesOn(Configs)'
  <2>1. SUFFICES ASSUME PublicationGoesOn(Configs), [AutoNext(Configs)]_autoVars
                 PROVE  PublicationGoesOn(Configs)'
    OBVIOUS
  <2>2. CASE UNCHANGED autoVars
    <3>1. rules' \in Seq(Configs)
      BY <2>1, <2>2 DEF autoVars, PublicationGoesOn
    <3> QED BY <2>1, <2>2, <3>1, OnlyRulesChange DEF autoVars
  <2>3. CASE AutoNext(Configs)
    BY <2>1, <2>3, AdministratorsGoOn, BeginsWithNothing, SkippedGoesOn, LabelledGoesOn,
       MovedGoesOn, SentIsMeant DEF AutoNext
  <2> QED BY <2>1, <2>2, <2>3
<1>3. PublicationGoesOn(Configs) => RulesAreAppliedAsFound
  BY DEF PublicationGoesOn
<1> QED BY <1>1, <1>2, <1>3, PTL

=============================================================================
