----------------------------- MODULE SearchOutbox -----------------------------
(***************************************************************************)
(* Elasticsearch indexing: the outbox that page transactions fill          *)
(* (db/repositories/pages.ts), the worker that drains it                   *)
(* (search/elasticsearch/worker.ts over db/repositories/search-outbox.ts)  *)
(* and the rebuild of the index (search/elasticsearch/search.ts).          *)
(*                                                                         *)
(* A page is what loadPageSource returns: a version while it is active, or *)
(* nothing.  The index is a service of its own: a request may fail, also   *)
(* after it took effect.                                                   *)
(***************************************************************************)
EXTENDS Naturals, FiniteSets

CONSTANTS
  Pages,
  NoDocument,   \* of a page that is not active
  OutboxModes,  \* sets of the things that may go wrong, see OutboxActs
  MaxWrites,    \* bound on the writes of one page
  BatchSize,    \* DEFAULT_BATCH_SIZE
  MaxAttempts,  \* DEFAULT_MAX_ATTEMPTS
  MaxStops      \* bound on how often the worker loses its batch

\* "fail": a request to Elasticsearch, or the database, fails.  "stop": the
\* server stops, or a failure cannot even be recorded.  "restore": an archived
\* page comes back.  "rebuild": the index is rebuilt while pages are at rest.
\* "busyRebuild": pages are written meanwhile.  A stop between a comment and its
\* outbox entry, which loses the entry, is left out.
OutboxActs == {"fail", "stop", "restore", "rebuild", "busyRebuild"}

ASSUME OutboxAssumption ==
  /\ OutboxModes \subseteq SUBSET OutboxActs
  /\ MaxWrites \in Nat /\ MaxStops \in Nat
  /\ BatchSize \in Nat /\ MaxAttempts \in Nat \ {0}
  /\ NoDocument \notin Nat

VARIABLES
  outboxMode, \* what may go wrong in this behaviour
  source,     \* what a page's document must be made of
  writes,     \* how often a page was written: the last version
  outbox,     \* the search_outbox table
  lastEntry,  \* its last id
  index,      \* the version behind the alias, for every page
  batch,      \* the entries that the worker has claimed and not dealt with
  step,       \* where it is with the first of them
  commented,  \* pages with a comment that is not in the outbox yet
  rebuilt,    \* what a rebuild has read and not swapped in
  stops

outboxVars == <<outboxMode, source, writes, outbox, lastEntry, index, batch, step, commented,
          rebuilt, stops>>

Documents == (1 .. MaxWrites) \cup {NoDocument}

EntryIds == Nat \ {0}

Entry == [id : EntryIds, page : Pages, operation : {"index", "delete"},
          attempts : 0 .. MaxAttempts, due : BOOLEAN]

Step ==
       [at : {"start", "applied"}]
  \cup [at : {"loaded"}, document : Documents]

Start == [at |-> "start"]

OutboxInit ==
  /\ outboxMode \in OutboxModes
  /\ source = [p \in Pages |-> NoDocument]
  /\ writes = [p \in Pages |-> 0]
  /\ outbox = {}
  /\ lastEntry = 0
  /\ index = [p \in Pages |-> NoDocument]
  /\ batch = {}
  /\ step = Start
  /\ commented = {}
  /\ rebuilt = NoDocument
  /\ stops = 0

-----------------------------------------------------------------------------
(* Writes.                                                                 *)

\* enqueueSearchOutbox, enqueue.
Enqueue(p, operation) ==
  /\ lastEntry' = lastEntry + 1
  /\ outbox' = outbox \cup {[id |-> lastEntry + 1, page |-> p, operation |-> operation,
                             attempts |-> 0, due |-> TRUE]}

MayWrite(p) ==
  /\ writes[p] < MaxWrites
  /\ rebuilt # NoDocument => "busyRebuild" \in outboxMode

\* create, writeExisting, move and restore: the row and its entry commit together.
SavePage(p) ==
  /\ MayWrite(p)
  /\ source[p] # NoDocument \/ writes[p] = 0 \/ "restore" \in outboxMode
  /\ writes' = [writes EXCEPT ![p] = @ + 1]
  /\ source' = [source EXCEPT ![p] = writes'[p]]
  /\ Enqueue(p, "index")
  /\ UNCHANGED <<outboxMode, index, batch, step, commented, rebuilt, stops>>

\* archive, remove and purge, the last of a page that is archived as well.
DropPage(p) ==
  /\ MayWrite(p)
  /\ writes[p] > 0
  /\ writes' = [writes EXCEPT ![p] = @ + 1]
  /\ source' = [source EXCEPT ![p] = NoDocument]
  /\ Enqueue(p, "delete")
  /\ UNCHANGED <<outboxMode, index, batch, step, commented, rebuilt, stops>>

\* A comment is part of the page's document.  It commits first ...
Comment(p) ==
  /\ MayWrite(p)
  /\ source[p] # NoDocument
  /\ p \notin commented
  /\ writes' = [writes EXCEPT ![p] = @ + 1]
  /\ source' = [source EXCEPT ![p] = writes'[p]]
  /\ commented' = commented \cup {p}
  /\ UNCHANGED <<outboxMode, outbox, lastEntry, index, batch, step, rebuilt, stops>>

\* ... and indexPageById enqueues then.
CommentEnqueue(p) ==
  /\ p \in commented
  /\ commented' = commented \ {p}
  /\ Enqueue(p, "index")
  /\ UNCHANGED <<outboxMode, source, writes, index, batch, step, rebuilt, stops>>

-----------------------------------------------------------------------------
(* The worker.  One tick at a time, one entry at a time.                   *)

\* Faulty: the last attempt is not made.
ClaimableButOne == {e \in outbox : e.due /\ e.attempts + 1 < MaxAttempts}

Claimable == {e \in outbox : e.due /\ e.attempts < MaxAttempts}

\* claimDue: the first entries by id.
Claim ==
  /\ batch = {}
  /\ Claimable # {}
  /\ batch' = {e \in Claimable : Cardinality({f \in Claimable : f.id < e.id}) < BatchSize}
  /\ UNCHANGED <<outboxMode, source, writes, outbox, lastEntry, index, step, commented, rebuilt,
                 stops>>

Current == CHOOSE e \in batch : \A f \in batch : e.id <= f.id

\* loadPageSource.
LoadSource ==
  /\ batch # {}
  /\ step.at = "start" /\ Current.operation = "index"
  /\ step' = [at |-> "loaded", document |-> source[Current.page]]
  /\ UNCHANGED <<outboxMode, source, writes, outbox, lastEntry, index, batch, commented, rebuilt,
                 stops>>

\* indexDocument, removeDocument.
Apply ==
  /\ batch # {}
  /\ \/ /\ step.at = "start" /\ Current.operation = "delete"
        /\ index' = [index EXCEPT ![Current.page] = NoDocument]
     \/ /\ step.at = "loaded"
        /\ index' = [index EXCEPT ![Current.page] = step.document]
  /\ step' = [at |-> "applied"]
  /\ UNCHANGED <<outboxMode, source, writes, outbox, lastEntry, batch, commented, rebuilt, stops>>

\* The rows that are left when the current entry is deleted.
Completed == {e \in outbox : e.id # Current.id}

Complete ==
  /\ batch # {}
  /\ step.at = "applied"
  /\ outbox' = Completed
  /\ batch' = batch \ {Current}
  /\ step' = Start
  /\ UNCHANGED <<outboxMode, source, writes, lastEntry, index, commented, rebuilt, stops>>

Failed(e) == [e EXCEPT !.attempts = @ + 1, !.due = FALSE]

\* Faulty: an entry that has used up its attempts is deleted.
FailEntryForGood ==
  /\ "fail" \in outboxMode
  /\ batch # {}
  /\ outbox' = {IF e.id = Current.id THEN Failed(e) ELSE e :
                 e \in {f \in outbox : f.id # Current.id \/ f.attempts + 1 < MaxAttempts}}
  /\ batch' = batch \ {Current}
  /\ step' = Start
  /\ UNCHANGED <<outboxMode, source, writes, lastEntry, index, commented, rebuilt, stops>>

\* The load, the request or the deletion of the row fails, the request perhaps
\* after it took effect: the entry waits for its backoff.
FailEntry ==
  /\ "fail" \in outboxMode
  /\ batch # {}
  /\ outbox' = {IF e.id = Current.id THEN Failed(e) ELSE e : e \in outbox}
  /\ batch' = batch \ {Current}
  /\ step' = Start
  /\ UNCHANGED <<outboxMode, source, writes, lastEntry, index, commented, rebuilt, stops>>

\* The time of an entry comes again.
Backoff ==
  /\ \E e \in outbox :
       /\ ~ e.due /\ e.attempts < MaxAttempts
       /\ outbox' = (outbox \ {e}) \cup {[e EXCEPT !.due = TRUE]}
  /\ UNCHANGED <<outboxMode, source, writes, lastEntry, index, batch, step, commented, rebuilt,
                 stops>>

\* The process stops, or outbox.fail itself fails: the claimed entries stay.
LoseBatch ==
  /\ "stop" \in outboxMode
  /\ stops < MaxStops
  /\ batch # {}
  /\ batch' = {}
  /\ step' = Start
  /\ stops' = stops + 1
  /\ UNCHANGED <<outboxMode, source, writes, outbox, lastEntry, index, commented, rebuilt>>

-----------------------------------------------------------------------------
(* rebuild: reads every page, fills a new index and swaps the alias.       *)

RebuildRead ==
  /\ outboxMode \cap {"rebuild", "busyRebuild"} # {}
  /\ rebuilt = NoDocument
  /\ rebuilt' = source
  /\ UNCHANGED <<outboxMode, source, writes, outbox, lastEntry, index, batch, step, commented, stops>>

RebuildSwap ==
  /\ rebuilt # NoDocument
  /\ index' = rebuilt
  /\ rebuilt' = NoDocument
  /\ UNCHANGED <<outboxMode, source, writes, outbox, lastEntry, batch, step, commented, stops>>

-----------------------------------------------------------------------------
Worker == Claim \/ LoadSource \/ Apply \/ Complete

OutboxNext ==
  \/ \E p \in Pages :
       SavePage(p) \/ DropPage(p) \/ Comment(p) \/ CommentEnqueue(p)
  \/ Worker \/ FailEntry \/ Backoff \/ LoseBatch
  \/ RebuildRead \/ RebuildSwap

\* The worker's timer ticks, its requests end, time passes, and a comment that was
\* saved is enqueued.
OutboxFairness ==
  /\ WF_outboxVars(Worker) /\ WF_outboxVars(Backoff)
  /\ \A p \in Pages : WF_outboxVars(CommentEnqueue(p))

OutboxSpec == OutboxInit /\ [][OutboxNext]_outboxVars /\ OutboxFairness

-----------------------------------------------------------------------------
\* The table and the worker keep their shapes: ids are unique, and what is
\* claimed is in the table.
OutboxTypeOK ==
  /\ outboxMode \in OutboxModes
  /\ source \in [Pages -> Documents]
  /\ writes \in [Pages -> 0 .. MaxWrites]
  /\ outbox \subseteq Entry
  /\ \A e, f \in outbox : e.id = f.id => e = f
  /\ lastEntry \in Nat
  /\ \A e \in outbox : e.id <= lastEntry
  /\ index \in [Pages -> Documents]
  /\ batch \subseteq outbox
  /\ step \in Step
  /\ commented \subseteq Pages
  /\ rebuilt \in [Pages -> Documents] \cup {NoDocument}
  /\ stops \in 0 .. MaxStops

Stale(p) == index[p] # source[p]

Work(p) == {e \in outbox : e.page = p}

\* A page whose document is out of date is never forgotten: an entry says so, be
\* it a dead letter, or its comment is about to make one.
StalePagesHaveWork == \A p \in Pages : Stale(p) => Work(p) # {} \/ p \in commented

\* "a page save is never lost when Elasticsearch is unavailable; the worker simply
\* catches up when it recovers" (worker.ts): the index gets there, unless an
\* entry of the page has used up its attempts.
IndexCatchesUp ==
  \A p \in Pages :
    Stale(p) ~> ~ Stale(p) \/ \E e \in Work(p) : e.attempts = MaxAttempts

\* The outbox keeps its shape, and whatever the index lacks has an entry.
OutboxInv == OutboxTypeOK /\ StalePagesHaveWork

=============================================================================
