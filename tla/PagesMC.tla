------------------------------- MODULE PagesMC -------------------------------
(***************************************************************************)
(* PageStore for TLC, in three profiles: two requests at a time; one       *)
(* request at a time over three paths and one text, for redirects and      *)
(* links; and one request at a time over two paths and two texts, with the *)
(* index written after the commit, for the history of the contents.        *)
(*                                                                         *)
(* The concurrent profile uses the variables of PageStore, the other two   *)
(* those declared here; what a profile does not use stays as it began.     *)
(***************************************************************************)
EXTENDS PageStore, TLC

CONSTANTS a, b, c, d, t1, t2, t3, i1, i2, p0, p1, p2

VARIABLES profile, pages1, revisions1, redirects1, index1, clock1, req1

aloneVars == <<pages1, revisions1, redirects1, index1, clock1, req1>>

pagesVars == <<profile, vars, aloneVars>>

\* One page, linking to path a.
LinkDraft == {[text |-> t1, link |-> a]}

\* Bodies without links.
ThreeTexts == [text : {t1, t2, t3}, link : {None}]

OneText == {[text |-> t1, link |-> None]}

Interchangeable == Permutations(Ids) \cup Permutations(Procs) \cup Permutations({c, d})

\* A page without links, and one that links to path a.
TwoDrafts == {[text |-> t1, link |-> None], [text |-> t2, link |-> a]}

OnPaths ==
  INSTANCE PageStore WITH
    Paths <- {a, c, d}, Drafts <- LinkDraft, Procs <- {p0},
    MaxClock <- 0, MaxRevisions <- 3,
    pages <- pages1, revisions <- revisions1, redirects <- redirects1,
    index <- index1, clock <- clock1, req <- req1

OnHistory ==
  INSTANCE PageStore WITH
    Texts <- {t1, t2}, Drafts <- TwoDrafts, Procs <- {p0},
    IndexMode <- "afterCommit", MaxClock <- 1, MaxRevisions <- 2,
    pages <- pages1, revisions <- revisions1, redirects <- redirects1,
    index <- index1, clock <- clock1, req <- req1

PagesInit ==
  /\ Init
  /\ \/ profile = "concurrent" /\ OnHistory!Init
     \/ profile = "paths" /\ OnPaths!Init
     \/ profile = "history" /\ OnHistory!Init

PagesNext ==
  /\ UNCHANGED profile
  /\ \/ profile = "concurrent" /\ Next /\ UNCHANGED aloneVars
     \/ profile = "paths" /\ OnPaths!Next /\ UNCHANGED vars
     \/ profile = "history" /\ OnHistory!Next /\ UNCHANGED vars

PagesSpec == PagesInit /\ [][PagesNext]_pagesVars

-----------------------------------------------------------------------------
\* One request at a time: a redirect leads to the path of a page that exists and is
\* not deleted.
RedirectsLeadAlone == profile = "paths" => OnPaths!RedirectsLeadToPages

\* Every path that led readers to a page before it is moved still leads to it, and the
\* links that reached it still do.
MovesKeepReadersAndLinks ==
  [][profile = "paths" => OnPaths!MoveKeepsReaders /\ OnPaths!MoveKeepsLinks]_pagesVars

\* A purge leaves no revision of the page, and no later request writes one; and the
\* index has caught up whenever no request is in flight.
TablesFollowPages ==
  profile = "history" => OnHistory!NoOrphanRevisions /\ OnHistory!QuiescentIndexMatchesPages

\* A content that a write replaces is among the page's revisions.
ContentRecordedAlone == [][profile = "history" => OnHistory!StepRecordsContent]_pagesVars

\* Archived and deleted pages keep their content and their path.
InactivePagesAreFrozen == [][profile = "history" => OnHistory!StepFreezesInactive]_pagesVars

=============================================================================
