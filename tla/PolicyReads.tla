----------------------------- MODULE PolicyReads -----------------------------
(***************************************************************************)
(* What the permission policy promises its readers, without the cache.     *)
(*                                                                         *)
(* The policy is what the page rules say.  It is represented by the number *)
(* of changes of the rules that are in it.  A request that asks for the    *)
(* policy is judged by one that holds every change that had been answered  *)
(* when it asked, or it fails.                                             *)
(***************************************************************************)
EXTENDS Naturals

CONSTANTS
  Readers,     \* requests that need the policy
  None,
  Failed,      \* the answer of a request that could not read the rules
  MaxChanges   \* bound on the changes of the rules

Versions == 0 .. MaxChanges

VARIABLES
  version,   \* the changes committed so far
  answered,  \* the last of them that its author knows of
  asked,     \* for every request under way, what was answered when it asked
  judged     \* the policy that the last reader was judged by

vars == <<version, answered, asked, judged>>

Init ==
  /\ version = 0
  /\ answered = 0
  /\ asked = [r \in Readers |-> None]
  /\ judged = None

Change ==
  /\ version < MaxChanges
  /\ version' = version + 1
  /\ UNCHANGED <<answered, asked, judged>>

Acknowledge ==
  /\ answered' \in answered .. version
  /\ UNCHANGED <<version, asked, judged>>

Ask(r) ==
  /\ asked[r] = None
  /\ asked' = [asked EXCEPT ![r] = answered]
  /\ UNCHANGED <<version, answered, judged>>

Judge(r) ==
  /\ asked[r] # None
  /\ judged' \in (asked[r] .. version) \cup {Failed}
  /\ asked' = [asked EXCEPT ![r] = None]
  /\ UNCHANGED <<version, answered>>

Next == Change \/ Acknowledge \/ \E r \in Readers : Ask(r) \/ Judge(r)

Spec == Init /\ [][Next]_vars

=============================================================================
