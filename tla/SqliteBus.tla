------------------------------ MODULE SqliteBus ------------------------------
(***************************************************************************)
(* The event bus over a SQLite or libSQL database (realtime/bus.ts): like  *)
(* EventBus, but every call of it runs without an await, so the processes  *)
(* interleave only between whole calls.                                    *)
(*                                                                         *)
(* Several listeners of one process come and go; the first of them sets    *)
(* where its polls begin.                                                  *)
(***************************************************************************)
EXTENDS Naturals, FiniteSets, FiniteSetsExt, SequencesExt

CONSTANTS
  Processes,      \* server processes on one database
  Listeners,
  MaxEmits,       \* bound on the events
  MaxArrivals,    \* bound on subscriptions and restarts
  Limit,          \* rows that one poll reads
  StoredEvents    \* values of maxStoredEvents to choose from

VARIABLES
  maxStored,
  wikiEvents,   \* the rows: id and source; an event is named by its id
  emits,        \* the last id
  at,           \* the process that each listener listens to, or "nowhere"
  lastSeenId,
  ownDelivered,
  heard,        \* history: the rows of the events each listener was given, in order
  awaited,      \* history: events emitted elsewhere while it listened, not given yet
  arrivals

busVars == <<maxStored, wikiEvents, emits, at, lastSeenId, ownDelivered, heard, awaited,
             arrivals>>

BusInit ==
  /\ maxStored \in StoredEvents
  /\ wikiEvents = {} /\ emits = 0
  /\ at = [l \in Listeners |-> "nowhere"]
  /\ lastSeenId = [i \in Processes |-> 0]
  /\ ownDelivered = [i \in Processes |-> {}]
  /\ heard = [l \in Listeners |-> <<>>]
  /\ awaited = [l \in Listeners |-> {}]
  /\ arrivals = 0

ListenersOf(i) == {l \in Listeners : at[l] = i}

MaxId(events) == Max({e.id : e \in events} \cup {0})

\* prune: the rows and the own deliveries that are too old.
Kept(events) == {e \in events : e.id + maxStored > MaxId(events)}
StillOwn(own, events) == {id \in own : id + maxStored > MaxId(events)}

\* deliver: to every listener of the process.
Deliver(i, given) ==
  /\ heard' = [l \in Listeners |-> IF at[l] = i THEN heard[l] \o given ELSE heard[l]]
  /\ awaited' = [l \in Listeners |->
       IF at[l] = i THEN awaited[l] \ {e.id : e \in ToSet(given)} ELSE awaited[l]]

\* emit: the row, the local listeners, and a pruning.
Emit(i) ==
  LET id == emits + 1
      row == [id |-> id, source |-> i]
      events == wikiEvents \cup {row}
  IN  /\ emits < MaxEmits /\ emits' = id
      /\ wikiEvents' = Kept(events)
      /\ ownDelivered' = [ownDelivered EXCEPT ![i] = StillOwn(@ \cup {id}, events)]
      /\ heard' = [l \in Listeners |-> IF at[l] = i THEN Append(heard[l], row) ELSE heard[l]]
      /\ awaited' = [l \in Listeners |->
           IF at[l] \in Processes \ {i} THEN awaited[l] \cup {id} ELSE awaited[l]]
      /\ UNCHANGED <<maxStored, at, lastSeenId, arrivals>>

\* Faulty: the poll reads on from the last id there is.
SeenAfterAll(i, read) == MaxId(wikiEvents)

\* The last row that the poll has read.
SeenAfter(i, read) == IF read = <<>> THEN lastSeenId[i] ELSE Last(read).id

\* Faulty: its own rows are skipped only while they are the newest.
ForeignToNew(i, read) ==
  SelectSeq(read, LAMBDA e : e.id \notin ownDelivered[i] \/ e.id < emits)

\* The rows that were not delivered when they were emitted.
Foreign(i, read) == SelectSeq(read, LAMBDA e : e.id \notin ownDelivered[i])

\* Faulty: the newest rows come first.
InOrderNewest(events) == SetToSortSeq(events, LAMBDA e, f : e.id > f.id)

\* The order of the ids.
InOrder(events) == SetToSortSeq(events, LAMBDA e, f : e.id < f.id)

\* poll: the next rows, then a pruning.
Poll(i) ==
  LET new == InOrder({e \in wikiEvents : e.id > lastSeenId[i]})
      read == SubSeq(new, 1, Min({Len(new), Limit}))
      own == ownDelivered[i] \ {e.id : e \in ToSet(read)}
  IN  /\ ListenersOf(i) # {}
      /\ read # <<>>
      /\ lastSeenId' = [lastSeenId EXCEPT ![i] = SeenAfter(i, read)]
      /\ Deliver(i, Foreign(i, read))
      /\ wikiEvents' = Kept(wikiEvents)
      /\ ownDelivered' = [ownDelivered EXCEPT ![i] = StillOwn(own, wikiEvents)]
      /\ UNCHANGED <<maxStored, emits, at, arrivals>>

\* The timer of prune.
Prune(i) ==
  /\ wikiEvents' = Kept(wikiEvents)
  /\ ownDelivered' = [ownDelivered EXCEPT ![i] = StillOwn(@, wikiEvents)]
  /\ UNCHANGED <<maxStored, emits, at, lastSeenId, heard, awaited, arrivals>>

\* The first listener's polls begin at the present.
StartsAt(i) == IF ListenersOf(i) = {} THEN MaxId(wikiEvents) ELSE lastSeenId[i]

\* A new connection is a new listener; the model uses the name of one that left.
Subscribe(i, l) ==
  /\ at[l] = "nowhere"
  /\ arrivals < MaxArrivals /\ arrivals' = arrivals + 1
  /\ lastSeenId' = [lastSeenId EXCEPT ![i] = StartsAt(i)]
  /\ at' = [at EXCEPT ![l] = i]
  /\ heard' = [heard EXCEPT ![l] = <<>>]
  /\ UNCHANGED <<maxStored, wikiEvents, emits, ownDelivered, awaited>>

Unsubscribe(l) ==
  /\ at[l] # "nowhere"
  /\ at' = [at EXCEPT ![l] = "nowhere"]
  /\ awaited' = [awaited EXCEPT ![l] = {}]
  /\ UNCHANGED <<maxStored, wikiEvents, emits, lastSeenId, ownDelivered, heard, arrivals>>

\* The process stops and starts, under the same name.
Restart(i) ==
  /\ arrivals < MaxArrivals /\ arrivals' = arrivals + 1
  /\ lastSeenId' = [lastSeenId EXCEPT ![i] = MaxId(wikiEvents)]
  /\ ownDelivered' = [ownDelivered EXCEPT ![i] = {}]
  /\ wikiEvents' = Kept(wikiEvents)
  /\ at' = [l \in Listeners |-> IF at[l] = i THEN "nowhere" ELSE at[l]]
  /\ awaited' = [l \in Listeners |-> IF at[l] = i THEN {} ELSE awaited[l]]
  /\ UNCHANGED <<maxStored, emits, heard>>

BusNext ==
  \/ \E i \in Processes :
       \/ Emit(i) \/ Poll(i) \/ Prune(i) \/ Restart(i)
       \/ \E l \in Listeners : Subscribe(i, l)
  \/ \E l \in Listeners : Unsubscribe(l)

\* The interval of the polls.
BusFairness == \A i \in Processes : WF_busVars(Poll(i))

BusSpec == BusInit /\ [][BusNext]_busVars /\ BusFairness

-----------------------------------------------------------------------------
(* Properties.                                                             *)

BusTypeOK ==
  /\ emits \in 0 .. MaxEmits
  /\ wikiEvents \subseteq [id : 1 .. emits, source : Processes]
  /\ Cardinality(wikiEvents) <= maxStored
  /\ at \in [Listeners -> Processes \cup {"nowhere"}]
  /\ lastSeenId \in [Processes -> 0 .. emits]
  /\ \A i \in Processes : ownDelivered[i] \subseteq 1 .. emits
  /\ \A l \in Listeners :
       /\ ToSet(heard[l]) \subseteq [id : 1 .. emits, source : Processes]
       /\ awaited[l] \subseteq 1 .. emits

\* No listener is given an event twice, whatever is pruned and whoever subscribes
\* ("without local duplicates", bus.test.ts).
HeardOnce == \A l \in Listeners : IsInjective(heard[l])

\* What a listener hears of the other processes comes in the order of their rows; an
\* event of its own process may come between two of them, before older rows are polled.
HeardInRowOrder ==
  \A l \in Listeners : at[l] \in Processes =>
    LET foreign == SelectSeq(heard[l], LAMBDA e : e.source # at[l])
    IN  \A j \in 1 .. Len(foreign) - 1 : foreign[j].id < foreign[j + 1].id

\* Every listener that stays is given the events that were emitted elsewhere, when their
\* rows are kept: the limit of a poll and the coming and going of others lose none.
AwaitedEventsArrive ==
  <>[](maxStored >= MaxEmits => \A l \in Listeners : awaited[l] = {})

\* The rows and the listeners keep their shape, and every event is heard once, those of
\* the other processes in their order.
ListenersInv == BusTypeOK /\ HeardOnce /\ HeardInRowOrder

=============================================================================
