---------------------------- MODULE PendingLists -----------------------------
(***************************************************************************)
(* class PendingLists: the tasks that wait for an ack, by the id they wait *)
(* for, with the millisecond in which they were added; and, by that        *)
(* millisecond, the ids to look at when it has passed.  Any sequence of    *)
(* calls, spread over milliseconds in any way.                             *)
(*                                                                         *)
(* The vectors of ids of _timeout_index are sets: an id that is listed     *)
(* twice is looked at twice, the second time for nothing.                  *)
(***************************************************************************)
EXTENDS Naturals, Sequences, SequencesExt

CONSTANTS Id, Task,
          IdOf,         \* Task::id()
          Null,         \* a unique_ptr that has been moved from
          MaxTime       \* bound on the clock

ASSUME PendingAssumption ==
  /\ IdOf \in [Task -> Id]
  /\ Null \notin Task
  /\ MaxTime \in Nat

Time == 0 .. MaxTime

VARIABLES
  task_index,       \* [Id -> Seq of entries], << >> where an id is absent
  timeout_index,    \* [Time -> SUBSET Id]
  now,              \* the steady clock, in milliseconds
  results,          \* what the last call returned
  added, returned,  \* history: the tasks that were added, and returned so far
  checks            \* history: the milliseconds in which timeout_tasks ran

vars == <<task_index, timeout_index, now, results, added, returned, checks>>

Entry == [task : Task \cup {Null}, time : Time]

Init ==
  /\ task_index = [id \in Id |-> << >>]
  /\ timeout_index = [t \in Time |-> {}]
  /\ now = 0
  /\ results = {}
  /\ added = {} /\ returned = {} /\ checks = {}

Tick ==
  /\ now < MaxTime
  /\ now' = now + 1
  /\ UNCHANGED <<task_index, timeout_index, results, added, returned, checks>>

\* Mutant: an id that has tasks waiting is taken to be listed already.
ListedOnce(id) ==
  IF task_index[id] = << >> THEN [timeout_index EXCEPT ![now] = @ \cup {id}]
  ELSE timeout_index

\* _timeout_index with id listed under the current millisecond.
Listed(id) == [timeout_index EXCEPT ![now] = @ \cup {id}]

Add(task) ==
  /\ task \notin added
  /\ LET id == IdOf[task]
     IN  /\ task_index' = [task_index EXCEPT ![id] = Append(@, [task |-> task, time |-> now])]
         /\ timeout_index' = Listed(id)
  /\ added' = added \cup {task}
  /\ results' = {}
  /\ UNCHANGED <<now, returned, checks>>

\* Mutant: the task is shared with the caller, not handed over.
LeftBehindShared(entry) == entry

\* What fetch leaves of an entry: its place, the task has been moved out.
LeftBehind(entry) == [entry EXCEPT !.task = Null]

Fetch(id) ==
  /\ results' = {entry.task : entry \in ToSet(task_index[id])}
  /\ task_index' =
       [task_index EXCEPT ![id] = [i \in DOMAIN @ |-> LeftBehind(@[i])]]
  /\ returned' = returned \cup (results' \ {Null})
  /\ UNCHANGED <<timeout_index, now, added, checks>>

Expired(entry) == entry.time < now

\* GossipNet::do_task: the tasks that fetch returns are run; those there are
\* (PingReqTask) give no other task to add.
DoTask(id) == Fetch(id)

\* Mutant: upper_bound taken one millisecond too early.
DueEarly == UNION {timeout_index[t] : t \in {s \in Time : s + 1 < now}}

\* The ids under _timeout_index up to the current millisecond.
Due == UNION {timeout_index[t] : t \in 0 .. now}

\* What the erasing loop over an id's entries leaves of them, in their order.
Kept(entries) ==
  LET kept[i \in 0 .. Len(entries)] ==
        IF i = 0 THEN << >>
        ELSE IF Expired(entries[i]) THEN kept[i - 1]
        ELSE Append(kept[i - 1], entries[i])
  IN  kept[Len(entries)]

TimeoutTasks ==
  /\ results' = {entry.task : entry \in
                   {e \in UNION {ToSet(task_index[id]) : id \in Due} : Expired(e)}}
  /\ task_index' =
       [id \in Id |-> IF id \in Due THEN Kept(task_index[id]) ELSE task_index[id]]
  /\ timeout_index' = [t \in Time |-> IF t <= now THEN {} ELSE timeout_index[t]]
  /\ returned' = returned \cup (results' \ {Null})
  /\ checks' = checks \cup {now}
  /\ UNCHANGED <<now, added>>

Next ==
  \/ Tick
  \/ \E task \in Task : Add(task)
  \/ \E id \in Id : DoTask(id)
  \/ TimeoutTasks

Spec == Init /\ [][Next]_vars

------------------------------------------------------------------------------
\* The indexes have their types and agree: an entry's id is listed under its
\* millisecond, or timeout_tasks has run in that millisecond.
TypeOK ==
  /\ task_index \in [Id -> Seq(Entry)]
  /\ timeout_index \in [Time -> SUBSET Id]
  /\ now \in Time
  /\ results \subseteq Task \cup {Null}
  /\ added \subseteq Task /\ returned \subseteq Task /\ checks \subseteq Time
  /\ \A id \in Id : \A entry \in ToSet(task_index[id]) :
       id \in timeout_index[entry.time] \/ entry.time \in checks

Entries == UNION {ToSet(task_index[id]) : id \in Id}
Pending == {entry.task : entry \in Entries} \ {Null}

\* A task has one owner: it waits in the index, once, or has been returned,
\* whatever mix of fetch and timeout_tasks took the entries around it away.
OneOwner ==
  /\ added = Pending \cup returned
  /\ Pending \cap returned = {}
  /\ \A id \in Id : \A i, j \in DOMAIN task_index[id] :
       task_index[id][i].task = task_index[id][j].task =>
         i = j \/ task_index[id][i].task = Null

\* timeout_tasks returns everything that was added in an earlier millisecond, if
\* no call of it has fallen into that millisecond: such a call drops the entries
\* that _timeout_index has of it, and keeps their tasks.
TimesOut ==
  [][TimeoutTasks => \A entry \in Entries' : entry.time = now \/ entry.time \in checks]_vars

\* What do_task asserts of every task it is given (gossip_net.cpp:109).  It does
\* not hold: fetch leaves the emptied entries in the index, and returns them the
\* next time the same member acks.
NoNullTask == [][\A id \in Id : DoTask(id) => Null \notin results']_vars
==============================================================================
