# TLA+ models and proofs for gossip-net

gossip-net is a C++17 library of about 1500 lines that keeps the membership of
a cluster by gossip: every process believes something about every member, puts
a few of its beliefs into the pings and acks it sends, and takes over what it
hears when it is news. This directory holds TLA+ models of its core, the TLC
configurations that check them on small instances, and proofs that TLAPS checks
for every instance. Source paths below are relative to `src/sw/gossip-net/`.

The repository has no tests, its README is a title, and it is unfinished: some
declarations disagree with their definitions, `join` and `ping_req` are empty,
`UdpServer::stop` is a TODO. The models take each function as it is written and
read past what only keeps a file from compiling (a missing semicolon, a missing
argument in a declaration).

## The system

| Component | State | Operations | Interacts with |
|---|---|---|---|
| `Node`, `operator<` (utils.h, utils.cpp) | a belief: id, version, status | which of two beliefs about a member is news | everything below |
| `RecentlyUpdatedSet` | id -> node and the number of messages that carried it | `add`, `fetch(n, max)` | filled by `update`, drained by `_build_rumors` |
| `MemberSet` | hash table id -> node, and an iterator kept between calls | `try_update`, `add`, `fetch(num)` | as above |
| `GossipNet` | the two sets, options, pending tasks, the server | `update`, `ack`, `ping`, `do_task`, `add_task`; `start`, `stop`; `join`, `ping_req` (empty) | called by commands and by the application |
| `PendingLists` | tasks by the id they wait for; ids by the millisecond of `add` | `add`, `fetch(id)`, `timeout_tasks` | `do_task`, `add_task` |
| `Task`, `PingReqTask` | who asked for the ping | `run`: ack the one who asked | run by `do_task` |
| `Command` and its three subclasses; `parse_node`, `parse_rumors` | none | parse, `update`, then ack / ping and add a task / run tasks | called by `UdpServer::_handle` |
| RESP parser and builder | none | bytes to requests, strings to bytes | `_handle`; `ack`, `ping` |
| `UdpServer` | queue of events under `_mtx`, libuv handles, a context for each datagram that is being sent | `send` (any thread), `_on_event`, `_on_send`, `_on_read`, `start` | libuv, commands |
| lifecycle (`GossipNet`'s constructor, `start`, `stop`, destructor) | `_server_thread`, another `_mtx` | as named | any thread; `UdpServer` |
| libuv wrappers | the loop and its handles | create, close | `UdpServer` |

All of the protocol runs on the server thread: `_on_read` parses a datagram and
runs its command, which updates the membership and sends. `GossipNet::ping`,
`ack` and `update` are public, so an application thread may call them too; only
`UdpServer::send` is made for that.

What is hard here:

* A member travels between two containers, in several steps and under two
  kinds of calls, and the belief about it may be replaced at any point of the
  way. It must be in one place at a time, and none may be lost.
* `MemberSet` keeps an iterator into an `unordered_map` over erasures and
  insertions, and walks round robin with it.
* `RecentlyUpdatedSet::_fetch` changes the keys of a priority queue's elements
  and erases what the queue's iterators denote while the queue is in use.
* `PendingLists` keeps two indexes over the same tasks that are cleaned up at
  different times.
* `UdpServer` hands events from any thread to the loop with a lock, a swap and a
  coalescing wake-up.
* A datagram may hold a part of a request, or several, and the parser works on
  a moving window of it with counts that include the command's name.
* The object, its thread and libuv's handles have lifetimes of their own, and a
  constructor that may fail after each of them.
* Counters and sizes at their limits: the spread limit, a message with exactly
  as much room as there are members, wrapping at `end()`.

Correct means, for each component: the order decides consistently and FAILED is
final; `RecentlyUpdatedSet` hands out the least spread members and lets go of
one only after it has been spread `max` times; `MemberSet` never uses a dead
iterator, repeats no member in a message and skips none in a sweep; `GossipNet`
never forgets a member that has not FAILED, never goes back to an older belief
and fills its messages with what it believes; `PendingLists` gives every task to
one taker; `UdpServer` loses, repeats and reorders nothing, always wakes up and
frees what it sends once; the parser takes no part of a request for a whole one,
and understands what the builder writes; the loop and its handles outlive their
users, and `start` and `stop` come back.

## The modules

* `NodeOrder` - `Node` and `operator<` (`Older`). ip and port are compared
  nowhere and left out; the status UNKNOWN is never stored.
* `RecentlyUpdatedSet` - `add` and `fetch`, `fetch` as one step: which members
  can be picked (`Picks`: the least spread, ties open, as the hash table breaks
  them), which are removed (`Retired`), which of those survive (`StableNodes`).
* `RecentlyUpdatedFetch` - the same class with `fetch` iteration by iteration:
  `HandOut` and `Retire` are the two branches that `_fetch` and `_fetch_all`
  share, `IsNext` is the difference between a heap and a walk. It implements
  `RecentlyUpdatedSet` (`ImplementsSet`): each call is one abstract step.
* `MemberSet` - the map (`members`), its iteration order (`order`, any
  arrangement after an insertion, because a rehash may rearrange it) and `_iter`
  (`iter`, an id or `End`). Erasing keeps the others in order.
* `MemberSweep` - `MemberSet` alone, with a history of who is still owed a turn.
* `GossipNet` - INSTANCEs of the two sets and the calls on them. `Update` starts
  `update`, `UpdateRumor` is an iteration of its loop; `BuildRumors` is
  `_build_rumors` up to its loop, `AddStable` an iteration, `Send` the rest
  together with the `_server.send` of `ack` or `ping`. Steps in between are
  visible to the invariants; calls do not overlap.
* `GossipNetProperties` - types, invariants, and the refinement mapping `View`.
* `Membership` - the abstract specification: a belief about each member, that is
  replaced only by news (`Learn`) and dropped only when FAILED (`Forget`).
* `TwoCallers` - `GossipNet` as the server thread uses it, and a second INSTANCE
  with locals of its own for a thread that pings. The containers are shared.
* `GossipNetHistory` - `GossipNet` with the number of messages that carried the
  current news about each member.
* `PendingLists` - both indexes, a millisecond clock, `add`, `fetch` (through
  `GossipNet::do_task`) and `timeout_tasks`, in any order.
* `ParseNode` - `parse_node`, `parse_rumors` and the commands' `_parse_args` over
  sequences of tokens. Tokens are strings that are compared, never taken apart;
  `Number` says which of them are numbers. A read past the last argument gives
  any status or none (that the wild read faults is left out).
* `Commands` - the server thread with one request after the other: dispatch by
  name, parse, `update`, and then the ack, the forwarded ping and its task, or the
  waiting tasks. The two sets of `GossipNet` are the `view` of `Membership`,
  which `GossipNet` implements, the tasks an INSTANCE of `PendingLists`. Two
  histories say who has asked about whom (`asks`), and to whom an ack in whose
  name has been passed on (`acks`), whatever the task called the two.
* `Resp` - `parse` over one datagram, an iteration of its loop at a time, byte by
  byte: the marks, digits, CR and LF are told apart, anything else is text. The
  parsers move the buffer that they are given even when they fail, as the
  `string_view&` of the code. `len + 2` wraps at `SizeMax`, and `data() + len` with
  it: a length of `SizeMax` throws, one less is taken for a string of that size
  (`Wild`), which ends in front of itself, at the line end of its length. That is in the model
  and the proofs, and in no run, because a small `SizeMax` would let it happen to
  lengths that no size_t overflows.
  That `reserve` may not get the memory for the arguments is left out.
* `Wire` - `_append_node` and what `ping` and `ack` build, as datagrams for `Resp`.
* `UdpServer` - `send` in its two halves (`Push` in the critical section,
  `Signal` after it) by several threads and by the loop's own commands, and the
  loop: `Wake` (libuv clears the flag), `Swap` (critical section of `_on_event`),
  `_send` for each event (`MakeRequest` up to the two `unique_ptr`s, `UdpSend`,
  which takes the request or refuses it, `EndSend` with `release` and `set_data`, or
  with the destructors), `Return`; `OnSend` for each request that libuv gives back,
  which deletes the context that the request points to, if any; `ReadError`, after
  which nothing is read and `uv_udp_send` may do either.
* `Lifecycle` - the constructor resource by resource, each of which may fail
  (`MakeLoop`, `InitSocket`, `BindServer`, `MakeAsync`); `start` and `stop` by any
  threads in two steps, taking `_mtx` (`Lock`) and the rest (`Start`, `Stop`); the
  server thread (`Serve`, `ReadError`), which has no end; and the destructors in
  the order of the members (`Destroy`, `FreeHandles`, `DeleteLoop`). The
  destructor starts when no call is in progress, which C++ asks of its caller.
* `GossipNetProofs`, `RecentlyUpdatedFetchProofs`, `MemberSweepProofs`,
  `PendingListsProofs`, `CommandsProofs`, `RespProofs`, `UdpServerProofs`,
  `LifecycleProofs` - the theorems, and what they need about sequences, finite sets
  and naturals and the library does not state. A lemma that two of them need is in
  the first one that does, and the other takes it over through an INSTANCE.
* `MC...` - constants and symmetry for TLC.

Definitions whose comment begins with "Mutant" are bugs one could have written
in place of the definition that follows them. No specification uses them; put
in its place, each one makes TLC report a violation of the property it was
written for, which shows that the property depends on that piece of code.

## What is checked

| Run | Instance | What it shows |
|---|---|---|
| `gossip_release` | 3 members, versions 0 and 1, 2 rumors to a message, limits 1 and 2; every single rumor, and every rumor followed by its living sender | `OnePlace`, `StableNotFailed`, `IteratorValid`, `MessageSound`, and that `GossipNet` implements `Membership` |
| `gossip_spread` | 3 members, 1 version, 2 rumors to a message, limits up to 3 | `SpreadBeforeStable`: news is in as many messages as the limit says before its member is stable or forgotten. `Drains`: if messages keep being sent, and news does not keep coming, the recently updated set empties |
| `recent_fetch` | 3 members, n from 0 to 3, limits 1 and 2 | the loops of `fetch` implement its one-step specification; the queue never holds an erased element (`TypeOK`) |
| `member_sweep` | 4 members, messages of up to 5 | `FetchedOnce`: no member twice in a message. `SweepComplete`: the round robin passes over nobody, except after a rehash |
| `pending` | 2 ids, 3 tasks, 5 milliseconds | `OneOwner`: a task is in the index or returned, once. `TimesOut`: what `timeout_tasks` may leave behind. `TypeOK` includes that the two indexes agree |
| `pending_null` | the same | violation, see Findings |
| `commands` | members a, b and two named like a status, 2 versions, 35 requests, 2 ping-reqs | `AllOrNothing`: a message is taken in completely, with nothing newer than it undone, or leaves no trace. What a message says is found without parsing it from the front, and counts where it is beyond doubt, that is, no node begins inside of another one (`Apart`). It is about versions; of the statuses it says nothing (Findings, 6). `AckedOnce`: every ping-req waits or has led to one ack between the two members that it names; to whom is what `commands_answer` is about |
| `commands_answer` | the same | violation of `PeerAckAnswers`, see Findings |
| `udp_server` | 2 threads and the loop, 4 events, good and bad addresses, a read error at any time | `InOrder`, `NoLostWakeup`, `ContextsOwned` (a context lives as long as libuv or `_send` needs it, and every one there is can be found by `_on_send`), and `EventuallyHandled` under fairness, on a closed socket too |
| `two_callers` | 1 member with 2 versions, the server thread and one that pings | violation, see Findings |
| `wire` | 10 requests of up to 9 arguments and their pairs, cut off at every byte; every ping and ack with up to 2 rumors about a member | `PrefixSafe`: a cut never makes up a request. `SingleUnderstood`: one that is whole is understood. `OwnDocumented`: what a node builds has the length it announces and the form the commands' comments give |
| `lifecycle` | 3 threads with 2 calls each | `ServerAlive`: the server thread's loop and handles are there. `NeverTerminates`: no joinable thread is assigned to or destroyed. `CallsReturn`: a call blocks only behind a `stop` that found a thread |

The bounds. Three members are the fewest with which a message of two rumors has
to choose, with which members can be in all the three places at once and with
which the limit changes while a counter runs (ln 3 > 1). Two versions give an
old, an equal and a new belief in every status; nothing compares versions other
than pairwise. Four members in `member_sweep` let the iterator sit between
survivors on both sides while its own element is erased, and messages of five
exceed the set. Three tasks put two under one id, with another id next to it;
five milliseconds put an `add` before, in and after the millisecond of a check
with a later check to follow. The requests of `MCCommands` contain the forms that
the comments document, the forms that the parser takes (a token in place of each
status), out-of-order and repeated rumors, a broken rumor behind a good one, six
tokens in front of the end, rumors that end with a status and are accepted, and a
member with the name of a status, without which no status is ever read; two
ping-reqs let a task wait alone, next to another one, and behind an emptied entry. Two threads and the loop race pairwise, four
events fill the queue while a batch is being sent. The requests of `MCWire` have
an empty argument, one whose text is a RESP mark, one of two digits' length and
a count of two digits; with three of them or with two rumors nothing new can
meet. Three threads let one wait for the mutex while another one has it and a
third one comes late, two calls let each do either thing in either order.

The models never stop (`gossip_*`, `recent_fetch`, `member_sweep`, `pending`
are checked for deadlock), except for a process or an object that has ended: by a bad address in `udp_server`, by a
null task in `commands`, at the end of a datagram in `wire`, by a destructor or by
calls that are over or blocked in `lifecycle`.

Fairness. In `UdpServer!FairSpec` the loop finishes a callback it
has begun (WF of `Swap`, `MakeRequest`, `UdpSend`, `EndSend`, `Return`, `Finish`),
a thread inside of
`send` leaves it (WF of `Signal`; nothing in it blocks for long, the critical
sections are a `push_back` and a `swap`), and libuv serves every ready
descriptor each time it polls, so that datagrams do not keep it from the async
handle (SF of `Wake`). Nobody has to start the loop or to send. `Drains` needs no
fairness: it is about behaviours in which messages keep being sent, which is the
application's doing. In `Lifecycle!FairSpec` a thread inside of `start` or `stop`
goes on when it can (WF of `Lock`, `Start`, `Stop`): the scheduler runs it, and with
a bounded number of calls no mutex passes it over for ever. That the application
calls anything, or the new thread reaches `uv_run`, is not assumed.

### Findings and counterexamples

The first three are runs. The others are counterexamples kept as configurations
of the same modules, each with one property that the code does not have; for
example `tlc -config wire_own.cfg MCWire`. What does hold in their place is in
the runs.

1. `do_task` asserts that its tasks are not null (gossip_net.cpp:109), but
   `PendingLists::fetch` moves them out and leaves the emptied entries in the
   index (pending_lists.cpp:39), so that a second ack of the same member, which
   UDP may deliver for one ping, gets them: `pending_null`.
2. `PingReqTask` is constructed with the peer's id and the requester
   (command.cpp:63), as task.h:52 declares it, but task.cpp:21 takes the two the
   other way round: the peer's ack finds no task, and the requester's own ack is
   passed on to the peer: `commands_answer`. `AckedOnce` holds nevertheless: there
   is one ack for each ping-req, to the wrong one of the two. With the two
   arguments put right in the model (`dest` the requester, `peer` the peer, filed
   under the peer's id) `PeerAckAnswers` holds, and so does `AckedOnce`; with only
   the id put right `PeerAckAnswers` is violated still.
3. `ping` from a thread of the application next to the server thread breaks the
   assertion of `MemberSet::add` (member_set.cpp:55), even if every access to
   the containers were atomic: `two_callers`. `OnePlace` holds as long as calls
   do not overlap, which nothing in `GossipNet` sees to.
4. `MemberSet::fetch` passes `num == _members.size()` to `_fetch`
   (member_set.cpp:61), which asserts `num < _members.size()`
   (member_set.cpp:83). Two members and a one-rumor exchange are enough:
   `gossip_debug.cfg` (`MCGossipNet`). Without assertions the code does the
   right thing, and the other runs check that.
5. recently_updated_set.h:33 says that `fetch` also returns the members that
   have been spread `max_spreaded_num` times. It does so only in a call that
   runs out of less spread ones (recently_updated_set.cpp:78 breaks off before
   them): `recent_fetch_comment.cfg` (`MCRecentlyUpdatedFetch`). So a member
   does not become stable while there is enough other news; `SpreadBeforeStable`
   and `Drains` state what is left of the promise.
6. The comments of command.cpp (31, 53, 81) give each rumor a status and let the
   rumors follow self. `parse_node` looks for the status one token too far
   (utils.h:84), takes the next rumor's id for it, skips the word `rumor`, and
   the message is rejected: `commands_grammar.cfg` (`MCCommands`). Every message
   that carries a rumor, as `ping` and `ack` build them, and every ping-req is
   lost on its receiver. Where a rumor is accepted, behind a token that stands for
   self's status, its own status is passed over, and a member that the message calls
   SUSPECTED or FAILED is believed to be alive: `commands_status.cfg`. No message
   makes anybody suspected or failed, unless a member is named so. With the status
   looked for in its place, `DocumentedUnderstood`, `StatusTaken` and the
   properties of `commands` all hold in the model.
7. `parse` wants one argument more than a request has (resp.cpp:55) and accepts
   that it is not there. With a second request behind the first it finds that
   one's `*` and throws both away: `wire_requests.cfg` (`MCWire`). resp.h:36
   promises a vector of requests; udp_server.cpp:129 knows that there is only
   one so far.
8. `ack` and `ping` write simple strings, `parse` takes bulk strings: no node
   understands another one: `wire_own.cfg` (`MCWire`). `OwnDocumented` shows
   that counts and order are right, so that nothing but the type of the strings
   is wrong in them.
9. `stop` never returns after a `start`, and neither does the destructor, for
   `UdpServer::stop` is a TODO (udp_server.h:59): `lifecycle_stop.cfg`
   (`Lifecycle`).
10. The memory of the handles is released before the loop is closed, whatever
    the comment at uv_utils.cpp:40 says: `lifecycle_handles.cfg` (`Lifecycle`).
    It happens when the constructor fails and when an object that was not
    started is destroyed, and `ServerAlive` shows that it never happens under a
    running server thread - because of number 9: the destructor joins that
    thread first, and waits.

Seen while reading, and not in a run: command.cpp:53 calls the command
`ping_req`, it is registered as `ping-req`. gossip_net.h:79 says that `_members`
includes the process itself, and nothing ever adds `_self`, or sets it.
gossip_net.h:82 says that recently updated members are alive or suspected, and
FAILED ones are there as well, to be spread.

## What is proved

All by TLAPS, for every value of the constants: any finite set of members, any
set of versions, any message size, any spread limits, builds with and without
assertions; any number of threads, events, tasks and milliseconds; any set of
requests and of datagrams. The assumptions say that versions are naturals
(`VersionAssumption`), that special values (`None`, `End`, `Null`) are not nodes,
ids, entries, messages or tasks, that the set of ids is finite and limits are
positive (`MemberSetAssumption`, `GossipNetAssumption`, `FetchAssumption`,
`PendingAssumption`, `UdpAssumption`, `LifecycleAssumption`), that the limit does not
fall when the members get more (`SpreadAssumption`: it is a `size_t` times a
logarithm, plus one), that `Id` and `Version` have what the requests say
(`ParseAssumption`, `CommandsAssumption`), that bytes are strings, no datagram is
larger than the largest `size_t` and the ways to fail are told apart from what can
be read (`RespAssumption`, `WireAssumption`), and that a datagram is one that a node
has built or a part from the front of requests as a client writes them, which fit
in the memory of the client (`ArrivalAssumption`: any requests, any cut).

`GossipNetProofs`:

* `TypeCorrect`, `RecordedOnce`, `FailedNeverStable`, `IteratorNeverDangles`:
  the invariants `TypeOK`, `OnePlace`, `StableNotFailed` and `IteratorValid`.
  None is inductive by itself. To erase a member `TryUpdate` needs its position,
  which exists only if `IteratorValid`; `OnePlace` needs from `TypeOK` that the
  local `stable` is empty outside of `_build_rumors`, or a rumor could be
  adopted while its member is on the way; `StableNotFailed` must hold of that
  local too. So `IInv` is their conjunction, and `UpdateInv` ... `SendInv` show
  that every action keeps it. They rest on one lemma for each operation of the
  two sets: `EraseStep`, `TryUpdateStep`, `AddStep` (an injection between
  finite sets of the same size is onto, so any arrangement lists every member),
  `FetchStep` (the wrapped position stays in range), `RecentAddStep`,
  `RecentFetchStep` (of the picked members there are at most `n`).
* `Refinement`: `GossipNet` implements `Membership`. `ViewCases` reads the belief
  about a member from wherever `IInv` says it is; then `UpdateRumor` is `Learn`
  or a stuttering step, `BuildRumors` is `Forget` of the retired FAILED members,
  and the other actions leave the view as it is.

* `MessagesSound` (`MessageSound`): while a message is built, its rumors are news
  that is still recorded as recent, and they fill it or are all there is
  (`RumorsInv`); `FetchedFacts` adds that `fetch` gives as many stable members as
  are left or fit, none twice (`WalkPosition`: the wrapped positions differ). The
  two groups do not meet, by `OnePlace`, so their sizes add up.
* `SpreadEnough` (`SpreadBeforeStable`): the counter of a member never runs ahead of
  the messages that carried the news (`SpreadInv`). A rumor is counted when it is
  picked and carried when the message is sent, so the invariant has a term for
  the one in between (`Unsent`). The history counts up to the largest limit; that
  this suffices is where `SpreadAssumption` and `OnePlace` are needed, the second
  because the size adds up the two sets.

`RecentlyUpdatedFetchProofs`: `FetchTypes` (`TypeOK`) and `FetchRefinement`
(`ImplementsSet`): the loops of `fetch` implement the one step of
`RecentlyUpdatedSet`. The invariant is the state of the loop: what has been
handed out is no more spread than what is still queued, what has been retired
was spread enough, and the two with the queue make up the set until the loop
breaks off, when nothing has been retired (`Running`, `BrokenOff`).

`MemberSweepProofs`: `SweepTypes` (`TypeOK`), `HandedOutOnce` (`FetchedOnce`) and
`SweepMissesNobody` (`SweepComplete`). The strengthening (`OwedAhead`) says that
whoever is still owed a turn comes at or after the iterator; erasing, also of
the iterator's own element, keeps that, and after a rehash nobody is owed one.

`PendingListsProofs`: `IndexesAgree` (`TypeOK`), `TasksOwnedOnce` (`OneOwner`) and
`TimeoutsComplete` (`TimesOut`). That no two lists hold one task needs that each
is filed under its own id, and that nothing younger than the clock is waiting
makes "not expired" mean "of this millisecond" (`FiledInTime`). `KeptProperties`
says what the erasing loop leaves: the entries that have not expired, each from
a place of its own.

`CommandsProofs`: `CommandTypes` (`TypeOK`), `AskedAckedOnce` (`AckedOnce`)
and `WholeOrNothing` (`AllOrNothing`).
`ParsedNode` and `ParsedRumors` show that whatever the parser accepts is a node
with an iterator that has moved on and not past the end, `UpdatedKnown` that
`update` keeps each belief under its own id. The strengthening
(`TasksCounted`) ties `asks` to the tasks that were added, whose numbers are all
in use, and `AcksCounted` adds that, as the code has the two roles, what a
requester has asked is what waits and the acks in its name to the member asked about;
the sum over both roles in `AckedOnce` follows, and does not depend on which one
the code picks. The lemmas about `PendingLists` are taken
over through an INSTANCE. `CountRelayed` is the core: the acks that
`PingReqTask::run` sends are, one by one, the tasks that waited. For
`WholeOrNothing`, `NothingBetween` and `ParsedRumors` show that the parser passes
over no node of a message whose nodes are apart, and `UpdatedKnown`, by induction
over the rumors, that the process knows each node that was parsed at least as well
when `update` is through, because `operator<` is transitive (`OlderOrder`): a later
rumor never undoes an earlier one. Hence it knows none in an older version, unless
as FAILED.

`RespProofs`: `TypeCorrect` (`TypeOK`), `CutNeverShortens` (`PrefixSafe`) and
`AloneUnderstood` (`SingleUnderstood`). Every buffer that a parser is given is a
`Slice` of the datagram, from a position to its end, so that what a parser does is
said in positions, and a cut is a smaller end. Going down from a number
(`NumParsed`) to a request (`RequestParsed`), one group of lemmas says that whatever
is read was there and that the position only grows, by what was read: that is the
inductive invariant `ParsedInv`, of which `TypeOK` follows. Another group says what
the builder's strings look like in the place where they stand (`Holds`, `BulkForm`,
`EncodedForm`): digits that stand for the number they were made from (`Value` after
`Decimal`, by induction), line ends behind them. A third one, from `NumRead` to
`RequestRead`, puts the two together: a part of a request is read as it was
written if it has arrived whole, and otherwise nothing is. The second request's
`*` stands where the first one's missing argument is looked for, so that a second
request makes `parse` throw; hence `parse` has returned nothing or exactly one
request, which then is all of the datagram. This is the strengthening `ReadInv`,
from which both properties follow. A node's own messages are refused, for a simple
string stands where the name is expected (`BuiltRefused`).

`UdpServerProofs`: `TypeCorrect`, `NothingLostOrOvertaken` (`InOrder`),
`AlwaysWoken` (`NoLostWakeup`) and `NoContextLost` (`ContextsOwned`), from their
conjunction: `InOrder` needs the loop's local batch to be empty when it takes the
queue; `ContextsOwned` needs that the request in `_send` is in libuv's hands exactly if
it has been taken, and that `_on_send` runs only when the loop polls, so never
between `uv_udp_send` and `set_data` (`TypeOK`).

`LifecycleProofs`: `LifecycleTypes`, `LifecycleServerAlive` and
`LifecycleNeverTerminates`. The strengthening says what the constructor has made
at each stage (`Constructed`), and that there is a server thread only if `start`
made it; with it the destructor cannot pass the join, so nothing is freed.

Loops over data are recursive functions (`Kept`, `Updated`, `ParseRumors`). The
induction theorems of the library take a predicate, which the provers cannot
instantiate; `NatSetInduction` takes the set of the numbers for which a claim
holds instead, and is proved from the well-foundedness of finite sets. With it
each proof shows first that the function exists (`LoopExists`) and then what it
computes.

Only model-checked: liveness (`Drains`, `EventuallyHandled`, `CallsReturn`), which
TLAPS cannot prove, and `OwnDocumented`, which reads each message that a node builds
line by line, with `SelectSeq`, whose operator argument the provers cannot take. No
step of the parser can change it; a run evaluates it for every message there is
with up to two rumors, and with one-byte tokens, as `Token` wants them.

## What is not modelled

Left out for good: the wording and layout of messages and logs, ip and port, the
TCP and timer helpers of uv_utils (nothing calls them), `errors.h`, the random
key prefix of `MemberSet` (any order of the hash table is allowed instead).

Not proved: that a datagram of the form that a node builds is what the comments
describe, for any number of rumors (`OwnDocumented`). The hazards without a property
are listed with the reason in `PROJECT.json`.
