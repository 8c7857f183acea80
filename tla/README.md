# Easymesh in TLA+

Easymesh is a small multi-AP (IEEE 1905) agent in C. Its programs talk over a
message bus of its own: a daemon, `mbusd`, to which the mesh agent, the
configuration manager and a command-line client connect over TCP. All of them
run on the same single-threaded event loop with a timer heap.

This directory holds TLA+ modules of that system, the TLC configurations that
check them, and proofs checked by TLAPS. `PROJECT.json` says which definition
models which lines (`map`), which run checks what, what the runs found, and
which hazards of the code the properties are for.

## 1. The system

### Components, their state and operations

| component | state | operations | what makes it correct |
|---|---|---|---|
| bus daemon, `mbus/mbusd.c` | `io->arg` of every connection; `client->io` | accept, close, login, create / join / leave group, group and private message, heartbeat | a message reaches exactly the connections it is for, once; a name has one user |
| user manager, `mbus/user_manager.c` | `g_clients`, allocated `client_t` | create, find by name, delete by name | no pointer to a freed client |
| group manager, `mbus/group_manager.c` | `g_groups`, each a list of copied names | create, search, join, leave, leave all, foreach | members are users, each once |
| reactor, `reactor/eloop_event.c` | per descriptor: receive buffer, write queue, `wmem_size`, armed events | `io_write`, EPOLLOUT and EPOLLIN handlers, framing, reset | packets come out whole, once, in order; the queue is sent in the end |
| event loop, `eloop_run` | what `epoll_wait` sleeps for | sleep, serve, expire | due timers run; descriptors are served |
| timer heap, `timer/minheap.c` | array of pointers, index in each element | push, pop, delete | pops come in order of time; indices are right |
| timers, `timer/mh-timer.c` | `te->time`, `te->interval` | add, reset, delete, find nearest, expire | see event loop |
| configuration manager, `cfg_mgr/cfg_mgr.c` | `conf_state` of two radios, the M2 buffer, one timer | timer pass, CONTROLLER_INFO_RSP, RESPONSE, RENEW, WSC, "reconfig" | each radio is configured by the controller, stays so, and is not given up |
| mesh agent, `agent/main.c`, `core.c`, `cmdu.c` | interface, neighbours, discovery timer | forward packets both ways (publishing each on the bus), answer CONTROLLER_INFO_REQ, learn neighbours | what the manager sends goes out, what arrives is published; the controller is told from its neighbours |
| 1905 interface, `agent/ieee1905_network.c` | the interface's filters | `if_send`, `if_recv` | both call the filters |
| bus client library, `mbus/bus_msg.c` | none of its own | build requests, dispatch to the callback | a program that is accepted ends up in the groups it asks for, though it waits for no answer |
| `mbus_cli` | the options of its command line | with a name and a group or peer: log in; with a text: create, join and write to the group, write to the peer; run on | as above; it is in no group unless it writes to one |
| TLV codec, `agent/tlv_parser.c` | trees of items, a buffer that grows | create, attach, print, parse, find | the length counted is the bytes printed; a receiver finds what was added |
| lists, `util/list.c` | doubly linked nodes, iterators | add, insert, delete, pop, iterate | the pointers are one sequence; a loop misses no node |

The thread pool (unfinished, unused), packet sockets, the WSC body, utilities
and the manual test programs complete the tree.

### Interactions

* Programs send the daemon packets (`msg_t` header and TLVs); the daemon looks
  users and groups up by name and calls `io_write` for each receiver.
* The configuration manager and the agent are both in the group `gmesh`. The
  manager publishes packets there; the agent sends those marked for the network.
  A filter on the agent's interface publishes everything it sends and receives,
  so the manager hears its own packets again.
* Controller data is asked for by private messages (CONTROLLER_INFO_REQ / RSP).
* Everything is called from `eloop_run`: there are no threads, and the mutex in
  the heap is never contended. Interleaving is between programs, between
  packets, and between handlers of one loop.

### What is hard

* Pointers between slots and clients while slots, cells and names are reused
  (close, overflow, second login, restart of a program).
* Byte streams: sends and receives of any part, a full socket, a full queue, a
  receive buffer that is compacted late.
* A heap with deletion, equal times, and timers that set themselves again.
* A retry timer that races late, lost or repeated answers for two radios at once,
  and that every answer pushes into the heap once more.
* Programs that register without waiting for an answer, end with messages unread
  or unsent, and start again before the daemon has seen their end.
* A list walked while its nodes are deleted; a message whose length is counted
  while it is attached in any order.
* Silence: a refused login, a failed discovery or a dropped packet is answered
  by nothing.

## 2. Modules

    MsgBus  <--implements--  Mbusd         PacketChannel  <--implements--  IoStream
       ^                                   NodeList       <--implements--  KamiList
       +-- instance Bus of --  BusSystem

    MinHeap <--extends-- TimerHeap         Cmdu <--extends-- CfgMgr <--extends-- AutoConf
            <--extends-- MhTimer                <--extends-- Agent  <--extends-- AutoConf

| module | models | notes |
|---|---|---|
| `MsgBus` | what the daemon promises, from the programs' side | abstract: connections, names, groups, memberships, receivers of the last request |
| `Mbusd` | `mbusd.c`, `user_manager.c`, `group_manager.c` | one action per handler; the mapping to `MsgBus` is at the end |
| `BusSystem` | agent, manager and `mbus_cli` with `bus_msg.c` on the bus | the daemon is `MsgBus`; programs and daemon end and start again |
| `PacketChannel` | what a connection promises | abstract: packets sent, packets received, whether the stream is broken |
| `IoStream` | one direction of a connection in `eloop_event.c` | byte by byte; a byte is told by its packet and its place there |
| `NodeList` | what a list promises | abstract: a sequence of nodes and an iterator in it |
| `KamiList` | `util/list.c` | the pointers as functions on nodes |
| `TlvCodec` | `tlv_parser.c` | building as actions; printing and parsing as recursive functions, one step a call or a turn of the code's |
| `MinHeap` | `minheap.c` | the array with its indices and the times; operators, a loop being a recursive function of its turns |
| `TimerHeap` | the heap under `add_timer`, `expire_timer`, `del_timer` | checked against the set of timers that are set |
| `MhTimer` | `mh-timer.c` and `eloop_run` | the clock and the sleep |
| `Cmdu` | devices, frames and requests | data shared by the next three |
| `CfgMgr` | `cfg_mgr.c` | handlers as actions on `conf_state`, `bh_almac` and `m2buf`; what each sends is an operator |
| `Agent` | neighbours, the search for a controller, the filter on the interface | |
| `AutoConf` | manager, agent and controller together | the composition; the network and the user are its actions |
| `MCMbusd`, `MCBusSystem`, `MCTimerHeap`, `MCTlvCodec` | model values, names, types and symmetry for TLC | |
| `ListLemmas` | facts about sequences: without duplicates, cut and joined, of packets, of sequences; sums; induction over a set, by rank and downwards; recursive functions | lemmas for the proofs |
| `MbusdProofs`, `KamiListProofs`, `BusSystemProofs`, `AutoConfProofs`, `IoStreamProofs`, `TimerProofs`, `TlvCodecProofs` | proofs | section 5 |

Definitions keep the names of the functions they model. A definition with a
suffix, as `join_group_Unsearched`, is a form that a plausible bug would give
the definition after it. Nothing uses it except the mutation runs, which show
that each property notices a bug.

### How state and actions correspond to the code

* **Mbusd.** `arg[s]` is `io->arg` of slot `s`; `client[c]` is the memory of an
  allocated `client_t`; `clients` is the order of `g_clients`; `groups` the
  order of `g_groups` with the members' names. A handler runs to its end before
  the next one, hence one action each. `sent` holds the `io_write` calls of the
  last handler with their order. `Stored` is what `snprintf` keeps of a name in
  128 bytes.
* **BusSystem.** Agent and manager (`Member`) send the same three requests from
  their timers (`mesh_obj_create_timer_cb`, `cfgmgr_regmsg_timer_cb`); what
  `mbus_cli` sends is `msg_timer_callback` of its `options`, chosen when it
  starts: nothing without a name or without group and peer, a login alone
  without a text, else the login, then create, join and message for the group if
  there is one and a private message for the peer if there is one. `Joins` are the groups a
  program asks for. A program has a connection (`link`), and what it sent and the
  daemon has not read is `pipe`, a lossless queue (that is what `IoStream`
  shows). The end of a program cuts the queue anywhere, and the daemon
  reads what is left before it reads the end (`handle_close`). `queued` are the
  connections for which the daemon has something in its write queue. Messages
  are sent with MSG_NOSIGNAL by `io_write` but without it by `handle_write`, so a
  second send to a program that has ended kills the daemon (`Ends("broken")`).
  A name is free again when the daemon has handled the close.
* **IoStream.** `io_write` either sends at once (queue empty) or queues; the send
  takes any part that the socket has room for. A first send that finds the
  socket full is `SendLater`, with the byte before the packet; from then on
  `shifted` is set and the channel is `broken`. Both programs of a connection
  set O_NONBLOCK.
* **KamiList.** `next`, `prev` and `list` are the members of `KamiListNode`; a
  call that is refused is a step of no action. `list` is a BOOLEAN, as there is
  one list. In a longer list `KamiListDelHead` clears `node->list` twice, the
  second time for the new head; what would follow is cut by `KnowsHead`.
* **TlvCodec.** An item holds its children in order, which stands for the
  `next` and `prev` links of `KamiTlv_S`; bytes are numbers; the buffer is the
  bytes written and a size.
* **MhTimer.** `phase` is where `eloop_run` is; `wake` what `epoll_wait` was
  given; `cur` what `expire_timer` read of the clock before it ran anything. A
  timer may be set while it is in the heap, as the manager does with its own,
  which is then there several times with one time and one index.
* **AutoConf.** Agent and manager are connected by a lossless FIFO (`toMesh`);
  what the agent sends the manager is handled in the agent's step, since a
  delay on that way is the same as one before the step. `nbr_1905` is the list
  of neighbours, the first of which `find_controller` returns; `bh_almac` the
  address the manager was given. `m2buf` holds for each fragment its band and
  whether it came with a header. `Answer` is the controller. `Restart` is the
  end and start of the agent, which loses its neighbours, what was queued for it
  and perhaps what arrived. The manager's timer is always set: its callback sets
  it again.

## 3. Runs

`tlc -config <cfg> <module>`; the longest, `autoconf_all`, takes about
a minute and three quarters.

| run | configuration | shows |
|---|---|---|
| `mbusd_any` | 2 slots, 2 cells, 3 user names, 2 groups; second logins and overflowing packets allowed | lists and pointers are sound whatever programs send: `ArgLive`, `UniqueNames`, `UniqueGroups`, `MembersAreUsers`, `MembersOnce` |
| `mbusd_deployed` | 3 slots, 3 cells, 3 users, a group and the empty name; one login per connection, packets fit | `BackPointers`, `OneCopyEach`, `ImplementsBus` |
| `mbusd_longnames` | one name longer than its field | violation of `UniqueNames` |
| `bus_system` | an agent and `mbus_cli`, 2 connections, 2 groups, 4 command lines: mesh group and peer; a peer alone; a group and no text; no name; one message under way beside | whoever is accepted is in the groups it asked for (`RegisteredJoins`); the daemon dies of a closed connection only after a slow reader ended (`OutlivesQuickReaders`); old names are freed (`GhostsFreed`); a program whose name is free gets in, and into the groups it asks for (`EventuallyMember`) |
| `iostream_all` | packets of 2 and 4 bytes, buffer 4, queue limit 7, socket 3, 4 packets; the socket may be full at any time | `ArmedWhileQueued`, `WmemIsQueue`; `NothingLost`, `NoReset` and `ImplementsChannel` (safety and liveness) until a first send finds the socket full |
| `iostream_misread` | the same | violation of `OnReadGetsPackets` |
| `klist_all` | 4 nodes, one list, one iterator | `WellLinked`, `NothingMissed`; the list is a sequence, and each call acts on the node it names at the place it names (`ImplementsNodes`) |
| `tlv_all` | trees of up to 4 items, 1- and 2-byte types, buffer starts at 4 bytes | `LengthIsBytes`, `BufferHolds`, `Found` |
| `timerheap_all` | 6 timers, 3 times | `HeapIsQueue`, `InOrderUnlessDeleted` |
| `timerheap_delete` | the same | violation of `InOrder` |
| `mhtimer_loop` | 3 timers, delays 1 and 2, clock to 3, up to 3 copies of a timer | the loop does not sleep past the timer on top of the heap (`SleepsUntilDue`); `DueTimersRun`, `LoopGoesOn` |
| `autoconf_all` | 2 radios, M2 in 1 or 2 fragments, answers prompt or late, another device, and two disturbances, each a lost packet, a RENEW, a "reconfig" or a restart of the agent | `ConfiguredByController`, `UndoneByResponseOnly`, `KeepsController`, `KeepsTrying`, `EventuallyConfigured` |

### Bounds and why they are enough

* *Mbusd.* Three slots let a message have a sender, a receiver and a third
  connection that takes over a slot, a cell or a name; cells equal slots, so
  memory is reused at once. The state is finite, nothing is cut. The proofs of
  section 5 hold for any numbers.
* *BusSystem.* Two connections are one program and its predecessor's, or two
  programs that write to each other; one message of agent or manager (`MaxMessages`)
  is what fills a queue before a program ends. The command lines take every branch of
  `msg_timer_callback`, both ways. The manager does on the bus what the agent does and is
  left out of the instance. Three connections, or three programs with liveness, are beyond
  TLC here; the safety properties are proved for any number of programs, connections,
  groups and command lines, and for programs that share a name.
* *IoStream.* The socket (3) is smaller than a large packet (4), so that sends
  and receives split packets everywhere; the limit (7) holds one large packet
  and part of another, so that the queue fills and refuses; four packets
  (`MaxPackets`) fill socket, queue and buffer at once.
* *KamiList.* With four nodes there is one at each end, one inside and one to
  add or delete beside it; the state is finite. The proofs hold for any set of nodes.
* *TlvCodec.* Four items (`MaxItems`) make objects in objects, arrays in arrays
  and siblings before and after them; the buffer starts at 4 bytes, so that it grows
  several times. Values have no or two bytes, types are below and above 127. No length
  comes near 2^16 here; the proofs cover all up to `MaxLength`, the largest a `tlv_len` holds,
  which `Fits` keeps items from exceeding (the code does not look).
* *TimerHeap.* A deletion that breaks the order needs a heap of three levels
  with the last element in another branch: six timers. Three times give less,
  equal and greater.
* *MhTimer.* `Horizon` ends the clock before it wraps: the program has been up
  for less than 2^32 milliseconds. Three timers make a tree with two children,
  and so do three copies of one (`MaxCopies`).
* *AutoConf.* `MaxMesh` and `MaxAir` bound messages under way: one pass of the
  timer sends at most two, an answer adds one, and each is answered by at most
  two fragments. `MaxSpent` bounds the disturbances of a behaviour, two of one kind or of
  different ones: a lost fragment or a restart in the middle of an M2 leaves the buffer
  dirty for the next one, and the second, also of the same kind, meets what the first has
  left. That radios are configured after more than two is not checked; the safety
  properties are proved for any number.

### Fairness

* `IoStream`: the reader is served and the writer's EPOLLOUT handler is called
  when there is room, which level-triggered epoll does; a program may end at
  any time. Nothing is asked of programs.
* `BusSystem`: the registration timer of a program runs; the daemon accepts,
  reads and closes what it can. Nobody has to read what it is sent, start, end
  or speak, and the daemon need not be started again.
* `MhTimer`: the loop goes on and `epoll_wait` ends when its time is over.
  Handlers and descriptors are free to do anything, or nothing.
* `AutoConf`: weak fairness of both loops, of the arrival of packets that are
  not lost, and of the controller's discovery (other devices may be silent).
  `EventuallyConfigured` is stated for `prompt`, answers within a pass of the
  timer: with later ones a CONTROLLER_INFO_RSP can take a radio back from SEND_M1
  for ever. `KeepsTrying` needs no such assumption.

## 4. What the runs found

1. `mbusd_longnames`: the login compares the name as sent and stores it cut to
   127 bytes; two users get one name (`mbusd.c:43`, `user_manager.c:19`).
2. `iostream_misread`: the -1 of a send on a full socket is used as a number of
   bytes, and the stream is shifted by one (`eloop_event.c:96`).
3. `timerheap_delete`: the element that fills a hole is only moved down
   (`minheap.c:115`); a later timer may run first, which
   `test/mh-timer_test.c:16-21` calls an error.

Some properties hold only under a condition, which says what the code does:

* `EventuallyConfigured` asks for `fragments = 2`: an M2 of a single fragment is
  put in the buffer without its header (`cfg_mgr.c:366`) and parsed too late; the
  radio is never configured. It also allows for `Misled`: every device that
  announces itself is recorded as a controller (`cmdu.c:298`) and the first one is
  given to the manager (`core.c:127`).
* `EventuallyMember` speaks of programs whose name no other connection has
  (`Alone`). One that starts before the daemon has closed its predecessor's
  connection is refused, and nothing registers again (`cfg_mgr.c:519`).
* `OutlivesQuickReaders`: a program that ends with messages of its queue
  unread may take the daemon with it (`eloop_event.c:198`).
* `Found` does not speak of an empty item at the end of a message
  (`tlv_parser.c:470`), nor of 1-byte types from 0x80 on, which are widened as
  signed (`tlv_parser.c:47`).

## 5. What is proved

Assumptions on the constants, each named in its module. `Mbusd`:
`StoredAssumption` (cutting a name gives a name, and cutting twice is cutting
once), `NullAssumption`, `HeapAssumption` (finite sets, a cell for every slot).
Some theorems assume `NamesFit` (no name is cut, which the run `mbusd_longnames`
shows to be necessary) or `Deployed` (also one login per connection and packets
that fit). `KamiList`: NULL is no node. `BusSystem`: each program has a name,
finitely many connections. `AutoConf`: the controller is another device than
the agent; one or two fragments. `TimerHeap`: times are numbers, the time before
any timer ran among them. `MhTimer`: delays are positive and below the modulus of
the clock, and the clock ends before it wraps. What a theorem about the loop assumes beside
is in its statement: `ShortExpiry` (the timers that run in one pass take less than
half the clock, 24 days), `NoneDeleted` (the program deletes no timer, as all but the
agent, `core.c:59`), `NoWrap` (no timer is set for a time behind the clock's wrap). `IoStream`: `StreamAssumption` (a header has
bytes, buffer and socket hold some) and `PacketsFit` (every packet fits in the receive buffer, which
is smaller than the limit of the queue: 8192 and 16384 bytes). `TlvCodec`:
`CodecAssumption` (types fit in their bytes, a value has at most `MaxLength` bytes, the
buffer starts with some room).

| theorem | statement |
|---|---|
| `MbusdProofs!TypeCorrect` | `Spec => []TypeOK` |
| `MbusdProofs!ListsSound` | `NamesFit => (Spec => []ListInv)` |
| `MbusdProofs!ArgsLive`, `NamesUnique`, `GroupsUnique`, `MembersRegistered`, `JoinedOnce` | the five parts of `ListInv`, which the run `mbusd_any` checks |
| `MbusdProofs!UsersAreConnected` | `Deployed => (Spec => []BackPointers)` |
| `MbusdProofs!Refinement` | `Deployed => (Spec => ImplementsBus)` |
| `MbusdProofs!NamesHeldOnce` | `Deployed => (Spec => []Bus!OneHolderPerName)` |
| `MbusdProofs!MembershipsEnd` | `Deployed => (Spec => []Bus!MembersAreLoggedIn)` |
| `MbusdProofs!DeliveredOnce` | `Deployed => (Spec => []OneCopyEach)` |
| `KamiListProofs!LinksSound` | `Spec => []WellLinked` |
| `KamiListProofs!LoopMissesNothing` | `Spec => []NothingMissed` |
| `KamiListProofs!ListIsSequence` | `Spec => ImplementsNodes` |
| `BusSystemProofs!TypeCorrect` | `Spec => []TypeOK` |
| `BusSystemProofs!AcceptedAreMembers` | `Spec => []RegisteredJoins` |
| `BusSystemProofs!QuickReadersEndSafely` | `Spec => []OutlivesQuickReaders` |
| `BusSystemProofs!OneLoginEach` | `Spec => []LoginsOnce` |
| `BusSystemProofs!KnownByOwnName` | `Spec => []NamesOwn` |
| `BusSystemProofs!CompanyIsABus` | `Spec => [][Bus!Next \/ BusEnds]_bus` |
| `BusSystemProofs!NameInCompany` | `Spec => []Bus!OneHolderPerName` |
| `BusSystemProofs!MembersInCompany` | `Spec => []Bus!MembersAreLoggedIn` |
| `BusSystemProofs!PublishedToAll` | `Spec => [][PublishReaches]_vars` |
| `BusSystemProofs!FreeNamesGranted` | `Spec => [][NotRefused]_vars` |
| `BusSystemProofs!GhostsRunDown` | `Spec => [][GhostRunsDown]_vars` |
| `IoStreamProofs!TypeCorrect` | `Spec => []TypeOK` |
| `IoStreamProofs!ArmedCorrect` | `Spec => []ArmedWhileQueued` |
| `IoStreamProofs!WmemCorrect` | `Spec => []WmemIsQueue` |
| `IoStreamProofs!StreamCorrect` | `Spec => []NothingLost` |
| `IoStreamProofs!NeverReset` | `Spec => []NoReset` |
| `IoStreamProofs!ChannelSafety` | `Spec => Channel!Init /\ [][Channel!Next]_(Channel!vars)` |
| `TimerProofs!TypeCorrect` | `Spec => []TypeOK` |
| `TimerProofs!HeapCorrect` | `Spec => []HeapIsQueue` |
| `TimerProofs!OrderCorrect` | `Spec => InOrderUnlessDeleted` |
| `TimerProofs!LoopTypeCorrect` | `LoopSpec => []LoopTypeOK` |
| `TimerProofs!SleepCorrect` | `LoopSpec /\ []ShortExpiry => []SleepsUntilDue` |
| `TimerProofs!EarliestRunsFirst` | `LoopSpec /\ [][NoneDeleted]_loopVars => []EarliestFirst` |
| `TimerProofs!NoTimerOverslept` | `LoopSpec /\ []ShortExpiry /\ [][NoneDeleted]_loopVars => []NoneOverslept` |
| `TimerProofs!ExpiryRunsDown` | `NoWrap => (LoopSpec => [][RunsDown]_loopVars)` |
| `AutoConfProofs!TypeCorrect` | `Spec => []TypeOK` |
| `AutoConfProofs!Invariant` | `Spec => []IInv` |
| `AutoConfProofs!ConfiguredOnlyByM2` | `Spec => []ConfiguredByController` |
| `AutoConfProofs!ConfiguredStays` | `Spec => UndoneByResponseOnly` |
| `AutoConfProofs!ControllerKept` | `Spec => KeepsController` |
| `AutoConfProofs!M2Configures` | `Spec => [][WholeConfigures]_vars` |
| `AutoConfProofs!OneFragmentInVain` | `Spec => []SingleNeverConfigures` |
| `TlvCodecProofs!Invariant` | `Spec => []CodecInv` |
| `TlvCodecProofs!TypeCorrect` | `Spec => []TypeOK` |
| `TlvCodecProofs!BufferNeverOverrun` | `Spec => []BufferHolds` |
| `TlvCodecProofs!LengthCounted` | `Spec => []LengthIsBytes` |
| `TlvCodecProofs!ItemsFound` | `Spec => []Found` |

**Type correctness** of `Mbusd` is inductive as it stands, since `TypeOK` says
that the list of clients has no duplicates: `user_delete` removes one
occurrence and frees the cell. In `BusSystem` it is the statement that the
connection a program holds is its own.

**The daemon's lists.** None of the five invariants is inductive alone. The close
handler frees the client it finds by name: that this is the client `io->arg`
points to (`ArgLive`) needs `UniqueNames`; that no membership outlives its user
(`MembersAreUsers`) needs that `leave_all_group`, which removes one entry per
group, removes all there is (`MembersOnce`). `ListInv` is their conjunction. It holds
also for programs that log in twice or overflow their buffer.

**The daemon implements the bus.** `Inv == TypeOK /\ ListInv /\ BackPointers`. The
mapping reads who a connection is through `io->arg` and what it joined through
its name. Each handler is shown to be one step of `MsgBus` (lemmas `...Refines`);
the main point is `ForwardsToMembers`: the clients found by walking the group's
names are exactly the other connections that joined, which needs unique names in
both directions and `BackPointers`. `BackPointers` fails without `Deployed`: a
second login leaves a client whose slot points elsewhere. What the bus keeps true
(`BusInv`) is inductive as it stands, and the daemon has it through the refinement:
the abstract names and memberships are those of its connections.

**The list is a sequence.** The invariant names the sequence: there is one, of
`size` nodes, with which `head`, `tail`, `next` and `prev` agree in both
directions and which holds the nodes that say they are listed (`Linked`); what the
iterator has not returned yet lies on the side of it that is still to be
walked (`Ahead`). Each call is shown to change that sequence as `NodeList` says, and a
sequence that agrees with the pointers is the only one, so that the mapping,
which chooses it, gives `NodeList`'s next state. `NodeList` allows any insertion and
any removal; that a call is the one it names, at the end, node or index it is given, is
`ActsAsNamed`, for which the lemmas give the node and the place of each. The walk `KamiListAt` needs
induction on its steps, for which `SetInduction` states the library's theorem
about a set in place of a predicate.

**Accepted programs are members.** Which groups a program asks for is read off what its
timer sends under its command line (`AsksFor`), so that an `mbus_cli` with a peer alone is
promised none. What any timer sends is `WellOrdered`: a login first, if at all, and each join
behind the creation of its group. `RegisteredJoins` is strengthened to what the queue of requests
holds: a login is followed by the joins (`JoinsLater`), before which the group is there or
will be created (`CreatesFirst`), and a connection that is nobody's has left nothing
(`CleanWhenFree`).
`OutlivesQuickReaders` needs that a queue for a program that has ended was there
when it ended (`QueueInv`): the daemon's `io_write` to such a program fails and
queues nothing.

**The programs and the daemon's assumption.** `Deployed` supposes that a connection
logs in once. `LoginsOnce` says that the programs of the repository do so: a
connection never has two logins in its queue, nor one when it has its name. It needs
`ArmedFirst` (before its timer has run a program has neither asked for a name nor got
one) and that a descriptor's next connection finds nothing of the last
(`CleanWhenFree`). With `NamesOwn`, a connection's name is that of its program;
so a name the daemon has granted is one that some connection's program has, and a login with a name
that no other has is granted (`NotRefused`). `OnTheBus` reads the composition as
the message bus itself: each step is one of `MsgBus`, or the daemon's end, which
leaves the bus as it starts. What `MsgBus` keeps true therefore holds among the programs, across ends and
restarts, and with `RegisteredJoins` it gives `PublishReaches`: what is published to a group
reaches every accepted program that asked for it and whose join is handled, although its
sender never asks who is there.

**The byte stream is a stream of packets.** `IInv` has three parts. `TypeOK` and
`QueueInv` need each other: an item of the queue is never empty, so that the
EPOLLOUT handler that sends all bytes leaves no item to keep EPOLLOUT for, and
what it takes off `wmem_size` is the sum over the items it drops (`TotalConcat`). `StreamInv`
holds until `shifted`: there is a sequence of packets, accepted and not handed
over, whose bytes are what is in the receive buffer, the socket and the queue, in
that order (`Stream`). io_write appends to its end, the handlers move bytes
inside it, and `__read_cb` cuts its first packets off: `ReadPackets` shows
that reading bytes that begin a sequence of packets gives the packets that are
complete, and a rest that is shorter than the packet it begins. So a buffer that
was read from never holds a whole packet (`RoomLeft`), which fits in it by `PacketsFit`;
hence `NoReset`. `ReadPackets` is an induction on a
recursive function, and so are `Total` and `FlattenSeq`: `RecursionExists` and
`DescendingInduction` of `ListLemmas` derive from well-founded recursion over a
set that such a function is what its definition says, and go down its calls.

**The heap.** While a shift runs, the array has a hole: what was there has left or
is yet to come, and its index is not to be trusted. The invariant of both loops
says so. `Indexed` and `Known`: every timer but the one that will fill the hole
and the one that left it is where its index says, and not in the hole; `Holds`: the
same timers are in the heap as before. `Around`: every timer comes after its
parent, and the children of the hole after its parent. A rise adds that the
children of the hole come after the timer that will fill it (`Over`), so that it
may stop when the parent does not come after it (`Under`); a sink adds `Under`
and stops at `Over`. Both loops are recursive functions; `RiseEnds` and
`SinkEnds` show that a set of holes no turn leaves has the hole in which the loop
ends, and that a further turn would change nothing there, since each turn
halves or increases the position. `min_heap_delete` calls the sink for any
position, where `Under` may be false: that is where the order goes, and why
`OrderInv` is claimed only until a timer was deleted. `HeapIsQueue` is not touched
by that.

**The loop.** In `MhTimer` a timer may be in the array several times, with one
index, and what is left of the invariant is `Placed`: a timer that has an index is
there. That is enough for the types. The heap is then a bag: `Count` is the number of positions
whose timer is in a given set, and each move of a walk is shown to keep it, a push to
add one and a pop or a deletion to take one (`MoveCounts` to `DeleteCounts`). A timer that is set while it is set
gets a new time in all its places, and has no other timer beside it (`Alone`): its
heap is ordered since all times in it are equal (`OrderKept`, where `AllocatedInv` says that a timer not
allocated is not in the heap). Without deletions the top is the earliest (`EarliestFirst`). The sleep is the
difference of two `uint32_t` as an `int`: `SignedDifference` is the arithmetic of it, in which
the only bound is that the time on top is not further back than half the clock,
which holds since what was due when the pass began has run (`ShortExpiry`). Together: no
timer is overslept. `RunsDown` is what keeps `expire_timer` from running for ever: the number of positions whose
time has come (`ExpiredLeft`, by `Count`) falls with each timer run and does not rise
when handlers set timers, since the clock was read before the first of them.

**Auto-configuration.** `TypeOK` bounds the M2 buffer by one fragment and one more for
each lost fragment or restart. The reason is an order of frames (`TypeInv`): one that is
not the last of its M2 is followed by the last, so that the manager reads a
fragment it put in the buffer out again before it puts in another, unless what
was to follow was lost (`BufferInv`). `IInv` adds to `ConfiguredByController` that the M2
buffer has parts of received M2s only (`BufferHeard`), that what is under way
from the network is the controller's (`Types`), and that the manager's address is
the first neighbour's (`ToldOfFirst`). The main lemma, `SentIsIgnored`, is that
what the agent publishes of its own sends, the manager's M1 among it, leaves the
manager as it was. `ControllerKept` rests on neighbours being appended: the
first one stays the first. `M2Inv` is about what the buffer begins with: as the last
fragment empties it, the first one in it came with its header (`HeaderFirst`). When M2s have
two fragments a last one follows its first on the way (`Preceded`), which is in the
buffer when the last is next, unless something was lost (`FirstKept`); so an M2 that arrives
configures its radio (`WholeConfigures`). When they have one, the buffer is always empty,
nothing in it ever has a header, and no radio is configured, whatever happens.

**Messages.** `CodecInv` says that the items are trees. `Linked`: an item is listed, once,
by the item it names as its parent and by no other. `Ranked`: there is a rank that every
item has below its parent's, so that no item is above itself. `Counted`: the length of a
container is the sum of what its children add, that of a TLV the number of its bytes. Attaching keeps `Ranked`
because the code's walk to the root (`Ancestry`) does not meet the item attached, and
keeps `Counted` because that walk is a chain: each item above gains the increment in
exactly one child and in its own length. From the rank, `RankInduction` gives what the
printer writes (`BytesAre`): an item's bytes are its header and its body, a body is the bodies
and headers of its children in order. `BodyLength` is `Counted` read in bytes, hence
`LengthIsBytes`; and `PutHolds`, that a call of `Kami_Tlv_Ensure` leaves one byte of room,
carried over the pieces, is `BufferHolds`. For `Found`, `BodyIsSent` writes the body as one row of items,
objects inside it opened. `FlattenPlaces` gives the place at which each of them starts, and
`ItemIsRead` what a parser that stands there reads: the item and, from its length, the
next place. `FoundAll` is the induction down from the last item; there the loop's end
test, `<=` a header, is what loses an empty one. At last, the items of one type are told apart by
how many come before (`NumberTells`).

### Only model-checked

* Liveness (`ImplementsChannel`'s, `GhostsFreed`, `EventuallyMember`, `DueTimersRun`,
  `LoopGoesOn`, `KeepsTrying`, `EventuallyConfigured`): the prover does not
  reason about fairness and ENABLED. The steps most of them are made of are theorems:
  `GhostsRunDown`; `FreeNamesGranted` and `AcceptedAreMembers`; `NoTimerOverslept`; `ExpiryRunsDown`;
  `M2Configures`; `ChannelSafety` and `ArmedCorrect`.
* `OnReadGetsPackets` and `InOrder`, and `UniqueNames` of `mbusd_longnames`, are false: the
  runs of section 4 show it. Every safety property of the other runs is a theorem above.

## 6. Not modelled

* Allocations that fail, except that a refused `client_t` leaves the login
  without effect. Among them: a request that is filled in before the test for
  NULL (`bus_msg.c:366`, `385`) and the M2 buffer that a failed realloc frees
  (`cfg_mgr.c:134`). The array of descriptors, which `eloop_create` allocates
  and does not clear (`eloop_event.c:270`), is taken to be zero.
* Failures of `epoll_ctl` and `fcntl`; the set-up of sockets; a descriptor beyond
  the array of connections (`mbusd.c:346`).
* The heartbeat's sleep of ten seconds: no program of the repository sends one.
* The wrap of the millisecond clock after 49 days, with which `DueTimersRun` is
  false of this code.
* The agent's own announcements and its discovery timer, which changes nothing in
  other programs of the repository, and its answers about topology and
  capabilities, which change nothing it keeps.
* Messages no program of the repository prints: the codec's arithmetic on
  malformed lengths, and lengths near 2^16.
* SIGPIPE in the programs: the agent ignores it, the manager does not.
* Iteration by the macro `Iter_From_Tail`, which ends in a stray semicolon
  (`list.h:33`) and does not compile as an argument; the walk from the tail is
  modelled by the function's own parameter.
* Packet sockets and filters, the WSC body, the thread pool (no operation adds
  a task), utilities and manual tests: I/O, data, or without a caller.

Each that can hurt is a hazard in `PROJECT.json` with a note, or is told there
to be without one.

## 7. Plan

Done, in this order: `Mbusd` with `MsgBus` and their refinement (the core: all
other programs depend on it); `IoStream` with `PacketChannel`; the heap and the
loop; auto-configuration; `KamiList` with `NodeList` and their refinement;
`TlvCodec`; `BusSystem`, programs and daemon with crash and restart; `Agent` in
place of the assumptions of `AutoConf`; timers that are pushed twice; the safety
of auto-configuration; the proofs about the heap and `TlvCodec`, then those about
the sleeping loop, the bus with its programs and the M2 buffer.

Left:

1. The discovery timer of the agent (`core.c:20`), as an action of `MhTimer`'s
   handlers, once something of the repository depends on the announcements.
2. The wrap of the clock in `MhTimer`, with the bound on delays under which a
   comparison by difference would be right.
