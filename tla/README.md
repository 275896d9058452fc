# A TLA+ model of dyco-coroutine

dyco is a coroutine library in C. Each thread has at most one scheduler, which
multiplexes stackful coroutines over one epoll instance; on top of it the library
offers semaphores, channels, wait groups, publish-subscribe channels, pools,
asymmetric coroutines, signals and hooked system calls. This directory models
all of these and the two data structures they rest on, and checks them with TLC on
small instances. The safety properties of all of them but the two data structures are
proved with TLAPS for instances of every size, some under rules on their use that the
sections below name.

## The system

### Parts, their state and their operations

| part | source | state | operations |
|---|---|---|---|
| scheduler loop | `src/src/dyco_schedule.c` | status, current coroutine, two ready queues, timer tree, `fd_co_map`, epoll set | run (phases A timers, B urgent, C ready, D events), schedule/cancel a sleep or a wait, stop, abort |
| coroutine life cycle | `src/src/dyco_coroutine.c` | `cid_co_map`, `coro_count`, flags per coroutine | create, create_urgent, sleep, waitev, setUrgent, unsetUrgent, abort, exit, stack check |
| schedule calls | `src/src/dyco_schedcall.c` | the pending call | stop, abort, sigprocmask |
| semaphore | `src/src/dyco_semaphore.c` | value, queue of eventfds | create, wait, signal, destroy |
| half duplex channel | `src/src/dyco_channel.c` | status, message, two eventfds | create, send, recv, destroy |
| wait group | `src/src/dyco_waitgroup.c` | set of ids, number finished, waiters per target | add, done, wait, destroy |
| publish-subscribe channel | `src/src/dyco_pubsub.c` | status, message, subscribers, missing acknowledgements | publish, subscribe, destroy |
| coroutine pool | `src/src/dyco_coropool.c` | free list, number active, waiters | create, obtain, return, resize, destroy |
| asymmetric coroutines | `src/src/dyco_asymcoro.c` | chain of resumers | create, resume, yield, free |
| signals | `src/src/dyco_signal.c` | signal masks, one signalfd per coroutine | init, wait, destroy, waitchild |
| epoll and poll | `src/src/dyco_epoll.c` | one epoll fd per coroutine | init, add, del, wait, destroy; hooked epoll_wait and poll |
| sockets | `src/src/dyco_socket.c` | none of their own | accept, connect, send, recv, sendto, recvfrom, each with its waits and retries |
| hash table | `src/include/dyco/dyco_htable.h` | buckets with chains, count | insert, find, delete, resize, clear with callback |
| red-black tree | `src/include/dyco/sys_tree.h` | links and colours | insert, remove, find, minimum, next |
| queues | `src/include/dyco/sys_queue.h` | intrusive links | BSD macros |
| hook table, TLS | `src/src/dyco_hook.c`, `dyco_ssl.c` | none | dlsym; waitev around OpenSSL |
| context switch | `src/src/uctx_*` | registers | swapcontext |

### How they interact

Everything that suspends a coroutine goes through the same five steps: register
an fd (`schedule_sched_wait`), set a timer (`schedule_sched_sleep`), `yield`,
cancel the timer, cancel the registration. Semaphores, channels, wait groups and
pools create or share an eventfd for this and let the other side write it; signals
use a signalfd, `dyco_epoll_wait` an epoll fd, and the socket calls the socket.
They therefore rely on three promises of the scheduler: a coroutine whose fd is
readable is resumed (`EventWakes`), one whose time is up is resumed
(`TimeoutReturns`), and no other one is (`WakeJustified`).

Coroutines are not preempted. A call is atomic up to its `yield`, and from there
to its return; in between any other coroutine may make any call.

### Behaviours that are hard to test

`PROJECT.json` lists them with their source lines under `hazards`. The main ones:
an event and a timeout of the same wait in one round of the loop; keys of the
timer tree that coincide; stop, abort and re-run in the middle of a batch; a
coroutine killed between its registration and its suspension; notifications that
are in flight while others wait, signal, time out, resize or close; counters that
several coroutines count down; a signal mask that each context has for itself;
a message that the kernel takes in parts.

## Modules

| module | what it is |
|---|---|
| `Scheduler` | the scheduling core; actions for each loop iteration and library call |
| `SchedulerOverflow` | `Scheduler` with coroutines that `checkstk` kills inside `waitev` |
| `Semaphore`, `CountingSemaphore` | `dyco_semaphore.c`, and what it promises |
| `Channel`, `OneSlotBuffer` | `dyco_channel.c`, and what it promises about messages |
| `WaitGroup` | `dyco_waitgroup.c` |
| `Pubsub`, `Broadcast` | `dyco_pubsub.c`, and what it promises |
| `Coropool` | `dyco_coropool.c` |
| `Asymcoro` | `dyco_asymcoro.c` with the stack copying of `dyco_coroutine.c` |
| `Signals` | `dyco_signal.c` with `dyco_schedcall_sigprocmask` |
| `Epoll` | `dyco_epoll.c` with what the end of a coroutine does to its epoll fd |
| `Socket` | `dyco_socket.c` with `waitev` |
| `HTable`, `FiniteMap` | `dyco_htable.h`, and what it promises |
| `RBTree`, `OrderedSet` | the red-black tree of `sys_tree.h`, and what it promises |
| `MCScheduler`, `MCSchedulerOverflow`, `MCSemaphore`, `MCChannel`, `MCWaitGroup` | instances of one module for TLC |
| `MCNotifications`, `MCContainers`, `MCCoroutines`, `MCBlockingCalls` | instances of several modules that share nothing |
| `Sublist` | the lists of suspended coroutines that `Pubsub`, `WaitGroup` and `Coropool` have in common |
| `QueueLemmas` | lemmas on sequences without repetition: adding to them, taking from them, unlinking a node; induction over the natural numbers |
| `SchedulerProofs`, `SemaphoreProofs`, `ChannelProofs`, `WaitGroupProofs`, `PubsubProofs` | theorems about one module each |
| `CoroutineProofs` | theorems about `Asymcoro`, `Signals` and `Epoll` |
| `BlockingCallProofs` | theorems about `Coropool` and `Socket` |

The definitions whose names end in `_Something` next to a definition
(`CancelSleep_TimerKept`) are mutants: plausible bugs that no action uses. They
show that each property can fail.

An environment constant of a module (marked so where it is declared) says how the
program that uses the library behaves, or what the kernel does. Where the code has a
flaw, or the documentation a rule that nothing enforces, the constant excludes it so
that the rest can be checked; setting it to the other value shows the flaw.

### Scheduler

`phase` is the place in `dyco_schedule_run`. `LoopTest` is the loop condition,
`Expire`/`ExpireDone` phase A, `RunUrgent`/`UrgentDone` phase B,
`RunReady`/`ReadyDone` phase C, `Poll`/`Dispatch` phase D. While a coroutine runs,
`curr_thread` is not `NULL` and the user function may make any call; `Yields`
holds those that give the thread back. The user function is arbitrary.

- The queues are sequences, the timer tree is a set of coroutines with their keys
  in `sleep_usecs`, the hash tables are a function and a set. A key outlives its
  timer, as in the code, because `RB_FIND` compares keys only.
- Coroutines are addresses: a freed one can be allocated again.
- `exitAdd`, `exitDel` and `exitRun` are the places where `DYCO_MUST` or
  `DYCO_MUSTNOT` ends the process.
- `UsecPerMs` and `UintMod` scale 1000 and 2^32 down; products wrap at `UintMod`.
- `due` is a history variable: when the current sleep or timed wait should end.
- After `SchedAbort` the queues and trees dangle, as in the code, and
  `dyco_schedule_run` refuses an aborted scheduler. That nothing freed is resumed
  (`curr_thread` in `NoDangling`) is claimed after an abort too; the other claims on the
  structures end there.
- `Punctual`: the event and the timeout of one wait do not both happen before the
  waiter runs (`late_timer` is the run without it). `FreshKeys`: no deadline equals
  another coroutine's old key; without it `RB_FIND` finds the other one's timer,
  removes it, and `NoneLost` fails.

The modules below assume of the scheduler what `Punctual` says.

### Semaphore and Channel

A suspended wait is `notifyfd[c] # NULL` (`Semaphore`) or `pc[c]` (`Channel`). One
action models the call up to the yield (`WaitBlock`, `SendBlock`, `RecvBlock`) and
one from there on (`WaitEnd`, `SendEnd`, `RecvEnd`). `Channel` also has the
scheduler's step in between (`Dispatch`, `Expire`): there the eventfd is shared, so
it matters whether a coroutine that has been notified is still registered.
In `Semaphore` every wait has an eventfd of its own and this step is invisible.

`Exclusive` in `Channel`: callers start a send only while no other coroutine is
suspended in one, and the same for recv. Timeouts, closing and role changes remain
free. Without it, a second sender adds the eventfd of the first once more and
`DYCO_MUST` ends the process (`AddNeverFails`). What holds without it is proved
(`ImplementsBuffer`).

A message is the number of its store operation; sizes, contents and the allocation
of memory are abstracted. Calls refused for their arguments are in `SendRefused`
and `RecvRefused`.

### WaitGroup

`Add`, `Done` and `Destroy` are one action each. A wait is answered at once
(`WaitPoll`, `WaitNow`) or split at its yield (`WaitBlock`, `WaitEnd`). It has an
eventfd of its own, so the subscriber lists are sequences of coroutines and `count`
holds the eventfds' counters; a second notification adds to the first, as
`eventfd_write` does. `reported` is a history variable. `ReportOnce`: a member calls
`done` once. The code counts a second call again, and a wait for all tests for
equality, so without `ReportOnce` it may be passed over.

### Pubsub

A subscriber has an eventfd of its own, and `count` its counter. `Publish` and
`Destroy` notify the list and wait on `pub_notifyfd`; `SubscribeEnd` counts `ack_rem`
down, and whoever brings it to zero notifies in turn (`PublishEnd`, `DestroyEnd`).
`ack_rem` is unsigned and wraps at `WORD`, which is 16 in the run and any number not
below the number of coroutines in the theorems. A node is unlinked from `sublist` by
`Unlink` of `Sublist`, which wait groups and pools use too. `owed` is a history variable of the
refinement of `Broadcast`: what a subscriber has still to be given.

`PollAt` has the statuses at which a subscribe with timeout 0 is made. Such a call on
an idle channel (`EMPTY`) takes the status for the last acknowledgement and writes an
fd nobody waits on, which ends the process; the run has polls while a message is
published. A channel is destroyed while nothing is being published. All calls are made
inside a coroutine: outside of one `psc_subwait` and `psc_pubwait` do not wait but return
the status, which the model leaves out.

### Coropool

The pooled coroutines are alike except that one that was never obtained has no
scheduler yet, so the free list is a sequence of Booleans. `Take` is what follows
`cp_wait` in `cp_obtain`, after an immediate return (`ObtainNow`) as after a suspension
(`ObtainEnd`); `Return` is the end of a lent coroutine and its notification. `Grow`
and `Shrink` are the two branches of `cp_resize`.

`cp_resize` and `cp_destroy` test `isasymmetric` the wrong way round
(`dyco_coropool.c:180`, `:205`). The coroutines of a symmetric pool are handed to
`dyco_asymcoro_free`, which does not find them in `cid_co_map` and returns, as its `assert`
is compiled out (`dyco_coroutine.h:9` defines `NDEBUG`): they leave the list, are never
freed, and the pool goes on. Those of an asymmetric pool are handed to `freecoro`, which
follows the scheduler of the coroutine, null if it was never obtained: the model stops
there (`ended`). One that was obtained is counted out of the scheduler's `coro_count` a
second time, which the module does not have. `QuietDestroy`: nobody waits for a pool that is destroyed; otherwise a
notified client reads freed memory, which the model also has.

### Asymcoro

`stack` is whose frames lie on the one stack of the scheduler, `ret` where an
asymmetric coroutine returns to. `resume` and `yield` copy frames in and out
(`loadstk`, `savestk`); `dyco_asymcororesume` does not save the coroutine it is called
from. `Independent` is the rule of the documentation: inside a coroutine, only those
with a stack of their own are resumed, or ones not yet started, which get theirs by
`setStack`. Nothing enforces it: `setStack` refuses a coroutine that has started, and
without the rule `StackIntact` fails.

### Signals

`swapcontext` saves and restores the signal mask, so the scheduler and every
coroutine have a mask of their own, and `dyco_schedcall_sigprocmask` has the
scheduler change its own. `Deliver` is the default action of a signal that the running
context does not block: SIGCHLD is discarded, the others end the process.
`dyco_signal_waitchild` is split between `waitpid` and the signalfd, since the child
may end there.

`MaskRestored`, a conjunct of `MasksAgree`, compares the mask of the scheduler with
`InitialMask`, that of the thread at the start, from both sides: no signal blocked at the start gets
unblocked, and while no coroutine waits for signals none is blocked besides, except
SIGCHLD, which stays blocked after `dyco_signal_waitchild`. The run has SIGCHLD in it; with
an empty one the signal of a child that ends in that gap is discarded, and
`WaitChildReturns` fails. `Exclusive`: one coroutine at a time uses
`dyco_signal_init`. When two overlap, the second destroy restores the mask that the
first had set, and `MasksAgree` fails.

### Epoll

An epoll fd belongs to a coroutine (`dyco_epoll_init`), to one call of the hooked `poll`,
or to the program (`Shared`, for the hooked `epoll_wait`). `Suspend` registers it with the
scheduler's, `EventWakes` and `TimerWakes` are the loop, `Resume` the cancellation.
`blocked` says that the thread hangs in `poll_f`, `exited` that an `epoll_ctl` inside a
`DYCO_MUST` failed.

`Careful`: a coroutine ends only after `dyco_epoll_destroy`, because `freecoro` removes
its epoll fd from the scheduler's a second time, which fails; and one coroutine at a
time waits on the shared fd. `QuietPoll`: `poll` has no timeout and nobody else reads
its fds; otherwise the `poll_f` that follows the wait, called with the full timeout,
finds no event and blocks the thread. Without either, `WaitsAgree` fails.

`Abort` frees all coroutines and leaves `fd_co_map` and the epoll set as they are; the
loop then ends (`aborted`), and a registration may outlive its coroutine only from there
on. The hooked `epoll_wait` with timeout 0 hands 0 on as the number of events, so that
the call fails and changes nothing; it is left out.

### Socket

A listening socket with a backlog and a stream socket with a peer that reads, writes,
answers a connect, closes its side or resets the connection. After a close what is
left can still be received, then 0 (`NothingReceived`), and sending goes on. `TryAccept`, `TrySend` and `TryRecv` are the
system calls with their results, `Suspend` and `Return` the two halves of `waitev`.
`out` holds the bytes the peer has not read, each as its position in its message and
the length of that message, so that a byte sent twice or left out shows.
`OneCaller`: one coroutine at a time uses a socket; two of them would register
it twice, which ends the process, and `StreamAgrees` fails. SIGPIPE is ignored.

### HTable

A bucket is a record with its first entry and the sequence of the chained ones.
`Insert` contains the growth (`Rehash`). `htable_resize` empties only bucket 0 of the
new table: the others stay as `calloc` left them and are walked as entries of id 0,
which a second growth moves like any other. The model keeps these entries and takes
keys other than 0, as coroutine ids and targets are; fd 0 is the one exception in the
library. `FiniteMap` tells clearing from deleting by `open`, so that a deletion that
loses further entries cannot pass for a clearing. The callback of a clear or delete
does not change the table, and a cleared table is initialised before it is used.

### RBTree

The tree is a record of the root and the fields `left`, `right`, `parent` and `color`
of the nodes; every assignment of the macros is an update of it, in their order. The
macros are written twice, for left and right: a side is a parameter here. `OrderedSet`
is the set of keys, with the answers to minimum, maximum, next and previous. The
macros loop by recursion (`RECURSIVE`), so the module has no theorems.

## What TLC checks

| run | asks | result |
|---|---|---|
| `scheduler` | 3 coroutines, 1 fd, urgent batches of 1, ready batches of 2, waits with and without timeout, punctual | holds: `StructuresAgree`, `NoneLost`, `WakeJustified` |
| `scheduler_live` | 2 coroutines, batches of 1, sleeps and waits without timeout, under fairness | holds: `ReadyRuns`, `TimeoutReturns`, `EventWakes`, `RunReturns` |
| `notifications` | semaphore: 3 coroutines, waits without timeout; publish-subscribe: 4 coroutines, 2 messages, timeouts, polls, destroy | holds: `Conservation`, `IsCountingSemaphore`, `WaitersReleased`, `NoIdleToken`; `CountsAgree`, `FreedUnused`, `IsBroadcast`, `NotifiedReturn` |
| `channel` | 3 coroutines, 4 messages, exclusive use | holds: `PersistentSucceeds`, `IsOneSlotBuffer`, `WaitersServed` |
| `waitgroup` | 3 coroutines, targets 1, 2 and all, with and without timeout, members report once | holds: `ListsAgree`, `NotifiedInTime`, `WaitersReleased` |
| `containers` | hash table: 7 ids, 2 data, widths 1 to 3; tree: 8 keys | holds: `TableAgrees`, `ClearFreesEach`, `IsFiniteMap`; `IsRedBlackTree`, `AnswersAgree`, `IsOrderedSet` |
| `coroutines` | 1 symmetric and 2 asymmetric coroutines; 2 coroutines with 2 signals and a child each; 2 coroutines, 2 fds and their epoll fds | holds: `StackIntact`, `ResumersReturned`; `MasksAgree`, `WaitChildReturns`; `WaitsAgree`, `EventReturns` |
| `blocking_calls` | pool: 3 clients, sizes 1 to 3, both kinds; sockets: 2 coroutines, messages of 1 and 3 bytes, a buffer of 2 | holds: `PoolAgrees`, `NoLostWakeup`, `NeverOverlent`, `WaitersServed`; `StreamAgrees`, `ResultsJustified`, `CallsReturn` |
| `late_timer` | timed waits, not punctual | `WakeJustified` fails |
| `stack_overflow` | a coroutine killed inside `waitev` | `RunReturns` fails |
| `semaphore_timeout` | waits with timeout | `NotifyNeverFails` fails |
| `channel_close` | closing releases who waits, by the documentation | `ClosedReturns` fails |

The four runs that fail are disagreements between the code and what its
documentation or its own assertions say; `PROJECT.json` quotes both sides under
`findings`.

Four runs have components that share nothing: `component` says which of them a
behaviour is about, the others stay in their initial states. The state space is the
sum of theirs and not the product. A property of a component that does not move
holds there trivially, so nothing is gained or lost by the union.

Most modules have one invariant that gathers what their data structures agree on,
with the type invariant as its first conjunct: `StructuresAgree` (`Scheduler`),
`CountsAgree` (`Pubsub`), `ListsAgree` (`WaitGroup`), `TableAgrees` (`HTable`),
`PoolAgrees` (`Coropool`), `MasksAgree` (`Signals`), `WaitsAgree` (`Epoll`),
`StreamAgrees` (`Socket`). The conjuncts have names and comments of their own. The
type invariants of `Semaphore`, `Channel` and `Asymcoro` are part of the inductive
invariants of their proofs.

### Bounds, and why they suffice

- `MaxUsec` ends the clock. It is large enough for one full sleep or timed wait
  followed by another one that an early resumption would cut short.
- Batch limits of 1 and 2 for three coroutines make batches end early, so that coroutines are left
  in the queues across the other phases, while an empty queue still ends it too.
- Two coroutines and one fd give every contention for a registration; the third
  lets one run while two are queued, or waits while two others act.
- `MaxPosts` and `MaxSent` bound histories only. With 4 signals the value reaches
  `SEM_VALUE_MAX`, the queue a node of every coroutine, and several tokens are in flight. With 3
  or 4 messages, a sender is suspended twice and a receiver that was notified meets
  a sender that has begun to wait.
- `WaitGroup`: with three coroutines, one reports and one joins while the third
  waits; targets 1 and 2 are reached, passed and waited for late.
- `Pubsub`: of four coroutines one publishes, two are notified and the fourth
  subscribes late or times out; two messages tell a message from a later one.
- `Coropool`: with three clients one waits, one overtakes it and one resizes. Sizes 1 to
  3 shrink the pool below the coroutines lent; `MaxFree` bounds growing and shrinking in turn.
- `Asymcoro`: a symmetric coroutine resumes an asymmetric one that resumes another.
  The theorem has no bound.
- `Signals`: one signal for `dyco_signal_init`, and SIGCHLD; one coroutine waits for a child
  while the other takes signals, starts or ends.
- `Epoll`: two coroutines meet at the shared epoll fd and at the fds.
- `Socket`: a message of 3 bytes does not fit into the buffer of 2, even when it is
  empty, and is followed by one of 1 byte. `MaxBacklog` bounds what the peer has
  sent.
- `HTable`: `MAXALPHA` is scaled down to 1 and `MAXWIDTH` to 3, so that a table of
  width 1 grows twice and seven entries fill the last width. The ids collide modulo
  2, 4 and 8, and two of them fall into bucket 0 at every width. This matters: a
  bucket that a growth left zeroed keeps its entry of id 0 in front, so only in
  bucket 0 is a stored entry followed by others, and deleting it pulls one of them up.
- `RBTree`: trees of up to eight nodes have black height 3 and reach every case of
  both colour loops, on both sides.
- Deadlock is checked in `channel` and `containers`. In the other runs a process
  may have ended in `DYCO_MUST`, a component may have been destroyed, the clock is bounded, and
  waiting for ever for what nobody does is legal.

### Fairness

`Scheduler`: the thread goes on executing the loop; a user function calls
something that yields, or returns (this is what cooperative means); the clock
advances. No fairness is assumed of events or of the main program.

`Semaphore`, `Channel`, `WaitGroup`, `Pubsub` and `Epoll`: weak fairness of the steps
the scheduler takes for a coroutine whose fd is readable or, in `Channel`, whose time
is up. `scheduler_live` checks that the scheduler provides it, for events and for
sleeps. Timed waits are not part of that run: what `late_timer` shows would break the
liveness of later calls too, and a punctual environment may hold the clock back for
ever. No coroutine is assumed to call anything.

`Coropool` adds that the functions lent to the pool end (`Return`). `Socket` adds that
timers expire and that the peer goes on reading; a peer that never does leaves a send
suspended for ever, as the code has no timeout there. `Signals` adds that a running
coroutine gives way, and has strong fairness for waking and resuming: whether a
signalfd is readable can change while other coroutines take the signal, and only the
scheduler, which polls in every round, may run in between.

## What is proved

All theorems hold for every finite set of coroutines and every value of the
constants that the named assumption of the module allows. The clock bound
`MaxUsec` and the history bounds are constants as well, hence arbitrary. TLC
evaluates the assumptions in the runs, and every inductive invariant was checked by
TLC before it was proved. `PROJECT.json` lists the theorems.

The assumptions are mild: names that stand for "nobody" (`None`, `Main`, `Sched`) are
not coroutines, sizes are natural numbers, sets that are counted are finite
(`PubsubConstants`, `AsymcoroConstants`, `SignalsConstants`, `EpollConstants`,
`SocketConstants`, `WaitGroupConstants`). A rule on the use of the library
is a hypothesis of the theorem and is named below.

| theorem | of | for every | rule |
|---|---|---|---|
| `TypeCorrect` | `Scheduler` | coroutines, fds, batch limits, timeouts | |
| `StructuresAgree`, `NoneLost`, `WakeJustified` | `Scheduler` | coroutines, fds, batch limits, timeouts | `TimelyWaits` |
| `Conservation`, `NoLostWakeup`, `NotifyNeverFails`, `IsCountingSemaphore` | `Semaphore` | coroutines, signals | no timeouts |
| `IsOneSlotBuffer` | `Channel` | coroutines, messages | |
| `AddNeverFails`, `NoLostWakeup`, `PersistentSucceeds` | `Channel` | coroutines, messages | `Exclusive` |
| `ListsAgree` | `WaitGroup` | coroutines, targets | |
| `NotifiedInTime` | `WaitGroup` | coroutines, targets | `ReportOnce` |
| `CountsAgree`, `FreedUnused`, `IsBroadcast` | `Pubsub` | coroutines, messages, word size | no poll of an idle channel |
| `PoolAgrees`, `NoLostWakeup`, `NeverOverlent` | `Coropool` | clients, sizes, both kinds | |
| `StackIntact`, `ResumersReturned` | `Asymcoro` | symmetric and asymmetric coroutines | `Independent` |
| `MasksAgree` | `Signals` | coroutines, signals, first masks | `Exclusive` |
| `WaitsAgree` | `Epoll` | coroutines, fds | `Careful`, `QuietPoll` |
| `StreamAgrees`, `ResultsJustified` | `Socket` | coroutines, message lengths, buffer sizes | `OneCaller` |

**`SchedulerProofs`.** `TypeCorrect` has no further hypothesis. `TypeOK` is not
inductive: a loop stays within its limit only because a coroutine is resumed below
it, which `TypeInv` adds. The others assume `TimelyWaits`, which the
`scheduler` run satisfies: the environment is `Punctual` or no wait has a timeout,
deadlines are fresh, and times are short enough not to wrap. This is where the flaws
end: each conjunct excludes one of them, and `late_timer` shows what happens without
the first. Then `WaitsAgree`, `DelNeverFails`, `QueuedOnce`, `NoDangling`,
`TimersAgree` and `DoneMeansDone`, together `StructuresAgree`, as well as `NoneLost`
and `WakeJustified` follow from the inductive invariant `SafeInv`. Its parts:

- `Placed`: a suspended coroutine is in the queues, the timer tree or `fd_co_map`, and
  the running one in none of them. Only a timed wait is in two places, and never in
  all three.
- `InTime`: the timer of a wait that is queued or whose fd is readable has not
  expired, and the fd of a wait that is queued and still registered (its timer has
  expired) is not readable. Without it, `QueuedOnce` could not be carried over
  `Expire` and `Dispatch`, which queue what they find in the tree and in the map.
- `KeysAgree`: the key a coroutine searches the tree with is nobody else's.
- `DueAgree`: a timer does not expire before the deadline the caller asked for, and
  that of a queued sleep has passed.

**`SemaphoreProofs`.** Without timeouts: `Conservation`, `NoLostWakeup`,
`NotifyNeverFails`, and the refinement `Spec => IsCountingSemaphore`. The invariant
`SemInv` says that queued eventfds are open, unwritten, distinct and each
somebody's, and that the value is 0 while the queue is not empty.

**`ChannelProofs`.** `ImplementsBuffer` has no hypothesis: whatever number of
coroutines uses the channel, messages are received once, in order, and none is
overwritten. The proof first shows that every step stores, takes, or only moves the
status within one class (`StepIsDataStep`). Under `Exclusive`: `AddNeverFails`,
`NoLostWakeup` and `PersistentSucceeds`, from the invariant `ExInv`: each eventfd
has one suspended coroutine at most, and that coroutine is either notified or asked
for by the status, never both.

**`WaitGroupProofs`.** `ListsAgree` is inductive as it stands and needs no rule: members
may report twice, waits may time out and come late. The work is in the lists, which
`WaitBlock` inserts into after the first node and `WaitEnd` unlinks a node from; that
both keep one node per waiter are the lemmas `InsertOnce` and `UnlinkOnce`. With
`ReportOnce`, `Counted` ties `finished` to the members that have reported, and with it
no waiter is notified before its target is reached (`NotifiedInTime`, an action
property).

**`PubsubProofs`.** `CountsAgree` and `FreedUnused` are not inductive: that the last
acknowledgement finds somebody who waits on `pub_notifyfd` depends on what was
written to which eventfd. `WriteInv` says it: the status is written to the
subscribers that were there when it was set, and to the publisher or destroyer exactly
when all of them have run. As `ack_rem` counts the former and they are fewer than
`WORD`, it never wraps. `ImplementsBroadcast` maps the steps to those of `Broadcast`,
with `owed` described by the last conjunct of `PubInv`: who is notified during a
publication is owed its message.

**`CoroutineProofs`.** For `Asymcoro`, under `Independent`: `StackIntact` is not
inductive, since after `dyco_asymcoroyield` the control is back in a coroutine whose
frames must still lie there. `AsymInv` says that the running coroutines form a chain
from the scheduler to `curr_thread`, linked by `ret` (`IsChain`), and that all of them,
not only the last, have their frames in place (`FramesKept`). A resume appends to the
chain and a yield takes its last element away. `ResumersReturned` follows the chain
back: `ChainReturned` shows by induction that the recursive function `Returned` reads it
from its end.

For `Signals`, under `Exclusive`: `SigInv` adds to `MasksAgree` that one coroutine at
most has the flag `WAITSIGNAL`, and that the mask it will put back is one `MaskRestored`
allows. For `Epoll`, under `Careful` and `QuietPoll`: `EpollInv` adds to `WaitsAgree` that
each coroutine is suspended on an epoll fd of its own, or alone on the shared one, and
that one woken out of `poll` has an event, so that `poll_f` returns.

**`BlockingCallProofs`.** For `Coropool`, with a finite set of clients and natural
sizes (`PoolConstants`): `PoolAgrees`, `NoLostWakeup` and `NeverOverlent`, for both kinds
of pool and also when it is destroyed under its clients. The inductive
invariant `PoolInv` is the conjunction of the first two. Neither is inductive alone.
A notification takes the first node, and only `NodesAgree` says that this
is a client that was not notified, so that `Cardinality(notified)` grows with what is
available. A resize changes `totalsize` and the length of the free list by different
amounts when the pool is overlent, and `FreeBacked` bounds the one by the other.

For `Socket`, under `OneCaller`: the invariant `SockInv` has three parts. `Waiting`: one
coroutine at most is in a call on each socket, and one woken from accept or send has no
registration left when it goes around the loop again. `Streaming`: the bytes the peer
has not read end with a whole message, or with byte `sent[c]` of the message that the
suspended send has begun; this is what makes the next piece fit to it
(`WholeAppend`). `Received`: one woken from recv by an event has something to read or
sees the end or the reset, which `ResultsJustified` needs.

### Only model-checked

- Liveness, which is out of the prover's reach: `ReadyRuns`, `TimeoutReturns`,
  `EventWakes`, `RunReturns`, `WaitersReleased`, `NoIdleToken`, `NotifiedReturn`,
  `WaitersServed`, `WaitChildReturns`, `EventReturns`, `CallsReturn`.
- `HTable` (`TableAgrees`, `ClearFreesEach`, `IsFiniteMap`): `Rehash` folds over all
  buckets and all chains of a table, and what such a fold computes would have to be
  shown by an induction over operators that the provers cannot instantiate.
- `RBTree` (`IsRedBlackTree`, `AnswersAgree`, `IsOrderedSet`): its loops are
  `RECURSIVE`, which the prover does not support.

## What is not modelled, and why

- A sleep of more than 4294967 ms: `msecs * 1000u` wraps and the sleep ends early. The
  model has the product (`UintMod`); the instances stay below it and the theorems
  assume it.
- A sleep of 2^31 ms or more: the model has the conversion of `uint32_t` to `int`
  (`AsInt`), which turns it into a negative number, but no run uses such a sleep.
- Coroutine ids, which are reused after 2^24 creations: coroutines are addresses.
- What the result 0 of a channel call means: the documentation says the channel is
  closed, the code returns it for a timeout as well. The model has both results and
  states no property about the number. Likewise the sum that a wait for all returns when
  another member joins and reports before it runs.
- Destroying a wait group in which a coroutine waits, and a publish-subscribe channel
  while a message is published: the coroutine then walks freed memory, and the
  documentation does not say when these calls are allowed.
- Resuming an asymmetric coroutine that runs or waits for one it has resumed.
- A table that the callback of `htable_clear_with_freecb` changes; id 0 in a table that has
  grown.
- `sys_queue.h` is used as an abstract data type, and so are the hash table and the
  tree in the other modules. After a double insertion (`late_timer`) the pointers of
  a TAILQ no longer form a list; the model shows how the coroutine is resumed twice,
  not the broken links. The splay tree macros of `sys_tree.h` are used nowhere.
- The context switch is taken as atomic, and the copying of a shared stack as moving
  all of its frames.
- Creating and closing sockets and datagram sockets; the dlsym table of `dyco_hook.c`.
- The TLS wrappers, compiled only with `DYCO_SSL_ENABLE`: whether they wait depends on
  what OpenSSL has buffered, which is not in the source.
- Failure of `malloc` and of `eventfd`.
- Several schedulers: each thread has its own and they share no state but the id
  counter.

## Plan

1. An abstract specification of the scheduler as its clients see it (suspend, event,
   time, resume), refined by `Scheduler`, and the composition of the other modules
   with it in place of their fairness assumptions.
2. Proof of `IsFiniteMap` of `HTable`, with `Rehash` as a recursive function.
3. `TailQueue`: the TAILQ macros on pointers, refined by sequences as long as
   `QueuedOnce` holds; what a double insertion does.
4. `HTable`: clearing with a callback that deletes from the same table.
