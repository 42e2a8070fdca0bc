# Formal models of libvapi

libvapi is a C library for event-driven applications on Linux: an event loop on
top of libevent, timers, pending events, signals, commands in child processes,
allocators, compressed files, logging, and a console for debug commands. This
directory holds TLA+ models of it, the TLC configurations that check them and proofs that
TLAPS checks. Line numbers are those of the files under `src/` and `export/`.

## The system

| Component | State | Operations | Hard behaviour | Correct when |
|---|---|---|---|---|
| event loop, `vloop.c` | per thread: action list, event base, statistics; a global list of loops | create, delete, process actions; add, enable, disable, remove descriptors; `vloop_main` | callbacks call back into the loop while it walks its own lists; libevent may block, and serves the highest priority first | every action runs once, in order, in a later cycle; no freed node or event is reachable; the loop does not sleep on work |
| memory pools, `vmem_pool.c` | extents, free list threaded through the free blocks, statistics | create, alloc, free | long sequences that empty and refill the list; malloc fails halfway | each block is free or lent; capacity as promised |
| allocators, `vmem.c` | chain of allocators with lock, options, callbacks | create and delete pool, malloc family, callbacks | defaults installed while pools are created; options and callbacks read without the lock | defaults reach every allocator, no block has two holders, only callbacks are called |
| debug command queue, `vtnd.c` | bufferevent pair, current request, action, overall timer | enqueue, read, get, set and finish context, timeout | a deferred callback, an action and a timer race to run the next command | one command at a time, in order, none forgotten |
| debug command dispatch, `vtnd_text*.c` | tables of modules and commands | link, unlink, parse, execute | one count tells modules of commands from modules of handlers; dispatchers call the parser again | a command reaches the handler that was registered for it |
| debug console, command files, `vtnd_console.c`, `vtnd_file.c` | terminal, input line; the lines of a file | read, split into requests, run those of a module | input cut anywhere, a full buffer, lines longer than a request | the requests are the lines, in order; what is dropped is dropped whole |
| pending events, `vevent.c` | timer, cancel action, memory of each event | new, set timeout, cancel, delete | the event is freed by its own callbacks | at most one of occurred, timeout and cancel |
| commands, `vsystem.c` | list of commands with pid, pipes, event | exec, timeout, data, SIGCHLD, terminate | signals merge and are lost, children end at any time, callbacks start commands | each command is reported once with the right reason |
| signals, `vsignal.c` | self-pipe, table of callbacks | register, deregister, handler, dispatch | asynchronous handlers, another thread's loop | a signal reaches the registered callback in its thread, a killed process leaves a record and no children |
| timers, `vtimer.c` | list per thread, timerfd or event, state | start, expire, delete, priority | a callback deletes its timer | fires as often as its type says |
| semaphores, `vsem.c` | an eventfd, a list of waits, each a pending event | new, free, wait, post, cancel | one unit wakes the loops of all who wait | each unit is taken once, and used |
| on-demand events, `vloop_demand_event.c` | a non-blocking pipe per handle | add, remove, trigger from other threads | messages merge, reads cut them, pipe full | what is executed was asked for |
| logging, `vlog*.c` | modules, levels, outputs | register, set levels, print | one name for several clients; levels of modules and outputs combine | identifiers tell modules apart; a configuration has the effect it reports |
| virtual files, `vfs.c` | cache, compressor and decompressor, buffers | write, flush, seek, close, read | pieces of any size meet buffers of any size | what is read is what was written |
| print buffers `bufprintf.c`, times `vtime.c` | buffers, time values | append, add | boundaries | bounded, exact arithmetic |

The components meet in the event loop. Everything that happens in an application
is a callback of it: an action, a libevent event of a descriptor, a timer, or an
event posted by the signal code. The debug queue uses a loop action and a timer;
an event uses a timer and, for cancellation, an action; a command owns an event
and is reaped from the callback of SIGCHLD; all memory comes from the default
allocator and may come from a pool.

`PROJECT.json` lists for each component what is and is not modelled, and, under
"hazards", what is hard to test in it.

## Modules

| Module | Models |
|---|---|
| `VPool` | what a client of a pool may rely on: a set of blocks, available or lent |
| `VMemPool` | `vmem_pool.c` at the level of link words, head, tail and extents |
| `VActionQueue` | what a client of actions may rely on: a first-in first-out queue from which actions can be deleted |
| `VLoop` | `event_process_loop`, `vloop_action_process`, descriptors, their priorities and the callbacks that use them |
| `VList` | `vlist_delete` on lists as sequences, used by `VLoop`, `VSystem` and `VTimer` |
| `VTnd` | the debug command queue: bufferevent pair, deferred read callback, action, overall timer |
| `VEvent` | the life of pending events (`vevent.c`), a module that owners compose with |
| `VCommand` | what `vsystem.h` and `vevent.h` promise of a command |
| `VSystem` | commands, children, SIGCHLD, the self-pipe and `_sigchld_handler`; extends `VEvent` |
| `VTimers` | what `vtimer.h` promises: one-shot timers are called once, periodic ones often, none after its deletion |
| `VTimer` | the timers of one thread: types, expiry, callbacks, the linked list, timerfd descriptors |
| `VSignal` | `vsignal.c`: registrations of several threads, handlers, the self-pipe, the events it posts, fatal signals |
| `VSem` | `vsem.c` with waits in several loops; extends `VEvent` |
| `VDemand` | `vloop_demand_event.c` with its user, the debug commands for another thread's loop in `vloop.c` |
| `VTndText` | modules, dispatch modules and commands from C and C++, and how a request becomes a call |
| `VMem` | `vmem.c`: the chain of allocators, its lock and the pools' locks, options and callbacks |
| `VLog` | `vlog.c`: modules, their clients, identifiers, levels, the syslog configuration |
| `VFs` | compressed files of `vfs.c` |
| `VConsole` | how the console cuts what is typed into requests, and a file of commands its lines |
| `VSeqFacts` | lemmas about sequences: those that stand for linked lists, scans of a text, induction on sets and lengths |
| `VMemPool_proofs`, `VLoop_proofs`, `VTnd_proofs`, `VSystem_proofs`, `VTimer_proofs` | the theorems about one module each |
| `VEvents_proofs` | the theorems about `VSignal`, `VSem`, `VDemand` and `VTndText` |
| `VData_proofs` | the theorems about `VMem`, `VLog`, `VFs` and `VConsole` |
| `MCV*` | a module's instance for TLC |
| `MCEvents`, `MCData` | instances of several modules that share no state (`VTndText`, `VSignal`, `VSem`, `VDemand`; `VMemPool`, `VLog`, `VMem`, `VFs`, `VConsole`): a behaviour is one of a module that the initial state chooses, so each module is explored as if alone |

Definitions whose comment begins with "Variant" are deliberately wrong forms of
the definition that follows them. Each
property fails when the definition is replaced by one of them (or by an
operation that has the same parameters and does less); no other definition uses
them.

**VMemPool.** An operation is one step, since its callers hold `alloc_lock`.
Blocks are numbered in the order in which their memory is obtained, addresses are
these numbers, and `word[b]` is the first word of block `b`: a link while the
block is free, the client's (`USER`) while it is lent. `free` and `used` are
history: the list the links should represent and the blocks clients hold.
`Create`, `AllocRefused`, `Alloc` and `Free` are the whole of the three exported
functions, with the failure of malloc as a choice in `TakeFirst`. 

**VLoop.** `pc` is the place in `event_process_loop`, `running` the callback on
the stack; a callback may call any operation any number of times before it
returns, also during a drain. `local_list` is the list on the stack of
`vloop_action_process`. A handle owns one or two libevent events; libevent and
the kernel are `ready` and `active`. Every event has a priority `prio`: the
middle one when it is created (`DefaultPrio`, which libevent chooses), the
highest for the on-demand event of `vloop_init` (152, 268), and what callbacks
set with `SetPrio` (334-342). One call of `event_base_loop` is `Poll`, then
`Dispatch` of the events whose priority has its `turn`, the highest that is
active; `Dispatched` polls again, without blocking, while events of lower
priorities are active, and only then does the loop come back to its actions. So
libevent may serve a high priority for ever; the liveness properties say so
(`Overtaken`). Initialisation, a failing `event_base_loop` and running out of
events lead to "exit". `vloop_set_max_prio` (318-332), with which an application
would change the number of priorities, is not modelled, nor what libevent makes
of events that exist then.

**VTnd.** The loop is reduced to its two phases: in "actions" the actions of a
drain run, in "events" libevent runs callbacks until no deferred one is pending,
so `EndOfEvents` waits for `readcb`. The two bufferevents are two sequences and
`Transfer` is what libevent does between them. `helper` says that
`buffer_event_cb_read_helper` is on the stack. Clients finish a command in any
later callback. Two constants widen what clients do: `EnqueueAnywhere` lets them
enqueue in actions and in commands (the console does so only in its read
callback), `LateAnswers` lets them finish a context also after the overall
timeout.

**VSystem.** `proc` is the kernel's view of a child, `commands` is `g_commands`,
`todo` what `vlist_foreach` has still to visit (with the node it has fetched in
advance: a command appended by a callback is visited in the same pass unless the
last node is being handled). SIGCHLD is one pending bit, then an entry of the
bounded self-pipe, then a posted event. A child may also be waited for by other
code (ECHILD). The contents of pipes are left out; that a read event exists is
not, until the child closes its output, which it may do before it ends
(`DataHandler`). `Extended` are the commands of `vsystem_exec_extend`, whose
children report a failed exec differently. A freed command's fields go back to
their initial values, so that equal situations are equal states.

**VTimer.** Time is left out: a timer in `armed` may expire at any moment and is
then `due` until its callback runs. Periodic timers have a period above zero
(libevent does not add an event with a zero timeout again). `list` is history,
the list that `next` and `prev` should represent. `fds` is the process's table of
descriptors, which the other threads (`Others`) use too. A creation that fails
after the descriptor was opened is two steps, `CreateFails` and `DeleteClosed`,
because other threads run between its two calls of close; every other operation
is one step. A call of `vtimer_start_*` without memory changes nothing; a failing
`event_new`, after which `vtimer_delete` uses a NULL event, is not modelled.

**VSignal.** `Main` is the thread that called `vsignal_init` and reads the pipe;
`users` is the table of registrations under its mutex, `calls[t]` the events
posted to the loop of `t`, each with the callback and context that were copied
when the pipe was read. `pending[t]` is what a thread has begun: signal handlers
and `vsignal_reset_default` are several steps, between which other threads and
handlers run. `SA_RESETHAND` is in `FatalHandler`. One raised signal is followed
from its raise on (`owed`); which one is a choice, so a property of it is one of
every signal. `Defaulted` are the signals that `vsignal_init` itself
registers for; the run lets clients register everything.

**VSem.** `val` is the counter of the eventfd; `waiting`, `added` and `ready` are
the contexts of waits, their libevent events, and those that a loop has found
readable but not yet called. Each wait is also a pending event of `VEvent`, whose
timeout or cancellation is `SemWaitCancel`. `CMakeLists.txt` does not list
`vsem.c`, so the library is built without it; the code is complete and modelled.

**VDemand.** Bytes in the pipe are a sequence, a message enters it whole or not at
all, a read takes as many as fit its buffer, and `Execute` does what
`vloop_execute_command` does of what was read: the first command only. That
later commands of the same chunk are not executed is the code's behaviour and
nothing is claimed of them; that no command changes by cutting is. Of the sleep
command the model keeps the period of its timer. How long the timer's callback
sleeps is undefined in the code: its context is the address of a local variable
of a function that has returned (664-668, 682-690), and nothing is claimed of it.

**VTndText.** `mods` are the tables of modules: for each module the list of its
nodes, commands' names or `Handler`, and `len`, which counts the commands and is
-1 in a module made for handlers. `vdbg_link_cmd` and `vdbg_unlink_cmd` do not
look for a dispatch module, so that `LinkCmd` makes -1 a 0 and the module one of
commands, whose handlers `get_cmd_by_name` then reads as if they were commands:
`Mistakable` says when, and what follows (a call of a handler as a command, a
handler's node freed by a wrong pointer) is `wild = "kind"`. The same happens
when a dispatch module is unlinked (331-344). `Called(at, text)` is what a
request ends in. `Word` is empty for a word that is too long, of which there are
two lengths (`Long`, `Longer`), since parser and dispatcher have buffers of
different size; so an over-long second word enters the module at the top (416)
and is an error within it (388). `conn_current` is the module that each connection
has entered. `callbacks`, `cpp` and `dead` are the C++ side: the list of callbacks
of the thread, the commands that use them, and those whose callback has been
freed. `wild` names the memory that was used for what it is not: freed callbacks,
their vector, a handler's node, or the module of a connection after it was
unlinked. Nothing happens after that.

**VMem.** Each critical section of `alloc_lock_` is a step; `chain_lock` and
`pool_lock` are held across steps. `step[t]` is where a thread is in an operation:
inside a pool, creating one (`Inherit`, `Link`), walking the chain, or reporting,
which happens outside the pool's lock and reads options and callbacks once to
decide (`ReportNeeded`) and again to call (`Invoke`). A pool is what
`VMemPool` says of it, a set of lent blocks. A freed allocator stays in the chain,
as in the code; the walk that meets it ends in `memWild`.

**VLog.** Levels are the numbers of the code. Clients register names and have the
`log_id` that was written for them: the second client of a name is told of a
success and gets none (543). `SetSyslogConfig` and `ResetSyslogConfig` change modules
and output together, and `Reported` is what `vlog_get_syslog_config` tells. Before a
configuration is applied, `SetTakesEffect` looks at what it will do, for every
configuration in every state. What a trace passes on its way is not modelled,
because it does not work at this commit: the filters compare `TAG_LEVEL` (193,
212), whose assignments are commented out (1126-1127), and the syslog output is
never opened, as its address is empty (96, 524). Its watch on the relay's file, if
it were, would take any file of the directory for that one (vlog_syslog.c:20-31).
Names are assumed to be shorter than `VLOG_MAX_MOD_NAME`; longer ones are
truncated (557), so that two may become one.

**VFs.** Bytes are numbered in the order they are written. The compressor is what a user
can see of it: it takes bytes and gives out, at any moment, any part of what it owes; a
frame is `Begin`, bytes and `End`. The decompressor may stop at the end of a frame, with
input left and room in its output. `WritePiece` is one turn of the loop in `vfs_write`,
`CopyPiece` and `DecompressPiece` turns of the loop in `vfs_read`. A file ends where a
frame ends only if it was flushed or closed, and reading may seek to the start
(`SeekRead`). When the system fails to write, the behaviour ends: nothing is claimed of
such a file.

**VConsole.** What is typed is, for each character, its kind: text, a space, CR or LF.
A read takes what the buffer has room for; only LF at its end lets the piece be
cut (92), and then both CR and LF end lines. `Cut` is the loop of `strtok_r`,
character by character (`Token`), with the spaces at the beginning of a line left
out, and `Request` makes a request of the line unless it is empty or has
`LineMax` characters or more (53-56). `lost` is the text that was dropped: lines
that are too long, a full buffer, a piece that begins with an empty line. NUL
is not typed, and the terminal is not hung up: `read` returns 0 then, and the
callback looks at the character before the buffer (86). `FileRequests` is the other way
to make requests: `fgets` reads pieces of at most `PieceMax` characters, so that a
line of a file that is too long is not refused but executed in pieces
(vtnd_file.c:66). `FileRunCmd` selects those of a module.

## Runs

| Run | Instance | Shows |
|---|---|---|
| `loop` | three actions, one handle with both directions, two priorities | actions created and deleted in every phase, events removed while active, priorities changed in callbacks, also while libevent goes from one to the next; the lists implement `VActionQueue`; nothing waits for ever, except behind descriptors of a higher priority that are ready again and again |
| `tnd` | three requests | synchronous and asynchronous commands, timeouts, every interleaving of the action with the deferred callback, allocation failures |
| `system` | two commands, one with an output pipe, one started by `vsystem_exec_extend`; self-pipe of one entry | merged and dropped signals, timeouts and cancellations racing the end of the child, commands started from termination callbacks; the list implements `VCommand` |
| `timer` | three timers, one descriptor number | all four types, started, failing, expiring and deleted in any callback; the list stays whole, descriptors and events are owned, started timers are called, periodic ones again and again; the timers implement `VTimers` |
| `events` | one of: debug commands (two names, one connection, requests of two words), signals (two threads, one signal, two fatal ones, a pipe of two), a semaphore (three waits, three units), on-demand events (three messages, pipe of seven bytes, reads of five) | signals reach the callback in its thread and a process that is killed ends in order; units are taken once and by somebody; loops execute what they were asked; commands are not mistaken for handlers as long as no handler was taken for a command |
| `data` | one of: pools (of 3, 4, 5, 6 and 8 blocks, split into fifths, fourths and not at all, two sizes), logging (two clients, two names, two outputs, a level of each kind), allocators (two threads, one pool with one block, three changes of options and callbacks), compressed files (five bytes), the console and files of commands (six characters) | all orders of allocation and release in a pool, each extension granted or refused, counters that wrap: the pool implements `VPool`; identifiers tell modules apart and configuration takes effect; defaults reach every allocator, callbacks may be taken away while they are about to be called; files give back what was written; lines become requests |
| `tnd_anywhere` | three requests | violated: input is not suspended for a request enqueued during the command |
| `tnd_late` | three requests | violated: a context finished after the overall timeout is freed memory |
| `system_handle` | two commands | violated: the handle is freed at the timeout, not after the termination callback |
| `timer_fd` | two timers | violated: a failed creation closes a descriptor that another thread has opened in between |
| `text_cpp` | two names, two connections | violated: unlinking one C++ module frees the callbacks of the commands of all |
| `log_id` | two clients, one name | violated: the second client of a name gets no identifier, although it is told of a success |

Bounds. Three actions are enough for one that runs, one behind it in the same drain and
one created meanwhile; deleting and creating again reuses the same addresses, so runs
are unbounded in length. A handle has at most two events, and handles do not interact;
two priorities let one event overtake another, and be changed to the other's priority
before its turn. Pools of eight blocks have up to four extents of two blocks; for them
`MCData` limits the number of free blocks to four (`FewFree`) once the pool is in use,
because the orders of a longer free list only permute block numbers. Three requests give
one in progress, one in the input buffer and one still in the output buffer. Two
commands let one end while the other is being handled and one be started by the other's
callback; a self-pipe of one entry can be full of SIGCHLD or of another signal. Three
timers have a head, a middle and a tail to delete; one descriptor number is enough for
its reuse by another timer or thread. `total` and `failed` wrap at `CounterMod`; no
other counter is unbounded.

In `events`, two threads are the one that reads the pipe and one that does not, one
signal can change hands between them, and two entries let one be left in the
pipe; `MaxCalls` is one event per loop that waits to be called. Of the fatal
signals one is SIGABRT, which may be expected, and one is not. Three waits for
three units: one takes it, one comes too late, one is cancelled. A read of five
bytes cuts a pipe of seven that holds commands of one, three and four. Two names
serve both as modules and as commands, so a module and a command may share one;
one handler of a dispatch module is enough to be mistaken, and two words are a
module with a command, or with one that is too long. In
`data`, the values are an illegal negative one, an illegal one inside the range,
one above it, and two that are levels on either side of it; two clients compete
for a name. Two threads with one block are enough to be in each other's critical
sections; `MaxChanges` is three, for an option to be set, a callback installed, and
one of them taken away between the two reads of an operation; it is two once the
pool exists, a change of which counts as the third (`MCChanges`). The buffers of
files are two or three bytes with five bytes to write and files of at most seven
tokens when a frame is added: pieces smaller than, as large as and larger than the
buffers, and two frames. A console buffer of five characters with six typed is
filled, emptied and dropped, and with `LineMax` of four a line of four that
fits the buffer is refused; files are read in pieces of two, which six characters
fill, exceed and fall short of.

Fairness. `VLoop` assumes only that callbacks return and the loop's thread runs
(`WF(LoopStep)`); nothing of the kernel or of other threads. `EventsServed` needs
no fairness of single events because libevent does not poll again before all
events of the priority it serves were handled. It does poll again while lower
priorities wait, and what is then ready with a higher one is served first. The
properties therefore promise service to an event of the highest priority in any
case, and to the others and to actions if such overtaking ends (`Overtaken`): the
library exports the priorities and leaves it to the application not to starve
itself. `VTnd` adds that a running timer fires; clients need never answer.
`VSystem` assumes that the kernel delivers a pending signal and ends a child that
got SIGKILL, that the loop handles what is posted (strong fairness, since other
callbacks run in between and disable the action for a moment), and that a client
does not postpone its timeout for ever. `VTimer` assumes that time passes (weak
fairness of expiry) and that the loop gets to a due timer although others are
called in between and that callbacks return (strong fairness). `VSignal` assumes
that each loop comes to its events and to the pipe whatever its thread does in
between (strong fairness) and that a thread goes on with what it has begun; no
signal need be raised and none need be caught by the pipe. `VSem` assumes that
every loop polls and calls what is ready. Deadlock is not checked where a program
may really stop: the loop exits, all requests or commands may be done, a process
ends, a bound on inputs is reached.

## Proofs

All theorems are about every value of the constants under the named assumptions
of the modules (`PoolAssumption`, `TndAssumption`, `SystemAssumption`,
`TimerAssumption`, `SignalAssumption`, `SemAssumption`, `DemandAssumption`,
`TextAssumption`, `MemAssumption`, `LogAssumption`, `FsAssumption`,
`ConsoleAssumption`; `HandleAssumption` and `NPrioAssumption` of the loop). Every
invariant and every action property of the passing runs is a theorem, except
`FileExact`, and so are the refinements of `VPool`, `VActionQueue`, `VCommand` and
`VTimers`.

*Pool* (`VMemPool_proofs`). The inductive invariant `ListInv` joins the types, the
shape of the pool (whole extents that add up to the promise), the representation
of `free` by the links (`FreeListExact`), conservation, the exact counter, and
that a pool without free blocks is fully grown or was refused memory. The
representation alone is not inductive: that a block freed to the tail is not
already in the list needs conservation, and that a new extent is fresh needs the
shape. From `ListInv` follow its parts, that no operation
writes into a block that stays lent, and that each step is a step of `VPool`.

*Loop* (`VLoop_proofs`). `IInv` joins types, the control facts (the local list is
empty outside a drain and holds no action created in it), `QueueSound`,
`NoSleepWithWork`, `NoStaleEvent` and `HighestFirst`. The last holds because no
callback can change the priority of an active event, and a turn begins with the
highest. The two lists are one sequence `queue`;
the lemmas of `VSeqFacts` about appending, concatenating and removing carry the
proof that creating, deleting and running an action are the operations of
`VActionQueue` on it, and that moving the list to the stack is no step at all.

*Debug queue* (`VTnd_proofs`). The invariant `TndInv` is proved under `StrictClients`:
clients enqueue from the console and do not answer after the overall timeout; the
two violation runs show what happens otherwise. It adds `OneReader` to what is
promised (`ServedInOrder`, `NoLostWakeup`, `ContextsAlive`, `TimersGuard`): while a
command is in progress nobody reads, the reader has cancelled the action, and an
action that is due runs before libevent can call the read callback. Without it
a second command could start during the first. `FinishedOnce` is about clients that
do answer late: only such an answer works on a freed request, the timeout itself
never does. It has an invariant of its own, `GuardInv`, and needs only that requests
come from the console.

*Commands* (`VSystem_proofs`). `IInv` joins `Handling` (what `_sigchld_handler` has
still to visit is linked, except the command in `_terminate`), the exact list,
ownership of events, `NoForgottenChild` and `Reasons` (which ties the reason kept
in the command to what the client asked last). `CommandRefinement` maps each
step to one of `VCommand` or a stutter and needs clients that keep to the life
of the handle (`~UseUntilTold`); the invariants do not.

*Timers* (`VTimer_proofs`). `IInv` joins types, `ListExact`, `DescriptorsOwned` and
`EventsHeld`. The proof of the list is that of a doubly linked list: `Linked` says
that `next` and `prev` go from each element to its neighbours, `InsertLinked`
that prepending keeps it, `DelinkLinked` that taking out the head, the middle or
the tail keeps it for the shorter list, by cases on where a neighbour was. That
no descriptor is closed twice to the harm of another timer needs the conjunct
about `closing`: a creation that failed has given its number back already, and
nobody of this thread has taken it. `TimersRefinement` follows from `IInv`: what
can be called is held, so a deleted timer is never called.

*Signals* (`VEvents_proofs`). `SignalInv` joins the types, `AtHome` (a registration's
context and loop are those of one thread), `Prepared` (a thread that is about to
raise a fatal or a default signal again has written its record and stopped the
children, in the order in which the code does so) and the three invariants of
the run. `EndIsOrderly` alone is not inductive: the step that ends the process
looks at nothing; `Prepared` says what came before it.

*Allocators* (`VData_proofs`). `MemInv` joins the types, `Locks` (a lock is held by the
thread that is in its section), `Users` (a thread in a pool's section has what it
had found), `Creating` (between `Inherit` and `Link` the chain lock keeps the
default callbacks as they were read) and `Defaults` (during a walk, what is not
yet visited is what may lack the default). The three properties of the run
follow: the first from the chain lock, the second from the pools' locks, the
third because what is called was read and tested again, once, after the locks.

*Semaphores* (`VEvents_proofs`). `SemInv` adds to the invariants of the run `Woken`
(the libevent event of a wait is in its loop as long as the wait lasts, whoever
else was woken before) and `Empty` (nobody who waits has a unit). Units are
counted by the cardinality of `acquired`; `EndsOnce` needs that a wait's pending
event and its context end in the same step.

*On-demand events* (`VEvents_proofs`). Of the pipe it is enough to know `Framed`:
where a letter is, a whole command that was asked for begins, and a digit or the
end of the pipe is only where the command ends. A read may cut a command, but
a rest that begins with digits is never taken for another one; and a read
that leaves something in the pipe has `ReadLen` bytes, which is at least
`CommandLen`, so that the code refuses it: what is executed ends with the pipe.

*Debug command dispatch* (`VEvents_proofs`). `KindsApart` follows from `TextInv`: as long
as no handler was taken for a command, each module is `Sound`, its `len` is the
number of its commands or one less, and one less if it has handlers. Linking and
unlinking change both sides by one, also in a dispatch module; only where the
node of a handler is deleted as a command's do they part, and there memory is wild.
So a module whose `len` is -1 has no commands, and a request of a command never
ends in a handler.

*Logging* (`VData_proofs`). `LogInv` joins types, `IdsKept` (of the clients of a name one
has the identifier of its module, which no other module has, and the rest have
none) and that debug traces do not go to the daemon. Every operation on levels is
one of replacing the levels of the existing modules by a function (`Relevelled`),
which is why identifiers survive. `SetTakesEffect` and `ResetKeepsOthers` then
follow by cases on which of module and output is the stricter; a configuration
only raises the output, and the minimum that is reported is the module's level.

*Virtual files* (`VData_proofs`). `WriteInv` says that what has left the cache is, in the
file or still in the compressor, a stream of frames whose bytes, with the cache
and the rest of the call, are all that was written. `ReadInv` says that what the
user has, the output buffer and the decompressor, with the bytes of what remains
of the file, are the bytes of the file, and that the decompressor is inside a
frame exactly when what remains begins inside one. That is what a seek to the
start can break (`astray`), unless the rest of the frame was loaded.

*Console* (`VData_proofs`). `ConsoleInv` says that the buffer holds the positions from the
last cut to what was read, that the requests are about positions before it, in
order and apart from what was dropped, that together they are all its text, and
that cutting all that came before gives these requests if nothing was dropped. The
lemma behind it is that cutting a concatenation is cutting one part after the
other when the first ends a line; it also says where the text of a line that is
too long goes.

Induction over data. `Bytes` and `Cut` are recursive functions of a sequence. The
theorems about them do not use the induction rules of the library, which take
operators, but `SetInduction` and `SeqInduction` of `VSeqFacts`, where the property
is a set of numbers or of sequences; and `ScanExists`, that the function that such a
definition chooses exists and is unique.

Model-checked only: `FileExact`, which compares a recursive function of a whole file
with a definition of its lines, for all files of six characters; and liveness
(`ActionsServed`, `EventsServed`, `AllServed`, `AllReported`, `TimersFire`,
`SignalsServed`, `UnitsUsed`), which needs fairness and ENABLED, outside the prover's
reach. The proofs are about the models: that these are the code is for the reader of the
lines in `PROJECT.json` to judge, and a bound on the inputs of a run (`MaxBytes`,
`MaxInput`, `MaxChanges`, ...) is a constant of the model, of any size in a theorem.

## Not modelled

Threads and load control (`vthread*.c*`, `unixthread.cpp`, `vload_control.c`) are
not built into the library. `verror.c`, the print-outs of `vlog_dbg.c`, the tracing
wrapper and the JSON accessor are I/O or calls of external libraries. Formatting
is left out everywhere. Of modelled components the following is left out:

- `vloop.c`: the list of the loops of all threads, the callback of libevent's log,
  command line parsing, `vloop_set_max_prio`, how long the sleep command sleeps.
- `vlist.h`: lists are sequences; only those of `VMemPool` and `VTimer` are
  modelled as pointers.
- `vtnd.c`: the output of a command, the prompt.
- `vsystem.c`: `vsystem_stop_childs` and `vsystem_getpid_by_name`, failures before
  the fork, what is read from pipes.
- `vlog.c`: file outputs and their rotation, the syslog output (never opened at
  this commit), what passes the filters of tags, formats, the callbacks that tell
  modules of a new level; the datagrams to the tnd daemon.
- `vfs.c`: plain files, links, directories and mounted file systems, whose
  functions are system calls without state; power failures.
- `vtnd_console.c`: the modes of the terminal, NUL characters and a hang-up, after
  which the callback reads before its buffer (86).

Hazards that no property covers, beyond those of `PROJECT.json`: `vfs_close` calls
fsync before the cache is flushed, and nobody looks at the result of the last
flush (vfs.c:510, 526); the filters of traces compare a tag that nothing sets
(vlog.c:193); the error path
of adding a handle deletes a read event that was enabled before (vloop.c:450);
an entry of the list of loops is used after its lock is released, while entries
of threads that ended stay (vloop.c:742); the error paths of `vsystem_exec1` leak
a pipe and an event that points to freed memory (vsystem.c:364); a thread other
than the loop's forks, and its child ends before the command is in the list
(402); `vsystem_stop_childs` walks the list in a signal handler without its lock
(679); the second half of a test repeats `tv_sec`, so that a timeout below one
second uses the time that the loop has cached (vtimer.c:250).

A disagreement that is in the model but in no run: exit status 127 "means the
program did not get executed at all so report this as a failure"
(vsystem.c:193-194), but the child of `vsystem_exec_extend` exits with errno (493)
when exec fails, so that such a command is reported as occurred; `ExitReason` says
so.

## Plan

1. Done: `VMemPool`, `VLoop`, `VTnd`, `VEvent` with `VSystem`, `VTimer`, `VSignal`
   and `VMem`, as models, with the proofs of their safety.
2. Done: `VSem`, `VDemand`, `VTndText`, `VLog`, `VFs`, `VConsole`, with
   the proofs of their safety.
3. Open: the pure algorithms of `vtime.c` and `bufprintf.c` against reference
   definitions; the list of the loops of all threads with their debug
   commands; `vloop_set_max_prio` with events that exist.
4. Open: what follows from the proved invariants without being said yet, such as
   the safety halves of the liveness properties (what is queued stays queued until
   it is served), and which requests of the console reach the queue of `VTnd`.
