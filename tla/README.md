# fuse8 in TLA+

fuse8 shows remote files as a read-only file system. A read that comes in
through FUSE becomes a *request*, which is passed down a list of *sources*
(caches, metadata, the local file system, http servers) until it has all it
needs; what was found far down is then written to the caches above. This
directory holds a formal model of the program: TLA+ modules translated from the
C source, configurations with which TLC checks them on small instances, and
theorems that TLAPS checks for every instance. `PROJECT.json` maps each
definition to the lines it stands for, and lists the runs, the mutants that show
that each property can fail, the hazards and the theorems.

Run a check with `tlc -config MCRequestServer.cfg MCRequest.tla`, and a proof
with `tlapm WorkQueueProofs.tla`.

## Inventory

Threads: the *main thread* runs the libevent loop and nearly everything below;
a *fuse thread* for each interface reads from the kernel; 128 *worker threads* run the blocking
calls of file sources and caches; one *background thread* compresses rotated
logs. They meet in two structures of `util/event.c`, each with its own mutex, and
nowhere else by intention; in fact fuse threads and main thread also change the
same reference counts, and read the same list of sources, without one.

| Component (source) | State | Operations | Talks to | What is hard | What makes it correct |
|---|---|---|---|---|---|
| Work queue (`util/event.c`, wqueue) | queue, quit, flags, flags_changed, a condition variable | send_work, get_work, should_quit, quit, set_flags | main thread to workers | which thread a signal reaches; spurious wake-ups; quit between taking and running | no wake-up lost, nobody sleeps through a quit, every job in one place |
| Data event (`util/event.c`, evdata) | queue, mutex, a pipe as bell | send, consume with its callbacks | workers to main thread | bell and queue change at different times; the pipe fills up | no message stuck, order kept |
| References (`util/misc.c`) | strong and weak counts, callbacks | acquire, release, weak ones, until_release | every object | release and free are different events; strong references taken after the release are weak | counts match the users |
| Blocking sources (`syncsource.c`) | the pool: work queue, answers, threads, references | read, write, close, results; sq_destroy, sq_free | request pipeline, sources, both queues | the pool is released in its own callback, and frees itself in a later one | each job run and answered once, the pool freed last |
| Request pipeline (`request.c`, `sourcelist.c`, `source.c`) | the request: source, desired ranges, reply buffer, chunks, references; the list | run, run_next, found_data, error, run_next_write | all sources, the interface | answers late and out of order, failures after partial results, sources that leave the list | one answer, complete and uncorrupted; every reference given back |
| Cache (`sources/cache/*`) | slots in a mapped file shared by processes, queue of blocks to write, lock file | read, write, reflect, open, close, stats | request pipeline, workers | several processes, crashes with a slot locked, eviction by hash | a block read is the block written |
| Http source, client, pool (`sources/http/*`, `util/dns.c`) | gaps still unanswered; requests with retries; connections with states, queue of waiting requests, timer | http_request, done, error, retry, link, resolve, tidy, finish | libevent, DNS, request pipeline | functions that call each other in circles; retries; timer against slow answers; closing from a callback | each request called back once; no connection idle while one waits |
| File source (`sources/file2.c`) | none of its own | read | worker threads | reads a request the main thread owns | one hand on a request at a time |
| Metadata (`sources/meta.c`, and the handlers of `interfaces/fuse.c` that ask it) | tables of inodes, paths and directories, made once at the start | add_file, resolve_dirs; stat, lookup, readdir, readlink | fuse | files in any order and twice; directories resolved in the order of a hash table; listings cut into pieces | the answer for a path is what its last entry says; a listing is whole |
| Failures (`failures.c`) | a list of failed paths with the time of each, a timer | fail, check, tick | request pipeline | timer interval, memory of old failures | a failed path is skipped for a while, not for ever |
| Ranges (`util/ranges.c`) | a list of intervals | add, remove, merge, difference, blockify | requests, caches, http, file | widening, splitting, half-open ends | the same set of bytes |
| Life cycle (`running.c`, `main.c`, `interface.c`, `syncif.c`, `interfaces/fuse.c`) | need_loop, ic_running, references, timers | run, signals, interfaces_quit, fuse_main, close | everything | quit by signal or by unmount, in two threads; 90 seconds to the SIGKILL | the loop ends once, after everything it waits for |
| Background, compressor, rotation (`util/background.c`, `compressor.c`, `rotate.c`, `config.c`) | work queue, files, their names | SIGHUP: scan, delete, rename, reopen, queue; compress; finish | logging, file system | names change under a job; a kill between two system calls; lines written through an old descriptor; jobs dropped at the end | no line lost, archives in order, the end does not hang |
| Logging (`util/logging.c`) | log_fd, messages deferred while there is no log | send, reopen | every thread | the descriptor is read before it is used | no line lost |
| Configuration, statistics, containers | tables, counters | parse, report | - | sequential | - |

## Modules

| Module | Models | Composed with |
|---|---|---|
| `WorkQueue` | wqueue, and the loops of `syncsource.c` and `background.c` around it | `SyncSource`, `Rotate` |
| `EvData` | evdata | `SyncSource` |
| `Refs` | operators on a reference count | |
| `SyncSource` | the pool of blocking sources, start to end | INSTANCEs `WorkQueue` and `EvData` on its own variables, uses `Refs` |
| `JobService` | the abstract service that `SyncSource` implements | `SyncSource` by refinement |
| `Request` | the request pipeline over a list of sources, with the reads and writes of cache, http and file | uses `Refs`; sees http as `FetchService` and the pool as `JobService` promise them |
| `HttpPool` | the http client and its connections | |
| `CacheFile` | a cache file shared by servers, their spools, the lock file | |
| `FetchService` | the abstract service that `HttpPool` implements | `HttpPool` by refinement |
| `Ranges` | the lists of ranges of requests and sources | |
| `Lifecycle` | the program from start to end: interfaces, their threads, the counts that end it | sees the data event of `syncif.c` as `EvData` promises it, sources and the pool by the references they hold |
| `Rotate` | the rotation of a log, the thread that compresses, the writers, kills and restarts | INSTANCEs `WorkQueue` on its own variables |
| `Directory` | the metadata tables and the replies of the fuse handlers | |
| `MC...` | the instances TLC checks | |
| `WorkQueueProofs`, `EvDataProofs`, `SyncSourceProofs`, `RequestProofs`, `CacheFileProofs`, `LifecycleProofs`, `HttpPoolProofs`, `RotateProofs` | theorems; those on `Ranges` are the second part of `CacheFileProofs`, those on `Directory` the second part of `RequestProofs` | `SyncSourceProofs` INSTANCEs those of `WorkQueue` and `EvData`, `RotateProofs` those of `WorkQueue` |

### WorkQueue

Every function of wqueue holds `wq->mutex` from its first line to its last, but
for `pthread_cond_wait`. A call is therefore one action; `wqueue_get_work` is
`GetWork` up to the wait and `Resume` from the moment the thread has the mutex
again. `pc[w]` is the thread's place in its loop: `waiting` are the threads in
the condition's wait set, `woken` those that have left it and are after the
mutex. A signal moves one, a broadcast all, and `SpuriousWakeup` any at any time.
`CheckQuit` and `CheckFlag` are the tests after a thread has taken an item, and
so the place where an item may be dropped. `offered`, `refused`, `done` and
`dropped` are history. Left out: references to the queue, and freeing it.

### EvData

`Send` and `RingBell` are `evdata_send` before and at its write to the pipe, with
the mutex (`ringer`) held in between; the pipe holds `PipeSize` bytes and a
sender waits for room. The hundred attempts of `ring_bell` are not counted, as
the pipe blocks. `ResetBell`, `Swap`, `Deliver` and `Return` are the parts of
`consume`.

### SyncSource

The main thread's handlers are actions that change references and leave the job
they queue in `todo`, which `AddQ` sends, so that threads run in between. A
source's references are `srcRef` (strong and weak, as a job queued by `src_close`
gets a weak one from `ref_acquire`), the pool's `sqRef`, the list's `slRef`. The
last release of the list goes through its sources one after the other
(`closing`, `CloseSource`). `ReleaseQueue` by the last answered close starts
`sq_destroy`: `StopWorkers`, the joins and A_QUIT (`SendQuit`, `RingQuit`), and
`AnswerQuit` ends the pool. A request is only seen at a blocking source: there,
writing to it afterwards, over.

Bounds: each request visits one blocking source. The signal that stops the
workers is `wq_release`, after which the queue's memory is still held by weak
references; its freeing is not modelled.

### Request

One action is one call of `rq_run_next` or `rq_run_next_write`; these call
themselves until a source must be waited for, and `turn` names the request in
hand, so that other handlers run only when it is idle. `owes` are the references
that the caller of the chain gives up when it returns (`Unwind`). A range is a
set of units, a block `BlockSize` of them, and content is `good` or `junk`, so
that a copy from the wrong place can be told. `Fail`, `Fulfil`, `Skip`,
`ReadCache`, `ReadHttp`, `ReadFile` and `Exhaust` are the branches of
`rq_run_next`; `AnswerHttp` and `AnswerFile` the late answers, `WriteNext`,
`FreeChunk` and `WritesDone` those of `rq_run_next_write`. `Evict`, `Reflect` and
`Forgive` are what cache placement, the reflection task and the failure timer
may do in between.

Abstractions: all requests are for one file; a cache is a set of blocks of it, so
that hashing and slots show only as eviction; a cache write is immediate (its
pool is the one of `SyncSource`); weak references that sources hold on the list,
statistics and timings are left out; versions and file names are fixed.

### HttpPool

The functions of `client.c` and `connection.c` call each other in circles:
`try_link` hands a connection to a request, which may fail at once, return it,
retry, join the queue, and so on. The variable `stack` holds what is left to run
of the calls under way, an action runs the innermost up to its next call, and
events of libevent (`HttpRequest`, `Done`, `Resolved`, `Tidy`, `Close`) come only
when the stack is empty. `endpoint` and `cnnRef` are the life of the endpoint and
of the pool. Time is not counted: a tick of the timer chooses what is too old, but
for two facts the code's outcome depends on: requests wait newest first, so that
the old ones are the end of the queue, and `last_used` is 0, always too old, until
a connection is first ready (`used`).

`libevent` is external: `evhttp_make_request` may fail at once, an answer may be
good or bad, DNS may answer at once, later or never, and freeing a connection
drops its request without a call of `done`.

Bounds: one endpoint; a lookup for a freed connection is remembered but not
counted. `MayOutlast` says whether a transfer may exceed `TOO_ANCIENT` (a minute):
the runs take it not to, and see *Findings* for what happens otherwise. Memory
that the code uses after freeing it is taken not to have been reused; `astray`
records the use. A uri that libevent cannot parse is left out.

### CacheFile

Several servers have one file of slots open. Each access of a server to a header
or a block of it is an action of its own, so that servers interleave at every
access and `Kill` comes between any two; what the code does in between in its own
memory goes with the access before or after it. `pc` is where a server's main
thread is:

| `pc` | Code |
|---|---|
| `mark`, `copy` | `cache_check_lock` has read a header with the hash it looks for; it has written the hash of ones (`Find`, `Mark`, `Restore`) |
| `bust`, `relock`, `stamp` | `lock` before its `unlink`, before its second `lock_path`; `lock_path` between the link and the text |
| `scan` | the loop of `reflect_go`, at entry `entry` of the spool |
| `claim`, `fill`, `label` | `cache_queue_write` to the shared file: the header was read, the slot is locked, the block is written (`Choose`, `Claim`, `Fill`, `Label`) |

`thread` is the thread of `fsync_async`: started, or in its `fsync` (`FsyncBegins`), after
which it removes the lock (`FsyncEnds`, `UnlockDone`). `cf_close` does not wait for it but
closes the descriptor: an fsync that has begun goes on, one that has not finds no
file and fails, which nobody looks at, and the lock goes all the same (`FsyncMisses`). A
hash stands for its block (SHA-512 is taken to have no collisions), `Places` is the
set a block may be put in. The text of a lock is the time of its making: of what a
server has seen of it (`seen`) it matters only whether it is the lock there now, or
was empty. Time is not counted: `Hour` makes ancient what has been seen, and comes
only while nobody needs the lock; that is, *a reflection with its fsync takes less
than an hour*. `met`, `lost`, `usurped` and `missed` are history: the slots two servers
have been in at once (or that one was in when another emptied the file), those left
locked by a kill, the servers whose lock another removed while they needed it (until they
do not any more), and those whose fsync came after the close.

Reads of the spool, and blocks passed over, change nothing and are left out; so
are errors of `mkstemp` and of writes, and a kept file that is too short. A server
whose lock was usurped during its fsync does not reflect again before that fsync
is over. `MaxStops` bounds kills and closings.

### Ranges

A call of a function of `ranges.c` is followed range by range: `Merge`, `Copy`,
`Difference`, `Expand` and `Reduce` begin a call and say in `bytes` what the list
should stand for when it is over; `Take` gives its next range to `ranges_add` or
`ranges_remove`, whose loops are `SetAside`, `Unify`, `Spare`, `Free` and `Return`.
`bytes` is defined by membership (a block is touched, or contained), not by the
roundings of the code. A list is a set of ranges: the order of a list depends on
what was done to it and no caller does on the order, so that the loops here take
ranges in any. Ranges without a byte are legal, as a read of no length makes one.
`Reduce` starts from one range, as its only caller does: of two ranges that touch
it would not find the block they share. Offsets are taken not to overflow.

### Rotate

A file system is `dir`, which file a name stands for, and `files`, the lines each
file has; compressing is copying. A name is a number and the endings after it, so
that what is left of `log.0.gz.tmp` by a crash is found, and given a number, by the
next scan as the code does. Every system call is an action:

| Actions | Code |
|---|---|
| `TakeFd`, `WriteLine` | `send` of `logging.c` reads `log_fd`; writes to it |
| `Hup`, `Delete`, `Place`, `Move`, `Reopen` | `rotate_log`: the scan, an `unlink`, the two halves of `rename_file`, the reopening and the queueing of what is to be compressed |
| `OpenIn`, `OpenOut`, `Block`, `BlockFails`, `RenameOut`, `Unlink` | `compressor.c`, by the background thread while `WorkQueue` has it at "run" |
| `Finish`, `Drain` | `background_finish`; the rest of the queue is freed |
| `Crash` | the process is killed, and started on the same directory |

`aged` and `late` are the lines that may go: those in files removed for their age,
and those written after the compressor had come to the end of their file. `raced`
is set when a job works during a rotation later than its own, and when a rotation
leaves a log or archive where it is as its new name is there already (which only
what a kill left behind brings about). `BlockFails` is any
read or write of the compressor that fails. Left out: errors of `rename` and
`unlink`, a log that cannot be opened again, two logs rotated together, and names
with a directory in them (see *Findings*). `MaxRotations`, `MaxLines`,
`MaxCrashes` and `MaxFaults` bound what may happen.

### Directory

`AddFile`, `ResolveDir` and `Loaded` are the parts of loading, for any list of
files in `Configs`; directories are resolved in any order, as the order is that of
a hash table. Then the handlers answer a kernel that knows the root and what it has
looked up: `Lookup`, `GetAttr`, `Open`, `ReadLink`, `Read` (what is asked of the
sources), `OpenDir` and `ReadDir`, which makes the listing anew and cuts it at any
byte of an entry. `reply` is the last request and all its answers. One metadata
source is taken to be in the list (two would use the same inodes: "XXX inode
sharing", `sourcelist.c`); users and groups, times, and errors in an entry itself
are left out.

### Lifecycle

The program ends when nothing needs its event loop any more. Who needs it is
counted in `need_loop`, `ic_running`, the references of each interface, of the
array of interfaces and of the source list (`count`; `listMem` keeps the list's
memory alone). A call under way is a stack of tasks in `work[t]`, for the main
thread and each fuse thread `t`; `Count` is a change of a count, and what a count
has to call at zero (`OnZero`: `fi_close`, `interfaces_quit`, `sl_ref_release`,
`do_exit` and others) goes on top of the stack of the thread that released last.
Every task is an action, so that threads interleave between any two.

| Actions | Code |
|---|---|
| `Create`, `Start`, `Started` (`Enlist`), `Mount` | `ic_fuse_make`, `fuse_go`, its wait, `fuse_main` up to its session; a mount or a session may fail |
| `EndSession`, `Quit`, `Unmount`, `Gone`, `Join` | the end of `fuse_main`, `fi_quit`, `fi_close` |
| `Look`, `Walked`, `Send`, `Consume`, `ReadDone` | a handler's walk along the sources, `si_read`, `if_consume`, `read_done` |
| `Signal`, `QuitNext`, `Arm`, `StatTick`, `Kill` | `user_quit` and its loop; the timers |
| `Swap`, `Unlink`, `CloseSources`, `EndPool`, `Exit`, `EndLoop` | `interfaces_quit`, `sl_ref_release`, the last source freed, the pool's A_QUIT, `do_exit`, the end of `run` |

Counts are changed without a lock. Where two threads are about to change the same
one, `Collide` may happen: it marks the count in `torn`, and the model stops there,
as nothing that follows from a wrong count is of use. Likewise `StartedSoon` marks in
`hasty` an interface that `fuse_go` took for started because of a wake-up without
cause. `Orderly` are the states with neither. `astray` notes what is used after it
was freed, `ender` the thread that ran `interfaces_quit`.

A read may end with something left behind (`left`): a request that fails after some
source has found a part keeps its chunks, and these a reference to that source
(`request.c:172-180`, `218-226`). Such a source never closes, so that `CloseSources` never
comes; if it is one of the pool's (`leftInPool`), neither does `EndPool`.

Abstractions: the sources close together, after the reads under way, and so do those of
the pool; there is at least one blocking source, and statistics are configured; `fuse_unmount` and an
unmount from outside both end the session, libfuse is external; a handler other
than `fuse_read` is a walk without a read. What is replied is left out.

## Runs

| Run | Instance | Shows |
|---|---|---|
| `work_queue` | 3 threads, 3 jobs, flag tested, threads and jobs symmetric | `NoLostWakeup`, `NoSleepThroughNews`, `InOnePlace` with quit and flags set and reset at any time |
| `data_event` | 2 senders, 3 messages, pipe of 2 bytes, gulps of 1 | `NoLostBell`, `InOrder`, and under fairness `EverySendDelivered` |
| `sync_source` | 2 threads, 2 sources, one of them writable, 2 requests, pipe of 3 | `SourceRefsBalance`, `NoJobLost`, `FreedLast` from start to end, and under fairness `QuitEnds`, `ImplementsJobService` |
| `request_server` | 3 reads, two that overlap and an empty one, of a uri for http or for file; cache, reflecting cache, cache, metadata, an http and a file source that may fail | replies, references, caches, writes; one hand on a request; no error while no source has failed; every read answered; every source closed for good that nothing left behind holds |
| `http_pool` | 2 requests, 2 connections, one retry | `InOnePlace`, `NoIdleConnection`, `ClosedMeansFreed`, `ImplementsFetchService` |
| `cache_file` | 2 servers, 2 blocks that share 1 slot, spools of 1 entry, one server keeps the file, one stop | `LabelsAreRight`, `LockedSlotsAreInUse`, `LockCoversWrites`, `SpoolIsPending`, and under fairness `LocksEnd` |
| `ranges` | lists of up to two ranges of offsets 0 to 4, blocks of 2 and 3 | `Faithful` after any sequence of calls |
| `lifecycle` | 2 interfaces, one read, one signal, unmounts and failed mounts | `TakenDownInOrder`, `FreedIsLeftAlone`, `LateWalksNeedASignal`, and under fairness `QuitEnds` |
| `rotate` | 2 rotations, 2 lines, no archives kept or one, one crash, one failed read or write | `NoLineLost`, `ArchivesInOrder`, `FinishRunsAll`, and under fairness `FinishEnds` |
| `directory` | 5 configurations: a tree from the top down and from the bottom up, paths named twice, no root, a directory left out; listings in pieces of 2 and 3 bytes | `AnswersAreConfigured`, `ListingIsWhole` |
| `request_leak`, `http_lookup` | | violations, see *Findings* |

The type invariants that theorems state for every instance (of `WorkQueue`,
`EvData`, `SyncSource`, `Request`, `CacheFile`, `Directory`, `HttpPool`, `Rotate`,
`Lifecycle`) are not checked again by a run, nor is that of `Ranges`, which is there for the
reader.

Why the bounds suffice. Three threads are needed for a signal to reach the wrong
one, with another asleep; three jobs for two to be queued while one is run. A
pipe smaller than the messages and a gulp smaller than the pipe make a sender
block and leave bytes behind. Two sources make two closes overlap, and only the
second may end the pool. A block has two units and the file ends within the
second of three blocks, so that reads start within a block, have a short last
one and gaps; one of the reads is wholly inside the other, so that each meets
what the other cached. In the http instance connections that are bad or whose
lookup failed take the places the queue waits for, and a retry meets its own
earlier failure; one retry and ten differ only in how often.

In the cache file one slot makes servers and blocks meet in it; one server killed at
each of its steps leaves each kind of half-done work to the other.

Two rotations let a job of the first be overtaken by the second, one crash falls
between any two system calls of a rotation or a compression, and its leavings meet
the next rotation; a second line tells whether archives keep their order. Three
names make a listing that ends within an entry for one size of piece and between
two for the other.

Two interfaces make one quit while the other serves, and let either be the last, on
a signal or by an unmount; one read is enough to be in flight at each step of the
end, and one signal to find the array of interfaces at any stage of its release.

Deadlock is not checked where the program may stop: after the quit, or when
nobody asks for anything. `work_queue` has no such state and checks it.

### Fairness

Weak fairness of the main thread's steps: it does not stop within a handler, and
libevent calls a handler whose pipe can be read. Weak fairness of each worker and
of the background thread: the scheduler runs it, a blocking call of a file system
returns; a wake-up without cause is owed to nobody. `Request` takes
each of its answers to arrive, one of an error included; for http that is what
`HttpPool` implements, for the pool what `SyncSource` implements. `HttpPool` asks
for strong fairness of the end of a transfer (libevent gives it up after its
timeout) and of the tick at which a request is found to have waited too long (the
timer is periodic and time passes); other events come in between, so that weak
fairness would say nothing. In
`CacheFile` a handler and a thread go on to their end (weak fairness); the timer
of the spool finds the lock again and again, between other handlers (strong
fairness of `TickLocked`), and hours pass. Nothing gives a server the lock in its
turn, so that `LocksEnd` promises the end of each lock and not that every spool is
reflected. In `Lifecycle` threads go on, the
main thread's handlers run and a request is answered (as `Request` has it); signals,
unmounts, wake-ups without cause and the SIGKILL need not come, so that `QuitEnds`
is not owed to the SIGKILL. `CloseSources` and `EndPool` are fair, but have for a guard that no
read is under way or has left something behind: `QuitEnds` excepts the runs in which one
has. No read has to come, DNS need not answer, no failure
has to happen or to be forgiven, and nobody has to ask the program to quit.

## Proofs

`WorkQueueProofs`, for any set of threads and jobs, from `NoItem` being no job and
`ChecksFlag` a Boolean:

- `TypeCorrect`, `WakeupsAreNotLost`, `NewsIsHeard` and `EachItemInOnePlace` state
  `TypeOK`, `NoLostWakeup`, `NoSleepThroughNews` and `InOnePlace`.
- The inductive invariant is `TypeOK`, `InOnePlace`, `RunsAnItem` (a thread about to
  run has an item: otherwise `RunJob` would put the null item among those done) and
  `NobodySleeps` (`NoLostWakeup` and `NoSleepThroughNews`, which each step keeps
  together: the signal that wakes a thread for an item may meet the broadcast of a
  quit). `InOnePlace` is kept because an item changes place by one step of one
  thread and the queue has no item twice: `QueueJoined` and `QueueLeft` state what
  adding at the end and taking from the front do to what a sequence holds, and
  that it still holds nothing twice.

`EvDataProofs`, for any senders, messages, pipe and gulp larger than 0:

- `TypeCorrect`, `BellIsNotLost`, `DeliveredInOrder` state `TypeOK`, `NoLostBell`
  and `InOrder`.
- `BatchRun` (outside the callbacks the batch is empty) is added, or `Swap` would
  lose what is left of the batch. Two lemmas on concatenation carry `InOrder`
  over `Send` and `Deliver`.

`SyncSourceProofs`, for any threads, chain of sources without repetition, requests,
and sizes of pipe and gulp:

- `ImplementsItsParts` states `WQ!Spec` and `ED!Spec`, so that what is proved of the
  work queue and of the data event holds of those in the pool; their inductive
  invariants are the first part of the pool's (`Parts`).
- `TypeCorrect`, `RefsBalance`, `NothingIsLost` and `FreedComesLast` state `TypeOK`,
  `SourceRefsBalance`, `NoJobLost` and `FreedLast`.
- The rest of the invariant comes in layers. `Sending`: what was sent is done, or
  held by the thread that rings, and no two threads send the same. `Calls`: a request
  in a source has one call pending there, and no job is queued twice. `Counted`:
  each count is the cardinality of what it counts, which is what `RefsBalance` needs.
  `Ends`: threads are told to quit when and only when the pool's strong count is 0,
  and A_QUIT is the last message. The lemma `AllServed` draws the conclusion: a
  strong count of 0 means that nothing is left to be run or answered, so that the
  quit can neither refuse nor drop a job.
- `ImplementsServiceSafely` states that every step of the pool is one of
  `JobService` or leaves its variables alone, from the start state on. The liveness
  that `JobService` promises, too, is checked by the run.

`RequestProofs`, for any requests, chain of sources of any kinds, layout of blocks
within the bounds of the module, failures and answers:

- `EachIsAnsweredOnce` and `OneHand` state `AnsweredOnce` and `OneHandAtATime`.
  Their invariant, `Hands`, says whose turn it is: a request in the main thread's
  hands is running and has no answer to come; it has been replied to exactly when it
  writes (`Answered`, `Held`); and all its jobs are at its source, only one of
  them if that is a file (`OneJob`), without which two answers would run it.
- `NothingIsForgotten` states that what is neither copied nor past the end of the
  file is still desired, and that a reply of success has every unit, for all sizes of
  blocks: `FoundMissing`, from which it follows, is about widening, splitting and
  cutting the desire at the end of the file.
- `RepliesAreRight` and `CachesAreRight` state `RepliesComplete` and
  `CachesFaithful` where all blocks have one size (`SameBlocks`), as in `config.jpf`;
  with others they do not hold (*Findings*). Chunks that end the file begin with a
  block (`GapsBegin`), which is what makes the copy of `ds_write` right (`StoredGood`).
- `TypeCorrect` and `ReferencesBalance` state `TypeOK` and `RefsBalance`. `Counted`
  has the references of requests: as many as answers to come, and one or two for who
  runs it. `SourcesShared` has those of sources: as many as the caches that reflect to
  one (`Followers`), the requests there (`Users`), their chunks from it (`Offered`), the
  requests with reads under way at it (`Readers`), the answer in hand and the list;
  `ListShared` those of the list. What is hard is that a cache whose last reference goes
  gives up its target's in turn: `Settle` adds up to that (`SettleAdds`), and
  `Rebalance` draws the conclusion. `Course` has what keeps chunks distinct, so that
  each can be counted: while a request goes down the chain its chunks are from sources
  it has passed, no chunk answers a read that is still under way, and no two reads of
  one request at an http source begin with the same unit.
- `CachesAreWrittenFromBelow` states `WritesComeFromBelow`; the last conjunct of
  `OnCourse` is its reason.
- `Fits` keeps ranges, chunks and entries within the units there are. It is what types
  cannot say of rounding to blocks.
- `NoErrorWithoutCause` states `NoNeedlessError` where all blocks have one size and some
  source serves each scheme (`Served`). Its invariant `Smooth` holds until somebody reads
  past the end: all that is desired or asked of a server is in blocks that begin before
  it (`Nearby`), so that no server refuses; and until a failure or the quit, what a
  request that has come to a source of the file still desires is in answers to come
  (`Untroubled`). With other layouts a cache may leave a gap beyond the end, and the
  server's refusal is an error.

In the same module, on `Directory`, for any names, lists of files, and sizes of entries and
of the pieces the kernel asks for:

- `DirTypeCorrect`, `AnswersComeFromTheConfiguration` and `ListingsAreWhole` state
  `DirTypeOK`, `AnswersAreConfigured` and `ListingIsWhole`.
- The invariant of the first two is in parts: `Inodes` (the table of attributes is that of
  the last entry for each path), `Dirs` (the names in a directory are those of files
  added), `Looks` (what can be looked up leads from the inode of a path to that of the path
  below) and `Known` (the kernel has only what it was told).
- `ListingsAreWhole` adds three. `Ordered`: the names in a directory are, one by one, those
  of the files added so far that are in it. `Through`: a directory that was resolved has a
  list of the inodes of these names, and is what `..` leads to from each; no other inode
  has a list. `Cut`: between two pieces the kernel has the entries of the buffer as far
  as some `m` and the offset at which the `m`-th ends, and has all when it is through. From
  the first two the buffer is the listing that the configuration calls for (`BufferIs`),
  so that it is the same each time it is made; `CutGrows` is the step by a piece: as a piece has
  room for an entry, the next one is in it, and nothing is skipped or repeated.
- Buffers and lists of any length are reached without induction over them: the lemma `AllUpTo`
  takes the least number at which a claim fails, which the theorems on well-founded
  relations give, and `OnlyIs` and `EndsAre` unfold the recursive functions `Only` and `Ends`
  with it.

`CacheFileProofs`, for any servers, blocks, slots, places and spools:

- `TypeCorrect`, `SpoolsAreReflected`, `LocksAreUsed`, `BlocksAreRight`,
  `WritesAreCovered` state the five invariants of the run. Each has an inductive
  invariant of its own over the types and `EntryInRange` (a reflection is at an
  entry of the spool), `Typed`.
- `BlocksAreRight` needs `Alone` (a slot not in `met` has one server in it) and
  `SlotIsHeld` (what such a server has read or written is still so).
- `WritesAreCovered` says that a server which writes, or has writes that are not on disk,
  has the lock, but for one that was robbed of it, and for what was written by one
  whose fsync came after its close. It needs `LockIsHeld`: a server that reflects or has its
  fsync ahead or under way, and was not robbed, is the one the lock names, nobody
  else has found that lock ancient, and no server with an fsync comes to bust its own;
  `SeenIsThere` (a time that was seen is that of the lock there) carries it over
  the making of locks, and `SyncFollows` ties unsynced writes to both.

In the same module, for any offsets and block sizes: `ListsAreFaithful`. Its invariant
`Promise` says of every byte that it is to be in the result if and only if it is in
what the loop holds or in what is still to come; `Loop` that ranges kept have no
byte in common with the loop's own, and after the chops of `ranges_remove` none
lies across its ends. `ChopKeeps`, `TouchedIsRounded` and `ContainedIsRounded` are
the lemmas on chopping and on rounding to blocks.

`LifecycleProofs`, for any finite set of interfaces, in any order of
configuration, any reads and any number of signals:

- `OrderlyEnd` and `FreedUnused` state `TakenDownInOrder` and `FreedIsLeftAlone`,
  `LifeTypeCorrect` states `LifeTypeOK`, and `HeldIsCounted` the inductive invariant they
  rest on, `LifeInv`: the types and, while `Orderly`, `Steady`.
- The properties speak of what has been freed; a proof has to know who might still come.
  The core of `Steady` is `CountsOK`: `Holders(c)` are all that keep a reference to `c`, and
  they are at most `count[c]`. A holder is a state of the program that will release some
  day (an interface listed, a fuse thread that serves, a read under way: `Fixed`, `Users`), or
  a release that already lies on some thread's stack (`Releases`), named by the thread and
  its height there, which stays the same while callbacks come and go above it. A request
  that `if_consume` has made and not yet counted is a `Debt`. The count of the
  array of interfaces is excepted once it is 0, as `user_quit` may then have it in hand.
- The other conjuncts are about what is done once. `MainStack` and `FuseStack` give the
  shapes of the stacks; `QuitOK`, `JoinOK`, `SwapOK`, `UnlinkOK` and `ExitOK` say that such a
  task lies on one stack, once, and finds its count at 0: without them a second one could
  follow from two releases that both saw 0. `SignalOK` is the excepted case: the array
  goes under a signal's handler only if an interface ended them all.
- `FreedUnused` allows three uses of freed memory and says when: the array under a
  handler only if an interface ended them all in its own thread, the walks of fuse threads
  and the timer's only when every interface has quit. The second is not in `LifeInv`:
  `LateUse` (these uses come only after the sources were unlinked) is added to it, and
  `SourcesAreLater` is the reason: nothing unlinks sources while an interface still counts
  in `ic_running`.
- `Balance` is the argument for the steps that change no count: it stays right if its
  holders are no more than before, or one takes the place of another. `ReleaseCounts` is
  that for releases: the last one makes its callbacks, which release in their turn what the
  object itself held (`ReleaseReplaces`). `ShutIsUnused`, `LoopIsLast` and `MemoryIsLast`
  draw the conclusions: of a closed interface no thread serves and no read is under way,
  and nobody needs the loop that ends. `HasAfter` and `DeepAfter` state what a call leaves
  of a stack.

The proof found a mistake of the model: the two arms of `Counted` for a count of 0 and for
an acquisition overlapped, so that a freed count could have been brought back to 1. TLC
took the first arm, which is the one meant, and is now the only one.

`HttpPoolProofs`, for any requests, any finite set of connections, any number of
tries, and transfers that may outlast the timer or not:

- `TypeCorrect`, `OnePlace`, `NoneWaitsIdly` and `FreedWhenClosed` state `TypeOK`,
  `InOnePlace`, `NoIdleConnection` and `ClosedMeansFreed`.
- `CalledBackOnce` states that every step of the client is one of `FetchService` or
  leaves its variables alone. That each request is called back in the end is checked by
  the run.
- The properties speak of moments between events, the invariant must speak of any moment
  within the circle of calls. `Shape` says how calls lie on the stack: one for a
  connection that was just handed out, or an error, is the innermost, and a request has
  one call at a time but for its end below its answer. `Places` and `Holds` say where the
  requests are and who has a connection in use, a call included. `Sought` is the rule that
  `connection.c` states in a comment: while something waits and a connection is ready,
  could be made or looked up, a call of `try_link`, `try_new` or `try_resolve` is still
  to come; without calls under way it is `NoIdleConnection`. `Closes` counts who holds the
  pool, and says that a closed one is about to be tidied; `Answers` who was called back.
- The lemmas on the stack (`Rest`, `OnRest`, `PutNone`, `PutOne`, `PutTwo`) state what a
  return and a call leave of `Shape`; the steps are then about sets of calls.

`RotateProofs`, for any number of rotations, lines, kills and failures, and any limits
on the age of archives:

- `TypeCorrect` and `JobsAreFinished` state `TypeOK` and `FinishRunsAll`. Their invariant,
  `Base`, is that of the work queue (the thread and its queue take its steps between
  two starts of the process, and begin anew at each), `Named` (a name has no more endings
  than there were rotations, and its number is less than theirs), `Course` (what a
  rotation has still to move lies below what it has moved and queued) and `Ending`
  (when the thread has gone its queue is empty, and it drops one item at most).
- `NoLineIsLost` and `ArchivesStayInOrder` state `NoLineLost` and `ArchivesInOrder`. What
  they say of names is not inductive, as names change one by one. The invariant speaks
  of the *level* of an archive instead: the number it has when the rotation is over. A
  placeholder that `rename_file` has made is not counted (`Real`) until the rename.
- `Undisturbed` is what `raced` excludes: what is to be moved is there, and lies below
  what has been; the thread has a job of the rotation under way, whose file kept its
  name. `Copying` and `Copied` are about that job: its output has its name, nobody writes
  to it, and it has all but the late lines when it is renamed.
- `View` is why nothing is lost. `Present`: each line is in some archive. `Alike`: of two
  archives at one level (a log and its `.gz`, where a job is about to unlink the first or
  a kill left both) neither has a line the other lacks, but for what is lower down as well, so
  that the one that goes or is overwritten takes nothing with it. `Spare`: nor does
  an output that was renamed to the name another archive waits for.
  `Logs` keeps lines from being written to one of two such files alone.
- `Order` is why archives are in order: `Sorted`, by levels; a file that a thread may
  still write to has all that is in the archives not older (`LogsHaveAll`), and the descriptor
  it may hold is of an older log than that of the next writer (`LogsInOrder`).
- `ViewCarried` and `OrderCarried` state that a step keeps `View` and `Order` when every
  archive after it comes from one before it, with its lines and its level, or all levels
  rise by one; the lemmas named after an action (`MoveIs`, `RenameOutIs`, ...) say
  what it does to names and levels, and so reduce each step to these.

The attempt to prove `NoLineLost` found that it did not hold as it had been stated; with
two rotations, as in the run, it did. `raced` now includes the case (*Findings*).

All theorems rest on the `ASSUME`s of the modules alone, which TLC evaluates for the
instances of the runs. Every invariant that a run checks is stated by a theorem (in `Request`
some where all blocks have one size, as above) but `LateWalksNeedASignal`, and so are the
action property and the safe part of both refinements. That invariant and liveness are
model-checked alone, the latter as fairness is outside what the prover handles.

## Findings

- **A failed request keeps its chunks** (`request_leak`). A request that ends in
  error after some source has found a part is released with its chunks, and their
  references to sources. `request.c:221` has a note of it. The source is then never
  closed, and the loop waits for it after the quit until the program is killed, which
  only a signal arranges: after an unmount it goes on until one comes. `SourcesClose` states which
  sources close all the same: each, for good, but for those of such chunks and the
  caches these reflect to. `QuitEnds` of `Lifecycle` excepts the runs with such a read.
- **A lookup whose connection the timer has freed** (`http_lookup`).

Seen in `Request`, without a run of its own: with a cache of smaller blocks below
one of larger ones the last chunk of the file may begin within the larger block, and
`ds_write` (`cache.c:261`, "XXX prove safe") computes a place before the chunk, so
that `CachesFaithful` fails. With equal block sizes, as in `config.jpf`, it holds.
And a read past the end (of a file shorter than the metadata says) is refused by the
server, which `http.c:76` makes a failure as any other and `request.c:173` one of the
source for that path: until it is forgotten, reads within the file end in errors
too. `NoNeedlessError` excepts runs in which that happened (`PastTheEnd`), and no others.

In `HttpPool`, likewise without a run: with `MayOutlast` a transfer
that the timer cuts off is never called back; when the last request's callback
closes the source (an http read under way at the quit), `free_rq` gives back a
connection that is freed by then, and `try_link` or `tidy` may go on with an
endpoint that is (the other members of `astray`).

In `CacheFile`, likewise without a run: where two servers meet in a slot (each reads
the header before the other writes it) a reader writes its hash back over a block
another has put there, and the slot then gives that block for its own
(`LabelsAreRight` without `met` fails in a dozen steps). Two servers that find one
lock ancient both unlink it, the second perhaps the new lock of the first. And
the thread of `fsync_async` uses the `cache_file` that `cf_close` frees, if it is
still running then; if it has not come to its `fsync` (`misc.c:486`) the descriptor is closed
(`file.c:112`) and nothing is synced, and the lock is removed with writes not on disk
(`LockCoversWrites` without `missed` fails).

In `Lifecycle` the following happen, and the properties are stated around them.
`README.hacking:58-60` says that outside `syncsource` and `syncif` "there's no need to
worry about races or locks"; the counts that fuse threads and main thread share are
such a need:

- a change of a count is lost when a fuse thread acquires its interface for a read
  while the main thread releases it for another, or two interfaces end at once
  (`torn`);
- when file systems are unmounted from outside, the last fuse thread to end runs
  `interfaces_quit` itself. A signal's handler (`user_quit`) that reads `rr->icc` at that
  moment uses an array that is freed before it acquires it ("icc" in `astray`);
- fuse threads walk the list of sources (`fuse.c:113`, `127`, `171`, `244`) while another
  thread unlinks and frees them ("list"): on a signal, as the main thread then quits interfaces
  whose threads still serve, but not before all have quit, nor after an unmount alone
  (`LateWalksNeedASignal`);
- after an unmount nobody stops the statistics timer, which asks sources that are freed
  ("stats");
- the wait of `fuse_go` (`fuse.c:364`) is not in a loop; if it ends early the interface has
  not counted itself, and may be closed while its thread starts (`hasty`);
- `fi_close` may run in its own interface's thread: `pthread_join` then fails at once,
  and that thread goes on with an interface it has freed, while the program may end.

In `Rotate`, likewise; `raced` and `late` keep them from the properties:

- a job that is still queued when the log is rotated again has the wrong name: it
  compresses the new `log.0`, and what was meant is never compressed, or its `unlink`
  removes a log that has only just been renamed to that name;
- the scan of a rotation may see the files of a job that is about to end: the
  renames of files gone by then fail and leave the empty files that `rename_file` has
  made (`rotate.c:63`), and the next job's rename puts its output over an archive;
- a kill between a job's rename and its `unlink` leaves `log.0` and `log.0.gz`. If, in the
  next rotation, the job for the first makes `log.1.gz` before that is the turn of
  `log.0.gz`, this is left where it is ("already exists", `rotate.c:58`), an old archive
  beside the next `log.0`. In the rotation after that an empty `log.1.gz` is made for it
  while a job compresses the `log.1` that was `log.0`: the job's output replaces the empty file,
  its original is removed, and then `log.0.gz` is renamed over it, and the lines are lost.
  TLC finds this with three rotations and one kill when `raced` does not count what is
  left behind (49 steps);
- a line written through a descriptor from before the rotation, after the compressor
  has come to the end of the file, is lost;
- `background_finish` drops its last job when the thread has it in hand while the queue is
  empty, and `background_stop` never resets the flag that it sets;
- the scan compares the configured name, directory and all, with names as `readdir` gives
  them, and unlinks these relative to the working directory: only names without a directory
  are rotated (read from the code, not modelled);
- the descriptors of former logs are never closed (`ld->fd` is not set), and after a
  second loss of the log `defer_last` is a message that was freed (`logging.c:64`; the same).

In `Directory`, as the code does it and the properties allow it:

- the permissions of an entry are added to the defaults (`meta.c:98` has `|=`), so that
  an entry cannot have fewer than these; a default for the size is not heeded;
- a directory with nothing in it has no list: its listing gives `ENOENT`, and then an
  empty answer to the same request (`fuse.c:172`, `193`);
- a file whose directory is not configured ends the program by a null pointer in
  `resolve_dirs`, before `check_ok` would have reported it;
- a path that is configured twice is listed twice; the last entry counts for the rest;
- a read that begins after the end of the file is passed on as it is (the kernel does not
  send any).

## Not modelled

Configuration, statistics, and the containers and string functions: sequential code, whose
state nothing else changes, and which the modules that use it see as sets, functions and
records. Of logging, levels, formats and the messages deferred without a log. Of the
metadata, users, groups and times. Of failures, how long one is remembered: `Request`
lets it be forgotten at any moment, which covers every length, and also the timer, whose
interval of `timeout / 4000000` seconds is 0 (`failures.c:66`). Of the life cycle, the
options of `main.c`, `umount` and its fork. Errors of the file system in caches and
rotation are those named above. What `PROJECT.json` calls `partly` says there what is
missing.

## Plan

What was planned is there, but for these, in order of what they would add:

1. `Rotate` with names that change under a job, to say what is lost and when, in place of
   `raced`.
2. Runs of caches whose block sizes differ, with the properties restated for them: no
   run has that now, and the theorems that need `SameBlocks` say nothing of it.
