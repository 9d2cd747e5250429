# Verification project

TLA+ models of the programs in this repository, the TLC runs that check them on
small instances, and TLAPS proofs that hold for every instance.

The repository collects several independent programs. The one modelled in depth
is **spserver** (`src/spserver-master/spserver`), a C++ framework for TCP servers:
one thread runs a libevent loop, worker threads run the application's handlers,
and both sides share sessions without locking them. What keeps that correct is a
set of conventions about who may touch a session when, which is what the models
are about. The namespace operations of **overlayfs** are modelled too. The section
*Inventory* lists the other programs and the plan for them.

## spserver: parts and interactions

```
 sockets --> SP_EventCallback (event loop) --tasks--> SP_Executor --> SP_ThreadPool
                 |        ^                             |  (SP_BlockingQueue)
   SP_SessionManager      +---- event_msgqueue <--------+  SP_EventHelper::worker, start,
                 |             (responses)                 error, timeout, close
                 +--completed messages--> SP_Executor "act" --> completion handler
```

| part | source | module | state | actions |
|---|---|---|---|---|
| table of sessions | spsession.cpp | `SessionManager` (abstract: `SidRegistry`) | `mArray`, `mCount`, `mFreeCount`, `mFreeList` | allocKey, put, remove, destructor |
| response queue | event_msgqueue.c | `EventMsgQueue` (abstract: `MsgFifo`) | the circular array, the mutex, the bytes in the socket pair | msgqueue_push, msgqueue_pop in steps |
| blocking queue | sputils.cpp | `BlockingQueue` (abstract: `MsgFifo`) | `mEntries`, `mHead`, `mTail`, `mCount`, `mMaxCount`, sleepers | push, pop |
| thread pool | spthreadpool.cpp | `ThreadPool` (abstract: `TaskPool`) | `mThreadList`, `mTotal`, mutexes, condition variables | dispatch, wrapperFunc, saveThread, destructor, in steps |
| executor | spexecutor.cpp | `Executor`, instantiated by `Server` | `mQueue`, `mIsShutdown`, the loop, the destructor | execute, eventLoop, shutdown, destructor |
| server loop | spserver.cpp | `Server` (two instances of `Executor`) | the result queues, `mIsShutdown`, what has been destroyed | start, step by step, and sigHandler |
| event callbacks | speventcb.cpp, spdispatcher.cpp (onPush) | `EventCallback` | sessions, messages, the queues between loop and workers | every on* callback and every task |

The layers are modelled separately and joined by what each one promises: the
executor uses the blocking queue as the fifo that `BlockingQueue` is shown to
implement, and the pool as the `TaskPool` that `ThreadPool` is shown to
implement; the callbacks name a session directly where the code uses its sid,
which the registry of `SidRegistry` justifies.

### How the modules follow the code

* `SessionManager`. An entry is the record of `tagSP_SessionEntry`. The free
  list runs through `mNext`, and the head is kept in `mFreeList`, a `uint16_t`:
  `KeyRows * Col` stands for 65536. `gen` (how often a key was recycled), the
  identifiers `mSid` that sessions hold and `pending` (keys allocated and not yet
  put) are history. The asserts of put and remove are collected in `asserted`.
* `EventMsgQueue`. push is split where it blocks: in `send` on the socket pair,
  which is bounded by `SockBuf` bytes. pop is split at its lock and unlock.
* `Executor`. The end of eventLoop is two steps, because the destructor tests
  mIsShutdown without the mutex: `End` locks and sets it to 2, `EndSignal` signals
  and unlocks. The destructor can go on between the two; a `cond_wait` or a
  shutdown, which lock mMutex, can not.
* `ThreadPool`. Every lock, wait, signal and unlock that another thread can see
  is a step. Condition variables have no spurious wake-ups (see *Not modelled*).
* `EventCallback`. The event loop runs one callback at a time, but `mRunning`
  and `mStatus` are plain fields that workers write, so a callback that reads
  one after the other is two actions with `loop` between them. `receive`
  returning 0 leaves `errno` as it was, so what the code makes of it is a choice.
  `memcmp` of two `SP_Sid_t` also compares padding, so equality of equal sids is
  a choice. A session pushed with needStart 0 has a channel that the caller of
  push initialised, or nobody did. The application (handlers) is external: a
  handler may fail, answer, address known sessions and ask to close them.

## overlayfs

`Overlayfs` models the namespace operations of `src/overlayfs/overlayfs.c`: a
writable upper tree over a lower one. A removed lower name is covered by a
whiteout, a directory that must not be merged is opaque, and a non-directory is
copied up before it changes. Whether a removal has to leave a whiteout is decided
by the flag `opaque` of the dentry, set by whatever happened to that dentry
before; the run checks that over all sequences of operations this gives the tree
`tree` that an ordinary filesystem would hold.

`upper` and `lower` map paths to objects, `dentry` is the cache of
`struct ovl_entry`, `od` an open file of the root with its cached listing. `at`
says which upper dentry a dentry holds: that of its own name as a rule, that of
another hard link after a rename of two names of one upper inode, which ovl_rename
answers with 0 and the VFS with a `d_move` (`RenameSame`), or one that has been
removed (`Gone`). An operation acts on the upper name its dentry holds, and fails
when that one is not in the parent's upper directory (`UnlinkStale`,
`RenameStale`: ESTALE) or when its whiteout finds a name in the way. Every inode
operation is one action with the parents it copies up, the whiteouts it removes,
the version it increments and the dentry it drops; `Rename` includes the `d_move`
of the VFS, which hashes a dropped dentry again. The VFS and the two real
filesystems are external.

`inode` says which cached names share an overlay inode: the VFS does not call
ovl_rename for two of those. `moved` and `misused` are history. `moved` marks the dentry of a
non-directory that a rename put at its name, whose flag and upper dentry ovl_rename
leaves as they were. `misused` holds the names that an operation through such a
dentry got wrong (`Wrong`): the name itself and the one whose upper dentry it held.
The properties speak of all other names, which such an operation must leave alone;
what happens to the names in `misused` is the subject of the two violations. Names
do not change any more after such an operation.

## Runs

| run | module, config | shows | distinct states |
|---|---|---|---|
| session_table | MCSessionManager | types, the free list, the count, the asserts, stale sids; refines `SidRegistry` | 28,695 |
| session_exhausted | MCSessionManager | *violation*: allocKey says "out of memory" with free rows | |
| threads | MCThreads, Threads | pool: each task runs once, idle list, destructor frees nothing in use, refines `TaskPool`, dispatch and destructor return; response queue: no lost wake-up, refines `MsgFifo`, delivery included; blocking queue: no sleeper on items, refines `MsgFifo` | 25,456 |
| server | Server | every job runs, and runs once; the workers and their executor are gone before the SP_EventArg they use; completions keep their order | 51,272 |
| server_close | Server, ServerClose | *violation*: after a signal, start may never return | |
| server_teardown | Server, ServerTeardown | *violation*: a message is reported to a deleted completion handler | |
| callbacks_server | MCEventCallback, EventCallbackServer | one task per session, messages to several sessions completed once, no session (a refused one included) is forgotten | 1,172,603 |
| callbacks_dispatcher | MCEventCallback, EventCallbackDispatcher | one task per session, events of live sessions only, no session is forgotten, pending input is handled, flags are true, exits complete | 243,900 |
| callbacks_close | MCEventCallback, EventCallbackClose | *violation*: a close request is lost when it meets `start` | |
| overlay | Overlayfs | the union is the tree that was asked for; dentries and listings stay right | 80,656 |
| overlay_stray | Overlayfs, OverlayfsStray | *violation*: a whiteout where nobody looks for one | |
| overlay_revive | Overlayfs, OverlayfsRevive | *violation*: a removed name comes back from lower | |

`MCThreads` puts the pool and the two queues into one run: `part` chooses one of
the three at the start, and the other two stand still.

Bounds, and why they are enough:

* The table has rows of two columns, two usable rows and two rows past the range
  of the key type, five sessions and three lives of a key with a sequence number
  that wraps after two: growth, reuse, exhaustion, wrap-around of mSeq and the
  cut key all occur. The proofs remove these bounds.
* The queues start with room for few items, so that growth happens while the
  array is wrapped; two threads push.
* Two pool threads and two callers give reuse, creation, failure of creation and
  waiting for an idle thread, each against the destructor.
* callbacks_server: two sessions that may live together, two messages that each
  may address both, and a request queue of one task, so that the second session
  is also refused. Its clients send nothing after they connect (`MaxRead` is 0):
  no request is handled here, and the tasks of start and exit overlap with the
  event loop's writes of messages that the other session sent. The refusal for
  too many connections takes the same branch and is not reached with two sessions.
* callbacks_dispatcher: one session with two pipelined requests, a message, closing
  and system responses: the tests of mRunning in the read path meet a running
  session. Two worker threads make the overlap of a response with the next task
  possible.
* overlayfs: all 16 lower trees over two names in the root, files or directories,
  with one name below each. Every pair of kinds meets at a name, files and
  directories are moved over each other, and hard links span directories. The
  lower tree has no hard links, a rename onto a dentry whose upper dentry is gone is
  left out, and a whiteout of ovl_rename that finds its place taken needs a third
  name in the directory, more than this instance has.
* `CHECK_DEADLOCK FALSE` stands where the program may be quiet: no client comes,
  or everything has been shut down.

Fairness: a thread that can take a step takes it (the scheduler), a condition
variable that is signalled while somebody waits wakes somebody up, the event loop
takes events that stay ready. `WriteProgress` is strongly fair: a peer that can
always be written to is at last written to, or the write fails or times out
(libevent's timeouts). Nothing is assumed of peers that do not send.

## Proofs

`SessionManager_proofs` proves for every number of rows, columns and sessions,
every key range and every width of the sequence number, from the assumptions in
`SessionManager` (the numbers of rows, columns and addressable rows and the width
of the sequence number are positive, `MaxGen`, which bounds the lives of a key in
a run, is a natural number, and `NULL` is no session, row or sid):

* `TypeCorrect`, `FreeListCorrect`, `CountCorrect`, `AssertsCorrect`: the type
  invariant and the safety invariants of run session_table;
* `StaleSidCorrect`: an identifier of an earlier life of a key resolves only
  after a full turn of mSeq.

None of these is inductive. The inductive invariant is
`IInv == TypeOK /\ AssertsHold /\ SeqTold /\ (phase = "up" => UpInv)` where `UpInv`
adds: allocated rows are the first ones and fit the key range (`RowsFit`); there
is a sequence of distinct keys that the free list walks through, all of them
unbound, and it ends in 0 (`FreeChain`); keys that are handed out and not yet put
are unbound and not in that chain (`PendingFree`); a session's sid and the entry
of its key point at each other (`SidsBound`); `mCount` counts them (`Counted`);
`mSeq` of an entry is its number of lives modulo the width (`SeqCounts`). The
chain is existentially quantified: allocKey drops its head (`TakeHead`) or
builds it anew over a fresh row (`TakeFromNewRow`), remove puts a key in front.
There is one lemma per action, and lemmas for the arithmetic of keys, for writes
to one entry and for the first free row.

Only model-checked: liveness under fairness, the refinements, and all modules
but `SessionManager`.

## What the violations show

* `ZeroOnlyWhenFull` (spsession.cpp:80). `mFreeList` is 16 bits wide and the
  table has 1024 rows of 1024: allocKey returns 0 from the 64th row on, whereas
  spsession.hpp:108 says that 0 means out of memory.
* `CleanClose` (spexecutor.cpp:76). The destructor of the executor tests
  mIsShutdown before the lock; the signal that comes in between is lost, and
  start, which runs that destructor, does not return.
* `CloseHonoured` (speventcb.cpp:610). start stores eNormal over the eExit that
  onResponse stored while start was running.
* `NoWhiteoutWithoutLower` (overlayfs.c:1883). ovl_rename corrects the opaque flag
  of the moved dentry only for directories. A file that hid a lower file and was
  moved into an upper-only directory leaves a whiteout there when it is unlinked.
* `NothingComesBack` (overlayfs.c:1883). The other direction of the same flaw: a
  file moved over a lower file has a clear flag, so its removal leaves no
  whiteout, and the lower file that was replaced shows again.
* `HandlerOutlivesMessages` (spserver.cpp:218). start deletes the completion handler
  when its loop ends; the executor that calls it is destroyed later.

Seen while modelling, without a run of their own: msgqueue_push sends its wake-up
byte with the mutex held (event_msgqueue.c:216), and pop receives one batch of
bytes before it drains, so a socket pair that fills up during a drain blocks both
sides (run threads gives it room for every push); the destructor of an executor
may destroy the mutex that eventLoop still holds (spexecutor.cpp:82); a shutdown
abandons the tasks that are queued (spexecutor.cpp:108); a refused connection, and
one pushed with needStart 0 whose caller did not do it, have channels that were
never initialised, so nothing can be sent or read (speventcb.cpp:152,
spdispatcher.cpp:217); an unlink through a dentry that holds another hard link
removes that one, and `WARN_ON` in ovl_whiteout finds the name in place
(overlayfs.c:1583).

## Inventory of the repository and plan

PROJECT.json lists every component with its status and the hazards by line.

1. spserver: next the leader-follower server (threads taking turns at
   `event_base_loop`), the transmit loop of the I/O channel, the HTTP parser.
2. weighttp and ab: the connection state machine of a load generator, the
   accounting of requests over connections and threads.
3. overlayfs: next, copy-up as steps of its own against removals (the comment at
   overlayfs.c:1187 is about that race) and failures halfway through a copy-up.
4. ovlfs: inode mapping and its storage.
5. ktap runtime: string table, tables, memory pool, ring buffer.

Not modelled: the Windows port and the TLS channels (wrappers of external
libraries), parsers and code generators of ktap's compiler (translation of text),
iotop and scripts (read and print counters), byte-level formatting everywhere.
Spurious wake-ups of condition variables are not modelled: wrapperFunc
(spthreadpool.cpp:164) would run its last task again. Failure of malloc is not
modelled except where the code handles it (thread creation).
