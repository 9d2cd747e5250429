------------------------------- MODULE Executor -------------------------------
(***************************************************************************)
(* SP_Executor (spexecutor.cpp): a queue of tasks and a thread, eventLoop, *)
(* that hands them to a thread pool (mMaxThreads > 1) or runs them itself. *)
(* shutdown sets mIsShutdown and pushes an empty task to wake the thread;  *)
(* eventLoop answers by setting mIsShutdown to 2 and signalling mCond, on  *)
(* which the destructor waits.                                             *)
(*                                                                         *)
(* The queue is the fifo that BlockingQueue implements and the pool the    *)
(* one that ThreadPool implements: running is the set of tasks it runs.    *)
(***************************************************************************)
EXTENDS Naturals, Sequences, FiniteSets

CONSTANTS Task, MaxThreads

Wake == "wake"   \* the task that shutdown pushes: it runs worker( NULL )
NoTask == "none"

VARIABLES
    mQueue,        \* tasks given to execute
    mIsShutdown,   \* 0, 1: shutdown was called, 2: eventLoop has ended
    loop,          \* eventLoop: "test", "pop", "dispatch", "end", "ended", "gone"
    queueData,     \* what eventLoop has popped
    running,       \* tasks that threads of the pool run
    finished,      \* tasks that have been run, in the order they ended
    dtor           \* the destructor: see below

vars == <<mQueue, mIsShutdown, loop, queueData, running, finished, dtor>>

Init ==
    /\ mQueue = <<>>
    /\ mIsShutdown = 0
    /\ loop = "test"
    /\ queueData = NoTask
    /\ running = {}
    /\ finished = <<>>
    /\ dtor = "none"

\* execute: push the task; the destructor has not been entered.
Execute(k) ==
    /\ dtor = "none"
    /\ mQueue' = Append(mQueue, k)
    /\ UNCHANGED <<mIsShutdown, loop, queueData, running, finished, dtor>>

-------------------------------------------------------------------------------
(* eventLoop *)

\* The loop condition is read without the mutex.
Test ==
    /\ loop = "test"
    /\ loop' = IF mIsShutdown = 0 THEN "pop" ELSE "end"
    /\ UNCHANGED <<mQueue, mIsShutdown, queueData, running, finished, dtor>>

\* Pop, wrongly: the task stays in the queue, as with top.
Pop_Stays ==
    /\ loop = "pop"
    /\ mQueue # <<>>
    /\ queueData' = Head(mQueue)
    /\ loop' = "dispatch"
    /\ UNCHANGED <<mQueue, mIsShutdown, running, finished, dtor>>

Pop ==
    /\ loop = "pop"
    /\ mQueue # <<>>
    /\ queueData' = Head(mQueue)
    /\ mQueue' = Tail(mQueue)
    /\ loop' = "dispatch"
    /\ UNCHANGED <<mIsShutdown, running, finished, dtor>>

\* DispatchPool, wrongly: the task is not handed to the pool.
DispatchPool_Drops ==
    /\ loop = "dispatch"
    /\ MaxThreads > 1
    /\ Cardinality(running) < MaxThreads
    /\ queueData' = NoTask
    /\ loop' = "test"
    /\ UNCHANGED <<mQueue, mIsShutdown, running, finished, dtor>>

\* dispatch waits until a thread of the pool is free.  The pool's thread runs
\* worker, which does nothing for the task that shutdown pushed.
DispatchPool ==
    /\ loop = "dispatch"
    /\ MaxThreads > 1
    /\ Cardinality(running) < MaxThreads
    /\ running' = running \cup ({queueData} \cap Task)
    /\ queueData' = NoTask
    /\ loop' = "test"
    /\ UNCHANGED <<mQueue, mIsShutdown, finished, dtor>>

\* There is only one thread, or dispatch has no idle thread, may create one and
\* can not: run it here.
RunInline ==
    /\ loop = "dispatch"
    /\ MaxThreads = 1 \/ Cardinality(running) < MaxThreads
    /\ finished' = IF queueData = Wake THEN finished ELSE Append(finished, queueData)
    /\ queueData' = NoTask
    /\ loop' = "test"
    /\ UNCHANGED <<mQueue, mIsShutdown, running, dtor>>

\* Lock mMutex and set mIsShutdown to 2, which the destructor may read at once:
\* it does so without the mutex.  mMutex is held while the loop is at "ended".
End ==
    /\ loop = "end"
    /\ mIsShutdown' = 2
    /\ loop' = "ended"
    /\ UNCHANGED <<mQueue, queueData, running, finished, dtor>>

\* Signal mCond, which reaches a destructor that waits, unlock, and the thread
\* ends.  Nothing keeps the destructor from having destroyed both by now.
EndSignal ==
    /\ loop = "ended"
    /\ dtor' = IF dtor = "wait" THEN "test" ELSE dtor
    /\ loop' = "gone"
    /\ UNCHANGED <<mQueue, mIsShutdown, queueData, running, finished>>

\* A thread of the pool ends its task.
Finish(k) ==
    /\ k \in running
    /\ running' = running \ {k}
    /\ finished' = Append(finished, k)
    /\ UNCHANGED <<mQueue, mIsShutdown, loop, queueData, dtor>>

-------------------------------------------------------------------------------
(* shutdown and the destructor: "test" reads mIsShutdown in the loop          *)
(* condition, "lock" is between that read and cond_wait, "wait" is in         *)
(* cond_wait, "pool" deletes the pool, which waits for its tasks.             *)

\* shutdown under mMutex, from the destructor or from the program.
ShutdownEffect ==
    /\ mIsShutdown' = IF mIsShutdown = 0 THEN 1 ELSE mIsShutdown
    /\ mQueue' = IF mIsShutdown = 0 THEN Append(mQueue, Wake) ELSE mQueue

Shutdown ==
    /\ dtor = "none"
    /\ mIsShutdown = 0
    /\ ShutdownEffect
    /\ UNCHANGED <<loop, queueData, running, finished, dtor>>

Destroy ==
    /\ dtor = "none"
    /\ loop # "ended"
    /\ ShutdownEffect
    /\ dtor' = "test"
    /\ UNCHANGED <<loop, queueData, running, finished>>

\* The loop condition is read without the mutex.
DtorTest ==
    /\ dtor = "test"
    /\ dtor' = IF mIsShutdown # 2 THEN "lock" ELSE "pool"
    /\ UNCHANGED <<mQueue, mIsShutdown, loop, queueData, running, finished>>

\* mMutex is locked, which needs eventLoop not to hold it, and cond_wait begins.
DtorWait ==
    /\ dtor = "lock"
    /\ loop # "ended"
    /\ dtor' = "wait"
    /\ UNCHANGED <<mQueue, mIsShutdown, loop, queueData, running, finished>>

\* DtorFree, wrongly: the pool is freed while its threads run.
DtorFree_NoWait ==
    /\ dtor = "pool"
    /\ dtor' = "done"
    /\ UNCHANGED <<mQueue, mIsShutdown, loop, queueData, running, finished>>

DtorFree ==
    /\ dtor = "pool"
    /\ running = {}
    /\ dtor' = "done"
    /\ UNCHANGED <<mQueue, mIsShutdown, loop, queueData, running, finished>>

EventLoop == Test \/ Pop \/ DispatchPool \/ RunInline \/ End \/ EndSignal

Destructor == DtorTest \/ DtorWait \/ DtorFree
-------------------------------------------------------------------------------
\* Type invariant of an executor.
TypeOK ==
    /\ mQueue \in Seq(Task \cup {Wake})
    /\ mIsShutdown \in 0 .. 2
    /\ loop \in {"test", "pop", "dispatch", "end", "ended", "gone"}
    /\ queueData \in Task \cup {Wake, NoTask}
    /\ running \in SUBSET Task
    /\ finished \in Seq(Task)
    /\ dtor \in {"none", "test", "lock", "wait", "pool", "done"}

\* The tasks a state still holds or has run, for the properties of the systems
\* that use executors.
Queued == {mQueue[i] : i \in 1 .. Len(mQueue)} \cap Task
Held == {queueData} \cap Task
Finished == {finished[i] : i \in 1 .. Len(finished)}
===============================================================================
