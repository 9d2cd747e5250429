------------------------------ MODULE ThreadPool ------------------------------
(***************************************************************************)
(* SP_ThreadPool (spthreadpool.cpp): dispatch hands a task to an idle      *)
(* thread, or creates one while there are fewer than mMaxThreads, or waits *)
(* on mIdleCond; a thread that has run its task puts itself into the list  *)
(* of idle threads and waits on its own condition variable; the destructor *)
(* waits until all threads are idle, tells them to stop and frees them.    *)
(*                                                                         *)
(* A step that takes a mutex, works and releases it is one action; main is *)
(* set only where a thread blocks with mMainMutex held.  A thread holds    *)
(* its own mutex exactly at "save" and "saved".  cond_wait returns only    *)
(* when it was signalled.                                                  *)
(***************************************************************************)
EXTENDS Naturals, Sequences, FiniteSets

CONSTANTS
    MaxThreads,  \* mMaxThreads
    Caller,      \* threads that call dispatch
    Task

ASSUME MaxThreadsAssumption == MaxThreads \in Nat \ {0}

Thread == 1 .. MaxThreads
None == "none"
Dtor == "destructor"

ASSUME CallerAssumption == Caller \cap {None, Dtor} = {} /\ None \notin Task

VARIABLES
    mTotal, mIsShutdown,
    mThreadList,   \* the idle threads, mIndex is its length
    main,          \* who blocks with mMainMutex held, or None
    pc,            \* thread -> where wrapperFunc is
    mArg,          \* thread -> the task it was given
    caller,        \* caller -> [pc, task, thread]
    dtor,          \* where the destructor is
    signals,       \* how many idle threads the destructor has signalled
    todo,          \* tasks not yet given to dispatch
    refused,       \* tasks for which dispatch returned -1
    ran            \* task -> how often it was run

vars == <<mTotal, mIsShutdown, mThreadList, main, pc, mArg, caller, dtor, signals, todo, refused, ran>>

mIndex == Len(mThreadList)

Idle == [pc |-> "idle", task |-> None, thread |-> 0]

Init ==
    /\ mTotal = 0
    /\ mIsShutdown = 0
    /\ mThreadList = <<>>
    /\ main = None
    /\ pc = [t \in Thread |-> "none"]
    /\ mArg = [t \in Thread |-> None]
    /\ caller = [c \in Caller |-> Idle]
    /\ dtor = "none"
    /\ signals = 0
    /\ todo = Task
    /\ refused = {}
    /\ ran = [k \in Task |-> 0]

-------------------------------------------------------------------------------
(* dispatch *)

\* A caller enters with a task; the pool is not being destroyed.
Call(c) ==
    /\ caller[c].pc = "idle"
    /\ dtor = "none"
    /\ \E k \in todo :
        /\ caller' = [caller EXCEPT ![c] = [pc |-> "lock", task |-> k, thread |-> 0]]
        /\ todo' = todo \ {k}
    /\ UNCHANGED <<mTotal, mIsShutdown, mThreadList, main, pc, mArg, dtor, signals, refused, ran>>

\* No idle thread and no room for another: wait on mIdleCond.
WaitIdle(c) ==
    /\ caller[c].pc = "lock"
    /\ main = None
    /\ mIndex = 0 /\ mTotal >= MaxThreads
    /\ caller' = [caller EXCEPT ![c].pc = "wait"]
    /\ UNCHANGED <<mTotal, mIsShutdown, mThreadList, main, pc, mArg, dtor, signals, todo, refused, ran>>

\* No idle thread: create one, which starts at the head of wrapperFunc's loop.
Create(c) ==
    /\ caller[c].pc = "lock"
    /\ main = None
    /\ mIndex = 0 /\ mTotal < MaxThreads
    /\ \E t \in Thread :
        /\ pc[t] = "none"
        /\ \A u \in Thread : pc[u] = "none" => t <= u
        /\ pc' = [pc EXCEPT ![t] = "loop"]
        /\ mArg' = [mArg EXCEPT ![t] = caller[c].task]
    /\ mTotal' = mTotal + 1
    /\ caller' = [caller EXCEPT ![c] = Idle]
    /\ UNCHANGED <<mIsShutdown, mThreadList, main, dtor, signals, todo, refused, ran>>

\* sp_thread_create fails: dispatch returns -1.
CreateFails(c) ==
    /\ caller[c].pc = "lock"
    /\ main = None
    /\ mIndex = 0 /\ mTotal < MaxThreads
    /\ refused' = refused \cup {caller[c].task}
    /\ caller' = [caller EXCEPT ![c] = Idle]
    /\ UNCHANGED <<mTotal, mIsShutdown, mThreadList, main, pc, mArg, dtor, signals, todo, ran>>

\* Reuse, wrongly: the thread stays in the list.
Reuse_StaysListed(c) ==
    /\ caller[c].pc = "lock"
    /\ main = None
    /\ mIndex > 0
    /\ mArg' = [mArg EXCEPT ![mThreadList[mIndex]] = caller[c].task]
    /\ caller' = [caller EXCEPT ![c].pc = "signal", ![c].thread = mThreadList[mIndex]]
    /\ main' = c
    /\ UNCHANGED <<mTotal, mIsShutdown, mThreadList, pc, dtor, signals, todo, refused, ran>>

\* Take the last idle thread off the list and give it the task.
Reuse(c) ==
    /\ caller[c].pc = "lock"
    /\ main = None
    /\ mIndex > 0
    /\ LET t == mThreadList[mIndex]
       IN /\ mThreadList' = SubSeq(mThreadList, 1, mIndex - 1)
          /\ mArg' = [mArg EXCEPT ![t] = caller[c].task]
          /\ caller' = [caller EXCEPT ![c].pc = "signal", ![c].thread = t]
    /\ main' = c
    /\ UNCHANGED <<mTotal, mIsShutdown, pc, dtor, signals, todo, refused, ran>>

\* Signalled, wrongly: another condition variable is signalled.
Signalled_Lost(t) == pc

\* cond_signal reaches the thread only when it is in cond_wait.
Signalled(t) == IF pc[t] = "wait" THEN [pc EXCEPT ![t] = "loop"] ELSE pc

\* Lock the thread's mutex, signal it, release both mutexes.
Signal(c) ==
    /\ caller[c].pc = "signal"
    /\ pc[caller[c].thread] \notin {"save", "saved"}
    /\ pc' = Signalled(caller[c].thread)
    /\ main' = None
    /\ caller' = [caller EXCEPT ![c] = Idle]
    /\ UNCHANGED <<mTotal, mIsShutdown, mThreadList, mArg, dtor, signals, todo, refused, ran>>

-------------------------------------------------------------------------------
(* wrapperFunc and saveThread *)

\* The loop condition holds and the thread runs its task.
Run(t) ==
    /\ pc[t] = "loop"
    /\ mIsShutdown = 0
    /\ ran' = [ran EXCEPT ![mArg[t]] = @ + 1]
    /\ pc' = [pc EXCEPT ![t] = "ran"]
    /\ UNCHANGED <<mTotal, mIsShutdown, mThreadList, main, mArg, caller, dtor, signals, todo, refused>>

\* The thread goes on with its mutex held, unless the pool is shut down.
Ran(t) ==
    /\ pc[t] = "ran"
    /\ mIsShutdown = 0
    /\ pc' = [pc EXCEPT ![t] = "save"]
    /\ UNCHANGED <<mTotal, mIsShutdown, mThreadList, main, mArg, caller, dtor, signals, todo, refused, ran>>

\* WakesCaller, wrongly: mIdleCond is not signalled.
WakesCaller_None == {caller}

\* saveThread's cond_signal on mIdleCond and, when all are idle, on mFullCond.
WakesCaller ==
    IF \E c \in Caller : caller[c].pc = "wait"
    THEN {[caller EXCEPT ![c].pc = "lock"] : c \in {d \in Caller : caller[d].pc = "wait"}}
    ELSE {caller}

Save(t) ==
    /\ pc[t] = "save"
    /\ main = None
    /\ mThreadList' = Append(mThreadList, t)
    /\ caller' \in WakesCaller
    /\ dtor' = IF mIndex + 1 >= mTotal /\ dtor = "full_wait" THEN "full_woken" ELSE dtor
    /\ pc' = [pc EXCEPT ![t] = "saved"]
    /\ UNCHANGED <<mTotal, mIsShutdown, main, mArg, signals, todo, refused, ran>>

\* cond_wait releases the thread's own mutex.
Wait(t) ==
    /\ pc[t] = "saved"
    /\ pc' = [pc EXCEPT ![t] = "wait"]
    /\ UNCHANGED <<mTotal, mIsShutdown, mThreadList, main, mArg, caller, dtor, signals, todo, refused, ran>>

\* The pool is shut down: count the thread out; the last one signals mEmptyCond.
Exit(t) ==
    /\ pc[t] \in {"loop", "ran"}
    /\ mIsShutdown = 1
    /\ main = None
    /\ mTotal' = mTotal - 1
    /\ dtor' = IF mTotal - 1 = 0 /\ dtor = "empty_wait" THEN "empty_woken" ELSE dtor
    /\ pc' = [pc EXCEPT ![t] = "gone"]
    /\ UNCHANGED <<mIsShutdown, mThreadList, main, mArg, caller, signals, todo, refused, ran>>

-------------------------------------------------------------------------------
(* the destructor *)

BeginShutdown ==
    /\ main = None
    /\ mIsShutdown' = 1
    /\ main' = Dtor
    /\ dtor' = "signal"

\* DestroyBusy, wrongly: the destructor does not wait on mFullCond.
DestroyBusy_NoWait ==
    /\ dtor = "none"
    /\ \A c \in Caller : caller[c] = Idle
    /\ mIndex < mTotal
    /\ BeginShutdown
    /\ UNCHANGED <<mTotal, mThreadList, pc, mArg, caller, signals, todo, refused, ran>>

\* It is called when no thread is inside dispatch.
DestroyBusy ==
    /\ dtor = "none"
    /\ main = None
    /\ \A c \in Caller : caller[c] = Idle
    /\ mIndex < mTotal
    /\ dtor' = "full_wait"
    /\ UNCHANGED <<mTotal, mIsShutdown, mThreadList, main, pc, mArg, caller, signals, todo, refused, ran>>

DestroyIdle ==
    /\ dtor = "none"
    /\ \A c \in Caller : caller[c] = Idle
    /\ mIndex >= mTotal
    /\ BeginShutdown
    /\ UNCHANGED <<mTotal, mThreadList, pc, mArg, caller, signals, todo, refused, ran>>

\* cond_wait on mFullCond has returned; mIndex is not read again.
DestroyWoken ==
    /\ dtor = "full_woken"
    /\ BeginShutdown
    /\ UNCHANGED <<mTotal, mThreadList, pc, mArg, caller, signals, todo, refused, ran>>

\* Signal the idle threads one by one, each under its mutex.
SignalNext ==
    /\ dtor = "signal"
    /\ signals < mIndex
    /\ LET t == mThreadList[signals + 1]
       IN pc[t] \notin {"save", "saved"} /\ pc' = Signalled(t)
    /\ signals' = signals + 1
    /\ UNCHANGED <<mTotal, mIsShutdown, mThreadList, main, mArg, caller, dtor, todo, refused, ran>>

\* SignalledAll, wrongly: the destructor does not wait on mEmptyCond.
SignalledAll_NoWait ==
    /\ dtor = "signal"
    /\ signals = mIndex
    /\ main' = None
    /\ dtor' = "empty_woken"
    /\ UNCHANGED <<mTotal, mIsShutdown, mThreadList, pc, mArg, caller, signals, todo, refused, ran>>

\* Wait on mEmptyCond, releasing mMainMutex, when there are threads left.
SignalledAll ==
    /\ dtor = "signal"
    /\ signals = mIndex
    /\ main' = None
    /\ dtor' = IF mTotal > 0 THEN "empty_wait" ELSE "empty_woken"
    /\ UNCHANGED <<mTotal, mIsShutdown, mThreadList, pc, mArg, caller, signals, todo, refused, ran>>

\* Free the listed thread structures, the list and the mutexes.
Free ==
    /\ dtor = "empty_woken"
    /\ main = None
    /\ mThreadList' = <<>>
    /\ dtor' = "done"
    /\ UNCHANGED <<mTotal, mIsShutdown, main, pc, mArg, caller, signals, todo, refused, ran>>

Destructor ==
    DestroyBusy \/ DestroyIdle \/ DestroyWoken \/ SignalNext \/ SignalledAll \/ Free

Dispatch(c) ==
    Call(c) \/ WaitIdle(c) \/ Create(c) \/ CreateFails(c) \/ Reuse(c) \/ Signal(c)

WrapperFunc(t) == Run(t) \/ Ran(t) \/ Save(t) \/ Wait(t) \/ Exit(t)

Next ==
    \/ Destructor
    \/ \E c \in Caller : Dispatch(c)
    \/ \E t \in Thread : WrapperFunc(t)

\* Threads keep running, tasks return, and a thread that wants a mutex gets it.
\* Nobody has to call dispatch or the destructor.
Fairness ==
    /\ \A t \in Thread : WF_vars(WrapperFunc(t))
    /\ \A c \in Caller : SF_vars(WaitIdle(c) \/ Create(c) \/ Reuse(c) \/ Signal(c))
    /\ WF_vars(DestroyWoken \/ SignalNext \/ SignalledAll \/ Free)

Spec == Init /\ [][Next]_vars /\ Fairness
-------------------------------------------------------------------------------
\* Type invariant of the pool.
TypeOK ==
    /\ mTotal \in 0 .. MaxThreads
    /\ mIsShutdown \in {0, 1}
    /\ mThreadList \in Seq(Thread)
    /\ main \in Caller \cup {None, Dtor}
    /\ pc \in [Thread -> {"none", "loop", "ran", "save", "saved", "wait", "gone"}]
    /\ mArg \in [Thread -> Task \cup {None}]
    /\ caller \in [Caller -> [pc : {"idle", "lock", "wait", "signal"},
                              task : Task \cup {None}, thread : Thread \cup {0}]]
    /\ dtor \in {"none", "full_wait", "full_woken", "signal", "empty_wait", "empty_woken", "done"}
    /\ signals \in 0 .. MaxThreads
    /\ todo \in SUBSET Task
    /\ refused \in SUBSET Task
    /\ ran \in [Task -> Nat]

Listed == {mThreadList[i] : i \in 1 .. mIndex}

\* Before the pool is shut down the idle list holds each idle thread once, so
\* that saveThread always finds room in the array of mMaxThreads entries and
\* the branch of wrapperFunc that frees an unsaved thread is never taken.
IdleListExact ==
    mIsShutdown = 0 =>
        /\ Listed \subseteq {t \in Thread : pc[t] \in {"saved", "wait"}}
        /\ Cardinality(Listed) = mIndex
        /\ \A t \in Thread : pc[t] = "save" => mIndex < MaxThreads
        /\ mTotal = Cardinality({t \in Thread : pc[t] # "none"})

\* A task that was given to an idle thread is not overwritten, run again or
\* dropped on the way: it is still to be dispatched, in some thread's mArg
\* before that thread runs, refused, or it has been run once.
RunsOnce ==
    \A k \in Task :
        /\ ran[k] + (IF k \in todo \/ k \in refused THEN 1 ELSE 0)
                  + Cardinality({c \in Caller : caller[c].task = k})
                  + Cardinality({t \in Thread : mArg[t] = k /\ pc[t] = "loop" /\ mIsShutdown = 0
                                    /\ ~(\E c \in Caller : caller[c].task = k)}) = 1

\* The destructor frees the thread structures and mutexes only after every
\* thread has left wrapperFunc and every accepted task has been run.
FreedWhenUnused ==
    dtor = "done" =>
        /\ \A t \in Thread : pc[t] \in {"none", "gone"}
        /\ \A k \in Task \ (todo \cup refused) : ran[k] = 1

\* How far a task has come, for the abstract pool: it is accepted once dispatch
\* has given it to a thread.
TaskState(k) ==
    CASE ran[k] > 0 -> "done"
      [] k \in refused -> "refused"
      [] ran[k] = 0 /\ k \notin refused
            /\ (k \in todo \/ \E c \in Caller :
                                caller[c].task = k /\ caller[c].pc \in {"lock", "wait"}) -> "new"
      [] OTHER -> "accepted"

Pool == INSTANCE TaskPool WITH
    state <- [k \in Task |-> TaskState(k)],
    open <- dtor # "done"

\* The pool with its mutexes and condition variables implements the abstract
\* one: every accepted task is run once, and before the destructor is done.
RefinesTaskPool == Pool!Spec

\* A call of dispatch returns, even when it had to wait for an idle thread.
DispatchReturns ==
    \A c \in Caller : caller[c].pc # "idle" ~> caller[c].pc = "idle"

\* The destructor returns: no signal on mFullCond or mEmptyCond is lost.
DestructorReturns == dtor # "none" ~> dtor = "done"
===============================================================================
