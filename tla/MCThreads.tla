------------------------------- MODULE MCThreads -------------------------------
(***************************************************************************)
(* The parts of spserver where threads meet, each in behaviours of its     *)
(* own: the thread pool, the message queue of the event loop and the       *)
(* blocking queue of the executors.                                        *)
(***************************************************************************)
EXTENDS ThreadPool

CONSTANTS
    MaxEntries, RecvMax, SockBuf,   \* the message queue
    Consumer,                       \* of the blocking queue
    InitSize,                       \* slots of a new queue, of either kind
    MaxPush                         \* bound: pushes in a behaviour

ASSUME InitSizeAssumption == InitSize \in Nat \ {0}
ASSUME MaxEntriesAssumption == MaxEntries \in 0 .. InitSize
ASSUME SocketAssumption == RecvMax \in Nat \ {0} /\ SockBuf \in Nat \ {0}

VARIABLES
    part,   \* whose behaviour this is
    head, tail, count, array_elements, entries, bytes, lock, pop, qdata, sent,
    mEntries, mMaxCount, mHead, mTail, mCount, popper, popped, pushed

\* The threads that push are the ones that call dispatch in the pool's behaviours.
Q == INSTANCE EventMsgQueue WITH Thread <- Caller, pushed <- sent
B == INSTANCE BlockingQueue WITH InitMax <- InitSize, pc <- popper

qvars == <<head, tail, count, array_elements, entries, bytes, lock, pop, qdata, sent>>
bvars == <<mEntries, mMaxCount, mHead, mTail, mCount, popper, popped, pushed>>
allvars == <<part, vars, qvars, bvars>>

ThreadsInit ==
    /\ part \in {"pool", "msgqueue", "queue"}
    /\ Init /\ Q!Init /\ B!Init

ThreadsNext ==
    /\ UNCHANGED part
    /\ \/ part = "pool" /\ Next /\ UNCHANGED <<qvars, bvars>>
       \/ part = "msgqueue" /\ Q!Next /\ UNCHANGED <<vars, bvars>>
       \/ part = "queue" /\ B!Next /\ UNCHANGED <<vars, qvars>>

\* The fairness that each module states, for the part whose behaviour it is.
ThreadsFairness ==
    /\ \A t \in Thread : WF_vars(part = "pool" /\ WrapperFunc(t))
    /\ \A c \in Caller :
        SF_vars(part = "pool" /\ (WaitIdle(c) \/ Create(c) \/ Reuse(c) \/ Signal(c)))
    /\ WF_vars(part = "pool" /\ (DestroyWoken \/ SignalNext \/ SignalledAll \/ Free))
    /\ WF_qvars(part = "msgqueue" /\ Q!PopNext)
    /\ \A c \in Caller : WF_qvars(part = "msgqueue" /\ Q!Send(c))
    /\ \A c \in Consumer : WF_bvars(part = "queue" /\ B!Pop(c))

ThreadsSpec == ThreadsInit /\ [][ThreadsNext]_allvars /\ ThreadsFairness
--------------------------------------------------------------------------------
\* Type invariant of the three parts.
TypesOK == TypeOK /\ Q!TypeOK /\ B!TypeOK

\* The loop learns of every message in its queue: event_msgqueue.c loses no wake-up.
NoLostWakeup == Q!NoLostWakeup

\* The message queue delivers every message once and in order.
MessagesAreFifo == Q!RefinesFifo

\* The executor does not sleep on tasks in its queue: sputils.cpp signals each.
NoSleeperOnItems == B!NoSleeperOnItems

\* The growing array of the blocking queue hands every task over, once and in order,
\* and pop never returns NULL to its only consumer.
TasksAreFifo == B!RefinesFifo
================================================================================
