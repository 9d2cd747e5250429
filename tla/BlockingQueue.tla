---------------------------- MODULE BlockingQueue ----------------------------
(***************************************************************************)
(* SP_CircleQueue and SP_BlockingQueue (sputils.cpp): the queues between   *)
(* the event loop and the executors.  push stores an item in the circular  *)
(* array, growing it when it is full, and signals mCond; pop waits once on *)
(* mCond when the array is empty and then takes what is there, which is    *)
(* nothing (NULL) when another consumer was faster.                        *)
(***************************************************************************)
EXTENDS Naturals, Sequences, FiniteSets

CONSTANTS
    Consumer,   \* threads that call pop
    InitMax,    \* mMaxCount of a new queue
    MaxPush     \* bound: pushes in a behaviour

VARIABLES
    mEntries, mMaxCount, mHead, mTail, mCount,
    pc,        \* consumer -> "idle", "wait" (in cond_wait), "woken"
    popped,    \* history: what pop returned, in order; 0 is NULL
    pushed     \* history: number of items pushed

vars == <<mEntries, mMaxCount, mHead, mTail, mCount, pc, popped, pushed>>

Item == 1 .. MaxPush

Init ==
    /\ mMaxCount = InitMax
    /\ mEntries = [i \in 0 .. InitMax - 1 |-> 0]
    /\ mHead = 0 /\ mTail = 0 /\ mCount = 0
    /\ pc = [c \in Consumer |-> "idle"]
    /\ popped = <<>>
    /\ pushed = 0

\* SP_CircleQueue::push computes the chunks after mMaxCount has grown.
HeadLen == IF mHead < mTail THEN mTail - mHead ELSE mCount - mTail

TailLen == IF mHead < mTail THEN 0 ELSE mTail

\* Grown, wrongly: the two parts are copied in the wrong order.
Grown_Swapped(max) ==
    [i \in 0 .. max - 1 |->
        IF i < TailLen THEN mEntries[i]
        ELSE IF i < HeadLen + TailLen THEN mEntries[mHead + i - TailLen]
        ELSE 0]

Grown(max) ==
    [i \in 0 .. max - 1 |->
        IF i < HeadLen THEN mEntries[mHead + i]
        ELSE IF i < HeadLen + TailLen THEN mEntries[i - HeadLen]
        ELSE 0]

\* Signalled, wrongly: push signals only when the queue was not empty.
Signalled_WhenNotEmpty ==
    IF mCount > 0 /\ \E c \in Consumer : pc[c] = "wait"
    THEN {[pc EXCEPT ![c] = "woken"] : c \in {d \in Consumer : pc[d] = "wait"}}
    ELSE {pc}

\* cond_signal in push, after the item is in.
Signalled ==
    IF \E c \in Consumer : pc[c] = "wait"
    THEN {[pc EXCEPT ![c] = "woken"] : c \in {d \in Consumer : pc[d] = "wait"}}
    ELSE {pc}

Push ==
    LET full == mCount >= mMaxCount
        max  == IF full THEN (mMaxCount * 3) \div 2 + 1 ELSE mMaxCount
        at   == IF full THEN HeadLen + TailLen ELSE mTail
        ents == IF full THEN Grown(max) ELSE mEntries
    IN /\ pushed < MaxPush
       /\ mMaxCount' = max
       /\ mHead' = IF full THEN 0 ELSE mHead
       /\ mEntries' = [ents EXCEPT ![at] = pushed + 1]
       /\ mTail' = (at + 1) % max
       /\ mCount' = mCount + 1
       /\ pushed' = pushed + 1
       /\ pc' \in Signalled
       /\ UNCHANGED popped

\* SP_CircleQueue::pop, inside SP_BlockingQueue::pop with the mutex held.
Take ==
    IF mCount > 0
    THEN /\ popped' = Append(popped, mEntries[mHead])
         /\ mHead' = (mHead + 1) % mMaxCount
         /\ mCount' = mCount - 1
    ELSE /\ popped' = Append(popped, 0)
         /\ UNCHANGED <<mHead, mCount>>

\* pop: the mutex is taken and the queue is empty, so the thread waits.
PopWait(c) ==
    /\ pc[c] = "idle"
    /\ mCount = 0
    /\ pc' = [pc EXCEPT ![c] = "wait"]
    /\ UNCHANGED <<mEntries, mMaxCount, mHead, mTail, mCount, popped, pushed>>

\* pop: there is an item.
PopNow(c) ==
    /\ pc[c] = "idle"
    /\ mCount > 0
    /\ Take
    /\ UNCHANGED <<mEntries, mMaxCount, mTail, pc, pushed>>

\* pop: cond_wait has returned with the mutex; the length is not read again.
PopWoken(c) ==
    /\ pc[c] = "woken"
    /\ pc' = [pc EXCEPT ![c] = "idle"]
    /\ Take
    /\ UNCHANGED <<mEntries, mMaxCount, mTail, pushed>>

Pop(c) == PopWait(c) \/ PopNow(c) \/ PopWoken(c)

Next == Push \/ \E c \in Consumer : Pop(c)

\* The consumers are loops that call pop again and again.
Spec == Init /\ [][Next]_vars /\ \A c \in Consumer : WF_vars(Pop(c))
------------------------------------------------------------------------------
\* Type invariant of the queue.
TypeOK ==
    /\ mMaxCount \in Nat \ {0}
    /\ mCount \in 0 .. mMaxCount
    /\ mHead \in 0 .. mMaxCount - 1
    /\ mTail \in 0 .. mMaxCount - 1
    /\ mEntries \in [0 .. mMaxCount - 1 -> Nat]
    /\ pc \in [Consumer -> {"idle", "wait", "woken"}]
    /\ popped \in Seq(Nat)
    /\ pushed \in 0 .. MaxPush

Contents == [i \in 1 .. mCount |-> mEntries[(mHead + i - 1) % mMaxCount]]

\* A consumer that sleeps in cond_wait has been signalled for every item that
\* came in while it slept: nobody sleeps on a queue that has more items than
\* woken consumers.
NoSleeperOnItems ==
    (\E c \in Consumer : pc[c] = "wait") =>
        mCount <= Cardinality({c \in Consumer : pc[c] = "woken"})

\* The growing circular array with its condition variable implements a fifo
\* whose items are all taken, in order.
Fifo == INSTANCE MsgFifo WITH
    Msg <- Item, waiting <- Contents, delivered <- popped

\* Every behaviour of the queue with one consumer is one of the fifo.
RefinesFifo == Fifo!Spec
==============================================================================
