---------------------------- MODULE EventMsgQueue ----------------------------
(***************************************************************************)
(* event_msgqueue.c: the queue through which worker threads hand responses *)
(* to the event loop.  A circular array guarded by a mutex holds the       *)
(* messages; the push that makes it non-empty sends one byte through a     *)
(* socket pair, whose other end is an event of the loop.  msgqueue_pop     *)
(* receives the bytes that have come in and then drains the array,         *)
(* releasing the mutex around each callback.                               *)
(***************************************************************************)
EXTENDS Naturals, Sequences

CONSTANTS
    Thread,      \* threads that push
    MaxEntries,  \* max_entries; 0: unbounded, the array grows
    InitSize,    \* array_elements of a new queue
    RecvMax,     \* sizeof(buf) in msgqueue_pop
    SockBuf,     \* bytes the socket pair holds before send blocks
    MaxPush      \* bound: pushes in a behaviour

VARIABLES
    head, tail, count, array_elements, entries,   \* struct circqueue
    bytes,     \* wake-up bytes in the socket pair
    lock,      \* the thread inside send with the mutex held, or Nobody
    pop,       \* msgqueue_pop: "idle", "drain" (wants the mutex), "callback"
    qdata,     \* the message msgqueue_pop holds, a sequence of at most one
    pushed     \* history: number of messages accepted

vars == <<head, tail, count, array_elements, entries, bytes, lock, pop, qdata, pushed>>

queue == <<head, tail, count, array_elements, entries>>

Msg == 1 .. MaxPush
Nobody == "nobody"

Init ==
    /\ head = 0 /\ tail = 0 /\ count = 0
    /\ array_elements = InitSize
    /\ entries = [i \in 0 .. InitSize - 1 |-> 0]
    /\ bytes = 0
    /\ lock = Nobody
    /\ pop = "idle"
    /\ qdata = <<>>
    /\ pushed = 0

\* circqueue_grow: the chunk from head to the end, then the one before tail.
HeadChunkLen == IF head < tail THEN tail - head ELSE array_elements - head

\* TailChunkLen, wrongly: the part before tail is not copied.
TailChunkLen_None == 0

TailChunkLen == IF head < tail THEN 0 ELSE tail

\* Regrown, wrongly: the new array has the size of the old one.
Regrown_OldSize ==
    [i \in 0 .. array_elements - 1 |->
        IF i < HeadChunkLen THEN entries[head + i] ELSE entries[i - HeadChunkLen]]

Regrown ==
    [i \in 0 .. 2 * array_elements - 1 |->
        IF i < HeadChunkLen THEN entries[head + i]
        ELSE IF i < HeadChunkLen + TailChunkLen THEN entries[i - HeadChunkLen]
        ELSE 0]

\* circqueue_push_tail; array_elements is a power of two, so the mask is %.
PushTail(m) ==
    LET grow == MaxEntries = 0 /\ count = array_elements
        size == IF grow THEN 2 * array_elements ELSE array_elements
        at   == IF grow THEN HeadChunkLen + TailChunkLen ELSE tail
        ents == IF grow THEN Regrown ELSE entries
    IN /\ count' = count + 1
       /\ array_elements' = size
       /\ head' = IF grow THEN 0 ELSE head
       /\ entries' = [ents EXCEPT ![at] = m]
       /\ tail' = (at + 1) % size

Rejects == MaxEntries > 0 /\ count = MaxEntries

\* Push, wrongly: the byte is sent when the length was 1 before the push.
Push_LateWakeup(t) ==
    /\ lock = Nobody
    /\ pushed < MaxPush
    /\ ~Rejects
    /\ PushTail(pushed + 1)
    /\ pushed' = pushed + 1
    /\ lock' = IF count = 1 THEN t ELSE Nobody
    /\ UNCHANGED <<bytes, pop, qdata>>

\* msgqueue_push up to the send, which happens with the mutex held.
Push(t) ==
    /\ lock = Nobody
    /\ pushed < MaxPush
    /\ ~Rejects
    /\ PushTail(pushed + 1)
    /\ pushed' = pushed + 1
    /\ lock' = IF count = 0 THEN t ELSE Nobody
    /\ UNCHANGED <<bytes, pop, qdata>>

\* send on a blocking socket, then the mutex is released.
Send(t) ==
    /\ lock = t
    /\ bytes < SockBuf
    /\ bytes' = bytes + 1
    /\ lock' = Nobody
    /\ UNCHANGED <<queue, pop, qdata, pushed>>

\* The loop finds pop_fd readable and calls msgqueue_pop, which receives.
PopRecv ==
    /\ pop = "idle"
    /\ bytes > 0
    /\ bytes' = IF bytes > RecvMax THEN bytes - RecvMax ELSE 0
    /\ pop' = "drain"
    /\ UNCHANGED <<queue, lock, qdata, pushed>>

\* One turn of the loop of msgqueue_pop, under the mutex: circqueue_pop_head.
PopHead ==
    /\ pop = "drain"
    /\ lock = Nobody
    /\ count > 0
    /\ count' = count - 1
    /\ qdata' = <<entries[head]>>
    /\ head' = (head + 1) % array_elements
    /\ pop' = "callback"
    /\ UNCHANGED <<tail, array_elements, entries, bytes, lock, pushed>>

PopDone ==
    /\ pop = "drain"
    /\ lock = Nobody
    /\ count = 0
    /\ pop' = "idle"
    /\ UNCHANGED <<queue, bytes, lock, qdata, pushed>>

\* The callback runs without the mutex.
Callback ==
    /\ pop = "callback"
    /\ qdata' = <<>>
    /\ pop' = "drain"
    /\ UNCHANGED <<queue, bytes, lock, pushed>>

PopNext == PopRecv \/ PopHead \/ PopDone \/ Callback

Next == PopNext \/ \E t \in Thread : Push(t) \/ Send(t)

\* The event loop keeps running and a thread inside send is not abandoned.
Fairness == WF_vars(PopNext) /\ \A t \in Thread : WF_vars(Send(t))

Spec == Init /\ [][Next]_vars /\ Fairness
------------------------------------------------------------------------------
\* Type invariant of the queue.
TypeOK ==
    /\ array_elements \in Nat \ {0}
    /\ count \in 0 .. array_elements
    /\ head \in 0 .. array_elements - 1
    /\ tail \in 0 .. array_elements - 1
    /\ entries \in [0 .. array_elements - 1 -> Nat]
    /\ bytes \in 0 .. SockBuf
    /\ lock \in Thread \cup {Nobody}
    /\ pop \in {"idle", "drain", "callback"}
    /\ qdata \in Seq(Nat)
    /\ pushed \in 0 .. MaxPush

\* The messages in the array, in the order in which pop_head takes them.
Contents == [i \in 1 .. count |-> entries[(head + i - 1) % array_elements]]

\* No wake-up is lost: while a message is queued, a byte is in the socket pair,
\* or the thread that must send it is about to, or msgqueue_pop has yet to look
\* at the array again.
NoLostWakeup ==
    count > 0 => bytes > 0 \/ lock # Nobody \/ pop # "idle"

\* The number of messages that reached the callback, from the history.
Undelivered == qdata \o Contents

\* The circular array, with its growth, its masks and the unlocking around the
\* callback, implements a fifo that delivers every message once and in order.
Fifo == INSTANCE MsgFifo WITH
    waiting <- Undelivered,
    delivered <- [i \in 1 .. pushed - Len(Undelivered) |-> i]

\* Every behaviour of the queue is one of the fifo, its liveness included.
RefinesFifo == Fifo!Spec
==============================================================================
