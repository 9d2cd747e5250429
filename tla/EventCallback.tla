----------------------------- MODULE EventCallback -----------------------------
(***************************************************************************)
(* SP_EventCallback and SP_EventHelper (speventcb.cpp), with the way in of *)
(* SP_Dispatcher::onPush: the life of sessions between the event loop,     *)
(* which runs the on* callbacks one at a time, and worker threads, which   *)
(* run the tasks the callbacks queue and answer through the response       *)
(* queue.                                                                  *)
(*                                                                         *)
(* A session stands for its own sid: SessionManager shows that a sid finds *)
(* the session it was made for or none.  The response queue is the fifo of *)
(* MsgFifo, the worker threads are those of ThreadPool.  Status and running*)
(* are plain fields that both sides use, so a callback that reads one of   *)
(* them after the other is split between the two reads.                    *)
(***************************************************************************)
EXTENDS Naturals, Sequences, FiniteSets

CONSTANTS
    Session, Message, Thread,
    System,          \* the sid of a response that no session sends
    Nobody,          \* no session: an idle thread, an idle event loop
    MaxConnections, ReqQueueSize,
    MaxRead,         \* bound: requests a client sends
    Dispatcher,      \* connections come by SP_Dispatcher::push, not by accept
    MayClose         \* whether handlers put sessions into the ToClose list

ASSUME SystemAssumption == System \notin Session /\ Nobody \notin Session \cup {System}

VARIABLES
    sess,                \* the SP_Session objects
    msg,                 \* the SP_Message objects
    known,               \* sessions whose handler has run: others can name them
    inputResultQueue,    \* tasks that callbacks have queued
    tasks,               \* tasks given to the worker executor
    thread,              \* the worker threads
    responseQueue,
    loop                 \* the callback the event loop is in

vars == <<sess, msg, known, inputResultQueue, tasks, thread, responseQueue, loop>>

Free == [fn |-> "none", s |-> Nobody, pc |-> "idle", response |-> <<>>, ret |-> 0]
Idle == [at |-> "idle", s |-> Nobody]

Live == {s \in Session : sess[s].st = "live"}

NewSession ==
    [st |-> "live", status |-> "eNormal", running |-> 0, inited |-> FALSE,
     readArmed |-> FALSE, writeArmed |-> FALSE, mReading |-> 0, mWriting |-> 0,
     inBuffer |-> 0, reads |-> 0, outList |-> <<>>, toClose |-> FALSE]

Init ==
    /\ sess = [s \in Session |-> [NewSession EXCEPT !.st = "none"]]
    /\ \E empty \in SUBSET Message :   \* the messages whose total size is 0
         msg = [m \in Message |-> [used |-> FALSE, empty |-> m \in empty, addr |-> {}, to |-> {},
                                  success |-> {}, failure |-> {}, completions |-> 0]]
    /\ known = {}
    /\ inputResultQueue = <<>>
    /\ tasks = <<>>
    /\ thread = [t \in Thread |-> Free]
    /\ responseQueue = <<>>
    /\ loop = Idle

-------------------------------------------------------------------------------
(* Helpers: each maps a session record, or the messages, to the new one.      *)

AddWrite(r) ==
    [r EXCEPT !.writeArmed = r.mWriting = 0 \/ @, !.mWriting = 1]

AddRead(r) ==
    [r EXCEPT !.readArmed = r.mReading = 0 \/ @, !.mReading = 1]

\* Settled, wrongly: the size of the to list is not tested.
Settled_Always(r) == [r EXCEPT !.completions = @ + 1]

\* doCompletion when no recipient is left.
Settled(r) ==
    IF r.to = {} THEN [r EXCEPT !.completions = @ + 1] ELSE r

\* The messages of M have been sent to s, or have failed for s.
Succeeded(M, s) ==
    [m \in Message |->
        IF m \in M THEN Settled([msg[m] EXCEPT !.to = @ \ {s}, !.success = @ \cup {s}])
                   ELSE msg[m]]

Failed(M, s) ==
    [m \in Message |->
        IF m \in M THEN Settled([msg[m] EXCEPT !.to = @ \ {s}, !.failure = @ \cup {s}])
                   ELSE msg[m]]

Members(q) == {q[i] : i \in 1 .. Len(q)}

Queue(fn, s) ==
    inputResultQueue' = Append(inputResultQueue, [fn |-> fn, s |-> s])

\* Unregistered, wrongly: only the write event is deleted.
Unregistered_ReadLeft(r) ==
    [r EXCEPT !.writeArmed = FALSE, !.st = "removed"]

\* event_del of both events and SP_SessionManager::remove.
Unregistered(r) ==
    [r EXCEPT !.readArmed = FALSE, !.writeArmed = FALSE, !.st = "removed"]

\* doError and doTimeout: fail what is still to be sent; r is the session as
\* the callback has it so far.
Abandon(s, r, fn) ==
    /\ msg' = Failed(Members(r.outList), s)
    /\ sess' = [sess EXCEPT ![s] = [Unregistered(r) EXCEPT !.outList = <<>>]]
    /\ Queue(fn, s)

doClose(s) ==
    /\ sess' = [sess EXCEPT ![s] = Unregistered(@)]
    /\ Queue("close", s)
    /\ UNCHANGED msg

\* doWork after decode has taken a request: start a worker task, or drop what
\* has been read.
doWork(s, r) ==
    IF r.status = "eNormal"
    THEN /\ sess' = [sess EXCEPT ![s] = [r EXCEPT !.running = 1, !.inBuffer = @ - 1]]
         /\ Queue("worker", s)
    ELSE /\ sess' = [sess EXCEPT ![s] = [r EXCEPT !.inBuffer = 0]]
         /\ UNCHANGED inputResultQueue

-------------------------------------------------------------------------------
(* The event loop: accepting and pushing connections                          *)

Busy ==
    \/ Cardinality(Live) + 1 > MaxConnections
    \/ Len(inputResultQueue) >= ReqQueueSize

\* onAccept when the server is not busy, and onPush with needStart, which does
\* not ask.
AcceptStart(s) ==
    /\ loop = Idle
    /\ sess[s].st = "none"
    /\ Dispatcher \/ ~Busy
    /\ sess' = [sess EXCEPT ![s] = [NewSession EXCEPT !.running = 1]]
    /\ Queue("start", s)
    /\ UNCHANGED <<msg, known, tasks, thread, responseQueue, loop>>

\* AcceptRefuse, wrongly: no write event is armed for the refusal.
AcceptRefuse_NoEvent(s) ==
    /\ loop = Idle
    /\ sess[s].st = "none"
    /\ ~Dispatcher /\ Busy
    /\ \E m \in {n \in Message : ~msg[n].empty} :
         /\ ~msg[m].used
         /\ msg' = [msg EXCEPT ![m].used = TRUE, ![m].addr = {s}]
         /\ sess' = [sess EXCEPT ![s] = [NewSession EXCEPT !.status = "eExit", !.outList = <<m>>]]
    /\ UNCHANGED <<known, inputResultQueue, tasks, thread, responseQueue, loop>>

\* onAccept when it is busy: the refusal is queued, the session is to exit.
AcceptRefuse(s) ==
    /\ loop = Idle
    /\ sess[s].st = "none"
    /\ ~Dispatcher /\ Busy
    /\ \E m \in {n \in Message : ~msg[n].empty} :
         /\ ~msg[m].used
         /\ msg' = [msg EXCEPT ![m].used = TRUE, ![m].addr = {s}]
         /\ sess' = [sess EXCEPT ![s] =
              AddWrite([NewSession EXCEPT !.status = "eExit", !.outList = <<m>>])]
    /\ UNCHANGED <<known, inputResultQueue, tasks, thread, responseQueue, loop>>

\* onPush without needStart; the caller of push may have initialised the channel
\* that it gives.
PushNoStart(s) ==
    /\ loop = Idle
    /\ sess[s].st = "none"
    /\ Dispatcher
    /\ \E inited \in BOOLEAN :
        sess' = [sess EXCEPT ![s] = AddRead(AddWrite([NewSession EXCEPT !.inited = inited]))]
    /\ UNCHANGED <<msg, known, inputResultQueue, tasks, thread, responseQueue, loop>>

-------------------------------------------------------------------------------
(* onRead.  receive fails at once on a channel that init has not seen.  The   *)
(* end of the stream leaves errno as it was, so it is an error or, when errno *)
(* still holds EAGAIN, nothing.                                               *)

Reads(s) ==
    /\ loop = Idle
    /\ sess[s].readArmed

\* ReadFired, wrongly: mReading is not reset.
ReadFired_StillReading(s) == [sess[s] EXCEPT !.readArmed = FALSE]

\* The record with the event taken from libevent and mReading reset.
ReadFired(s) == [sess[s] EXCEPT !.readArmed = FALSE, !.mReading = 0]

\* OnReadData, wrongly: running is not tested.
OnReadData_WhileRunning(s) ==
    /\ Reads(s)
    /\ sess[s].inited
    /\ LET r == [ReadFired(s) EXCEPT !.inBuffer = @ + 1, !.reads = @ + 1] IN
         /\ r.reads <= MaxRead
         /\ doWork(s, AddRead(r))
    /\ UNCHANGED <<msg, known, tasks, thread, responseQueue, loop>>

\* len > 0; k requests have become complete.
OnReadData(s) ==
    /\ Reads(s)
    /\ sess[s].inited
    /\ \E k \in {0, 1} :
         LET r == [ReadFired(s) EXCEPT !.inBuffer = @ + k, !.reads = @ + k] IN
         /\ r.reads <= MaxRead
         /\ IF r.running = 0 /\ r.inBuffer > 0
            THEN doWork(s, AddRead(r))
            ELSE /\ sess' = [sess EXCEPT ![s] = AddRead(r)]
                 /\ UNCHANGED inputResultQueue
    /\ UNCHANGED <<msg, known, tasks, thread, responseQueue, loop>>

OnReadAgain(s) ==
    /\ Reads(s)
    /\ sess[s].inited
    /\ sess' = [sess EXCEPT ![s] = AddRead(ReadFired(s))]
    /\ UNCHANGED <<msg, known, inputResultQueue, tasks, thread, responseQueue, loop>>

\* An error or a timeout: end the session, or leave it to onResponse.
OnReadFails(s) ==
    /\ Reads(s)
    /\ IF sess[s].running = 0
       THEN \E fn \in {"error", "timeout"} : Abandon(s, ReadFired(s), fn)
       ELSE /\ sess' = [sess EXCEPT ![s] = ReadFired(s)]
            /\ UNCHANGED <<msg, inputResultQueue>>
    /\ UNCHANGED <<known, tasks, thread, responseQueue, loop>>

-------------------------------------------------------------------------------
(* onWrite: first transmit, and the test of the status; then the test of      *)
(* running and what follows it.                                               *)

Writes(s) ==
    /\ loop = Idle
    /\ sess[s].writeArmed

WriteFired(s) == [sess[s] EXCEPT !.writeArmed = FALSE, !.mWriting = 0]

\* AfterTransmit, wrongly: the status is not tested.
AfterTransmit_NoExit(s, r) == [at |-> "decode", s |-> s]

\* Where onWrite goes once it has transmitted and left r.
AfterTransmit(s, r) ==
    [at |-> IF r.outList = <<>> /\ r.status = "eExit" THEN "exit" ELSE "decode", s |-> s]

\* transmit has written the first n messages, and perhaps part of the next;
\* or there was nothing to write.
OnWriteSend(s) ==
    /\ Writes(s)
    /\ sess[s].inited \/ sess[s].outList = <<>>
    /\ \E n \in 0 .. Len(sess[s].outList) :
         LET sent == SubSeq(sess[s].outList, 1, n)
             left == SubSeq(sess[s].outList, n + 1, Len(sess[s].outList))
             r == [WriteFired(s) EXCEPT !.outList = left]
             armed == IF left = <<>> THEN r ELSE AddWrite(r)
         IN /\ msg' = Succeeded(Members(sent), s)
            /\ sess' = [sess EXCEPT ![s] = armed]
            /\ loop' = AfterTransmit(s, armed)
    /\ UNCHANGED <<known, inputResultQueue, tasks, thread, responseQueue>>

OnWriteAgain(s) ==
    /\ Writes(s)
    /\ sess[s].inited /\ sess[s].outList # <<>>
    /\ sess' = [sess EXCEPT ![s] = AddWrite(WriteFired(s))]
    /\ loop' = AfterTransmit(s, sess[s])
    /\ UNCHANGED <<msg, known, inputResultQueue, tasks, thread, responseQueue>>

\* OnWriteFails, wrongly: running is not tested.
OnWriteFails_WhileRunning(s) ==
    /\ Writes(s)
    /\ \E fn \in {"error", "timeout"} : Abandon(s, WriteFired(s), fn)
    /\ UNCHANGED <<known, tasks, thread, responseQueue, loop>>

\* transmit fails, which it does at once before init, or the event timed out.
OnWriteFails(s) ==
    /\ Writes(s)
    /\ IF sess[s].running = 0
       THEN \E fn \in {"error", "timeout"} :
              /\ fn = "error" => sess[s].outList # <<>>
              /\ Abandon(s, WriteFired(s), fn)
       ELSE /\ sess' = [sess EXCEPT ![s] = WriteFired(s)]
            /\ UNCHANGED <<msg, inputResultQueue>>
    /\ UNCHANGED <<known, tasks, thread, responseQueue, loop>>

\* The status was eExit: close, or leave it to onResponse.
OnWriteExit ==
    /\ loop.at = "exit"
    /\ IF sess[loop.s].running = 0
       THEN doClose(loop.s)
       ELSE UNCHANGED <<sess, msg, inputResultQueue>>
    /\ loop' = Idle
    /\ UNCHANGED <<known, tasks, thread, responseQueue>>

\* OnWriteDecode, wrongly: the result of decode is not tested.
OnWriteDecode_Always ==
    /\ loop.at = "decode"
    /\ IF sess[loop.s].running = 0
       THEN doWork(loop.s, sess[loop.s])
       ELSE UNCHANGED <<sess, inputResultQueue>>
    /\ loop' = Idle
    /\ UNCHANGED <<msg, known, tasks, thread, responseQueue>>

\* Go on with a request that was read while the session was running.
OnWriteDecode ==
    /\ loop.at = "decode"
    /\ IF sess[loop.s].running = 0 /\ sess[loop.s].inBuffer > 0
       THEN doWork(loop.s, sess[loop.s])
       ELSE UNCHANGED <<sess, inputResultQueue>>
    /\ loop' = Idle
    /\ UNCHANGED <<msg, known, tasks, thread, responseQueue>>

-------------------------------------------------------------------------------
(* onResponse: the sender's status first, then the rest.                      *)

OnResponseStatus ==
    /\ loop = Idle
    /\ responseQueue # <<>>
    /\ LET from == Head(responseQueue).from IN
       /\ sess' = IF from \in Live /\ sess[from].status = "eWouldExit"
                  THEN [sess EXCEPT ![from].status = "eExit"] ELSE sess
       /\ loop' = [at |-> "response", s |-> from]
    /\ UNCHANGED <<msg, known, inputResultQueue, tasks, thread, responseQueue>>

\* SenderArmed, wrongly: events are armed only if the session goes on.
SenderArmed_NormalOnly(r) ==
    IF r.status = "eNormal" THEN AddRead(AddWrite(r)) ELSE [r EXCEPT !.readArmed = FALSE]

\* SenderArmed, wrongly: no write event when there is nothing to send.
SenderArmed_ReadOnly(r) ==
    AddRead(IF r.status # "eNormal" THEN [r EXCEPT !.readArmed = FALSE] ELSE r)

\* The sender always gets a write event, and loses its read event if it exits:
\* event_del leaves mReading as it is.
SenderArmed(r) ==
    AddRead(AddWrite(IF r.status # "eNormal" THEN [r EXCEPT !.readArmed = FALSE] ELSE r))

\* Whether a message of a response from a session goes to d.  memcmp compares the
\* padding of the two sids as well: equal is what it makes of one and the same.
Reaches(from, d, equal) ==
    /\ d \in Live
    /\ (d = from /\ equal) \/ sess[d].status # "eExit"

OnResponse ==
    /\ loop.at = "response"
    /\ \E equal \in BOOLEAN :
         LET response == Head(responseQueue)
             from == response.from
             Gets(m) == IF msg[m].empty THEN {}
                        ELSE {d \in msg[m].to : Reaches(from, d, equal)}
             Mine(d) == SelectSeq(response.msgs, LAMBDA m : d \in Gets(m))
             Armed(d) == IF d = from THEN SenderArmed(sess[d]) ELSE sess[d]
             Sent(d) == IF Mine(d) = <<>> THEN Armed(d)
                        ELSE [AddWrite(Armed(d)) EXCEPT !.outList = @ \o Mine(d)]
             Closed(d) == IF d \in response.toClose
                          THEN [AddWrite(Sent(d)) EXCEPT !.status = "eExit", !.toClose = TRUE]
                          ELSE Sent(d)
         IN /\ msg' = [m \in Message |->
                 IF m \in Members(response.msgs)
                 THEN Settled([msg[m] EXCEPT !.to = Gets(m),
                                             !.failure = @ \cup (msg[m].to \ Gets(m))])
                 ELSE msg[m]]
            /\ sess' = [d \in Session |-> IF d \in Live THEN Closed(d) ELSE sess[d]]
    /\ responseQueue' = Tail(responseQueue)
    /\ loop' = Idle
    /\ UNCHANGED <<known, inputResultQueue, tasks, thread>>

\* After event_base_loop the queued tasks go to the worker executor.
Drain ==
    /\ loop = Idle
    /\ inputResultQueue # <<>>
    /\ tasks' = tasks \o inputResultQueue
    /\ inputResultQueue' = <<>>
    /\ UNCHANGED <<sess, msg, known, thread, responseQueue, loop>>

-------------------------------------------------------------------------------
(* The worker threads                                                         *)

\* What a handler may put into its response: at most one message, to sessions
\* it can know of, and sessions to close.
Responses(from, peers) ==
    [from : {from}, msgs : {<<>>} \cup {<<m>> : m \in {x \in Message : ~msg[x].used}},
     toClose : IF MayClose THEN {{}} \cup {{p} : p \in peers} ELSE {{}}]

\* The messages after a handler has addressed those of a response.
Addressed(msgs, to) ==
    [m \in Message |-> IF m \in Members(msgs)
                       THEN [msg[m] EXCEPT !.used = TRUE, !.addr = to, !.to = to] ELSE msg[m]]

Take(t) ==
    /\ thread[t] = Free
    /\ tasks # <<>>
    /\ thread' = [thread EXCEPT ![t].fn = Head(tasks).fn, ![t].s = Head(tasks).s, ![t].pc = "begin"]
    /\ tasks' = Tail(tasks)
    /\ UNCHANGED <<sess, msg, known, inputResultQueue, responseQueue, loop>>

\* A handler addresses the message of its response.
Handles(response) ==
    \E to \in {{}} \cup {{d} : d \in known'} \cup {known'} :
        /\ response.msgs = <<>> => to = {}
        /\ msg' = Addressed(response.msgs, to)

\* start: init of the channel, Handler::start.
Start(t) ==
    LET s == thread[t].s IN
    /\ thread[t].pc = "begin" /\ thread[t].fn = "start"
    /\ known' = known \cup {s}
    /\ \/ /\ sess' = [sess EXCEPT ![s].inited = TRUE]
          /\ \E response \in Responses(s, known'), ret \in {0, 1} :
               /\ Handles(response)
               /\ thread' = [thread EXCEPT ![t].pc = "status", ![t].response = <<response>>,
                                           ![t].ret = ret]
       \/ /\ thread' = [thread EXCEPT ![t].pc = "status", ![t].ret = 1,
               ![t].response = <<[from |-> s, msgs |-> <<>>, toClose |-> {}]>>]
          /\ UNCHANGED <<sess, msg>>
    /\ UNCHANGED <<inputResultQueue, tasks, responseQueue, loop>>

StartStatus(t) ==
    /\ thread[t].pc = "status"
    /\ sess' = [sess EXCEPT ![thread[t].s].status =
                   IF thread[t].ret = 0 THEN "eNormal" ELSE "eWouldExit"]
    /\ thread' = [thread EXCEPT ![t].pc = "running", ![t].ret = 0]
    /\ UNCHANGED <<msg, known, inputResultQueue, tasks, responseQueue, loop>>

\* worker: Handler::handle, and the status if it says to terminate.
Work(t) ==
    LET s == thread[t].s IN
    /\ thread[t].pc = "begin" /\ thread[t].fn = "worker"
    /\ known' = known \cup {s}
    /\ \E response \in Responses(s, known'), ret \in {0, 1} :
         /\ Handles(response)
         /\ thread' = [thread EXCEPT ![t].pc = "running", ![t].response = <<response>>]
         /\ sess' = IF ret = 0 THEN sess ELSE [sess EXCEPT ![s].status = "eWouldExit"]
    /\ UNCHANGED <<inputResultQueue, tasks, responseQueue, loop>>

\* setRunning( 0 ): from here on the thread does not use the session.
NotRunning(t) ==
    /\ thread[t].pc = "running"
    /\ sess' = [sess EXCEPT ![thread[t].s].running = 0]
    /\ thread' = [thread EXCEPT ![t].pc = "push", ![t].s = Nobody]
    /\ UNCHANGED <<msg, known, inputResultQueue, tasks, responseQueue, loop>>

\* error and timeout call the handler, which may answer as well.
HandleError(t) ==
    LET s == thread[t].s IN
    /\ thread[t].pc = "begin" /\ thread[t].fn \in {"error", "timeout"}
    /\ known' = known \cup {s}
    /\ \E response \in Responses(s, known') :
         /\ Handles(response)
         /\ thread' = [thread EXCEPT ![t].pc = "push", ![t].response = <<response>>]
    /\ UNCHANGED <<sess, inputResultQueue, tasks, responseQueue, loop>>

\* msgqueue_push.
PushResponse(t) ==
    /\ thread[t].pc = "push"
    /\ responseQueue' = responseQueue \o thread[t].response
    /\ thread' = [thread EXCEPT ![t] =
                     IF @.fn \in {"error", "timeout"}
                     THEN [@ EXCEPT !.pc = "delete", !.response = <<>>] ELSE Free]
    /\ UNCHANGED <<sess, msg, known, inputResultQueue, tasks, loop>>

\* Handler::close, the socket closed, the session deleted.
Delete(t) ==
    /\ \/ thread[t].pc = "delete"
       \/ thread[t].pc = "begin" /\ thread[t].fn = "close"
    /\ sess' = [sess EXCEPT ![thread[t].s] = [NewSession EXCEPT !.st = "deleted"]]
    /\ thread' = [thread EXCEPT ![t] = Free]
    /\ UNCHANGED <<msg, known, inputResultQueue, tasks, responseQueue, loop>>

\* A response that a timer or SP_Dispatcher::push sends.
SystemResponse ==
    /\ Dispatcher
    /\ \E response \in Responses(System, known), to \in {{d} : d \in known} :
         /\ response.msgs # <<>>
         /\ msg' = Addressed(response.msgs, to)
         /\ responseQueue' = Append(responseQueue, response)
    /\ UNCHANGED <<sess, known, inputResultQueue, tasks, thread, loop>>

-------------------------------------------------------------------------------
OnWrite(s) == OnWriteSend(s) \/ OnWriteFails(s)

\* onWrite with nothing left to send, or that gets rid of a message.
WriteProgress(s) ==
    /\ OnWrite(s)
    /\ sess[s].outList = <<>> \/ Len(sess'[s].outList) < Len(sess[s].outList)

ThreadStep(t) ==
    \/ Take(t) \/ Start(t) \/ StartStatus(t) \/ Work(t) \/ NotRunning(t)
    \/ HandleError(t) \/ PushResponse(t) \/ Delete(t)

LoopStep == OnWriteExit \/ OnWriteDecode \/ OnResponseStatus \/ OnResponse \/ Drain

Next ==
    \/ \E s \in Session :
         \/ AcceptStart(s) \/ AcceptRefuse(s) \/ PushNoStart(s)
         \/ OnReadData(s) \/ OnReadAgain(s) \/ OnReadFails(s)
         \/ OnWrite(s) \/ OnWriteAgain(s)
    \/ LoopStep
    \/ \E t \in Thread : ThreadStep(t)
    \/ SystemResponse

\* Threads keep running; the event loop takes every event that stays ready; a
\* write event that keeps being armed is at last written, refused or timed out.
Fairness ==
    /\ \A t \in Thread : WF_vars(ThreadStep(t))
    /\ WF_vars(OnWriteExit) /\ WF_vars(OnWriteDecode) /\ WF_vars(OnResponse)
    /\ SF_vars(OnResponseStatus) /\ SF_vars(Drain)
    /\ \A s \in Session : SF_vars(WriteProgress(s))

Spec == Init /\ [][Next]_vars
FairSpec == Spec /\ Fairness
-------------------------------------------------------------------------------
(* Properties                                                                 *)

Response == [from : Session \cup {System}, msgs : Seq(Message), toClose : SUBSET Session]
Task == [fn : {"start", "worker", "error", "timeout", "close"}, s : Session]

\* Type invariant.
TypeOK ==
    /\ sess \in [Session ->
         [st : {"none", "live", "removed", "deleted"}, status : {"eNormal", "eWouldExit", "eExit"},
          running : {0, 1}, inited : BOOLEAN, readArmed : BOOLEAN, writeArmed : BOOLEAN,
          mReading : {0, 1}, mWriting : {0, 1}, inBuffer : Nat, reads : 0 .. MaxRead,
          outList : Seq(Message), toClose : BOOLEAN]]
    /\ msg \in [Message ->
         [used : BOOLEAN, empty : BOOLEAN, addr : SUBSET Session, to : SUBSET Session, success : SUBSET Session,
          failure : SUBSET Session, completions : Nat]]
    /\ known \in SUBSET Session
    /\ inputResultQueue \in Seq(Task)
    /\ tasks \in Seq(Task)
    /\ thread \in [Thread ->
         [fn : {"none", "start", "worker", "error", "timeout", "close"}, s : Session \cup {Nobody},
          pc : {"idle", "begin", "status", "running", "push", "delete"},
          response : Seq(Response), ret : {0, 1}]]
    /\ responseQueue \in Seq(Response)
    /\ loop \in [at : {"idle", "exit", "decode", "response"}, s : Session \cup {System, Nobody}]

\* How many tasks use s: they are queued, given to the executor or on a thread
\* that has not yet done setRunning( 0 ).
TasksOf(s) ==
    Cardinality({i \in 1 .. Len(inputResultQueue) : inputResultQueue[i].s = s})
      + Cardinality({i \in 1 .. Len(tasks) : tasks[i].s = s})
      + Cardinality({t \in Thread : thread[t].s = s})

\* At most one task uses a session at a time, so that a handler is never called
\* by two threads at once and a task never meets a session that another one has
\* deleted: mRunning is 1 exactly while a start or worker task uses it, and
\* exactly one error, timeout or close task deletes a session that has been
\* removed.
OneTaskPerSession ==
    \A s \in Session :
        /\ TasksOf(s) = IF sess[s].running = 1 \/ sess[s].st = "removed" THEN 1 ELSE 0
        /\ sess[s].running = 1 => sess[s].st = "live"

\* The event loop uses live sessions only: none of the events libevent holds and
\* no callback in progress refers to a session that a worker may delete ("it's
\* safe to destroy session here" in error and timeout).
EventsOnlyOfLive ==
    /\ \A s \in Session : sess[s].readArmed \/ sess[s].writeArmed => sess[s].st = "live"
    /\ loop.at \in {"exit", "decode"} => sess[loop.s].st = "live"

\* A response of s is still to come to onResponse.
AwaitsResponse(s) ==
    \/ sess[s].running = 1
    \/ \E i \in 1 .. Len(responseQueue) : responseQueue[i].from = s
    \/ \E t \in Thread : \E i \in 1 .. Len(thread[t].response) : thread[t].response[i].from = s

\* No session is forgotten: between callbacks every live session has an event
\* armed or a response to come, also when a callback found it busy and armed
\* nothing ("onResponse will add write event for this session").
NoSessionForgotten ==
    loop = Idle =>
        \A s \in Live : sess[s].readArmed \/ sess[s].writeArmed \/ AwaitsResponse(s)

\* A request that was read while the session was running is not left in the
\* buffer: a write event, in which it is decoded, is armed or will be ("so the
\* pending input can be processed in onWrite").
PendingInputHandled ==
    loop = Idle =>
        \A s \in Live : sess[s].inBuffer > 0 => sess[s].writeArmed \/ AwaitsResponse(s)

\* event_del in onResponse leaves mReading set, after which addEvent never arms
\* the read event again: that happens only to a session that is to end.
ReadingFlagTrue ==
    \A s \in Live :
        /\ sess[s].mWriting = 1 <=> sess[s].writeArmed
        /\ sess[s].readArmed => sess[s].mReading = 1
        /\ sess[s].mReading = 1 /\ ~sess[s].readArmed => sess[s].status # "eNormal"

\* The responses that hold m, on their way to onResponse.
InResponse(m) ==
    \/ \E i \in 1 .. Len(responseQueue) : m \in Members(responseQueue[i].msgs)
    \/ \E t \in Thread : \E i \in 1 .. Len(thread[t].response) :
         m \in Members(thread[t].response[i].msgs)

\* A message is completed once and only once every recipient has been settled,
\* as sent or as failed; until then a response or an out list holds it, and
\* afterwards, when the completion handler deletes it, none does.
MessageAccounted ==
    \A m \in Message :
        LET held == InResponse(m) \/ \E s \in Session : m \in Members(sess[s].outList) IN
        msg[m].used =>
            /\ msg[m].completions = IF held THEN 0 ELSE 1
            /\ ~held => msg[m].success \cup msg[m].failure = msg[m].addr
            /\ msg[m].success \cap msg[m].failure = {}

\* A session that is to exit, and that no task uses, ends: what it has to send
\* is sent or fails, and it is removed.
ExitCompletes ==
    \A s \in Session :
        (sess[s].st = "live" /\ sess[s].status # "eNormal" /\ sess[s].running = 0)
            ~> sess[s].st # "live"

\* speventcb.cpp: "busy, terminate session later": a session that a response has
\* asked to close is closed in the end.
CloseHonoured ==
    \A s \in Session : (sess[s].st = "live" /\ sess[s].toClose) ~> sess[s].st # "live"
===============================================================================
