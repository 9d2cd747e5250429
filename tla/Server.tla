-------------------------------- MODULE Server --------------------------------
(***************************************************************************)
(* SP_Server::start (spserver.cpp), the half-sync/half-async server: the   *)
(* event loop runs callbacks, hands the tasks they queued to the worker    *)
(* executor and the completed messages to the "act" executor of one        *)
(* thread, and after a signal takes everything down: the completion        *)
(* handler by delete, then, by their destructors, the two executors and    *)
(* the SP_EventArg with the queues and the session manager.                *)
(***************************************************************************)
EXTENDS Naturals, Sequences, FiniteSets

CONSTANTS
    Job,         \* tasks the callbacks queue: start, worker, error, ...
    Message,     \* messages that are completed
    MaxThreads   \* mMaxThreads, for the worker executor

VARIABLES
    mIsShutdown,             \* of the server
    at,                      \* where SP_Server::start is
    inputResultQueue, outputResultQueue,
    queued,                  \* jobs that callbacks have queued
    completed,               \* messages that callbacks have completed, in order
    handlerDeleted,          \* the completion handler is deleted
    wQueue, wShutdown, wLoop, wData, wRunning, wFinished, wDtor,
    aQueue, aShutdown, aLoop, aData, aRunning, aFinished, aDtor

workVars == <<wQueue, wShutdown, wLoop, wData, wRunning, wFinished, wDtor>>
actVars == <<aQueue, aShutdown, aLoop, aData, aRunning, aFinished, aDtor>>
ownVars == <<mIsShutdown, at, inputResultQueue, outputResultQueue, queued, completed, handlerDeleted>>
vars == <<ownVars, workVars, actVars>>

workerExecutor == INSTANCE Executor WITH
    Task <- Job, mQueue <- wQueue, mIsShutdown <- wShutdown, loop <- wLoop,
    queueData <- wData, running <- wRunning, finished <- wFinished, dtor <- wDtor

actExecutor == INSTANCE Executor WITH
    Task <- Message, MaxThreads <- 1, mQueue <- aQueue, mIsShutdown <- aShutdown, loop <- aLoop,
    queueData <- aData, running <- aRunning, finished <- aFinished, dtor <- aDtor

Init ==
    /\ mIsShutdown = 0
    /\ at = "test"
    /\ inputResultQueue = <<>>
    /\ outputResultQueue = <<>>
    /\ queued = {}
    /\ completed = <<>>
    /\ handlerDeleted = FALSE
    /\ workerExecutor!Init
    /\ actExecutor!Init

\* while( 0 == mIsShutdown )
Test ==
    /\ at = "test"
    /\ at' = IF mIsShutdown = 0 THEN "events" ELSE "closing"
    /\ UNCHANGED <<mIsShutdown, inputResultQueue, outputResultQueue, queued, completed, handlerDeleted>>
    /\ UNCHANGED <<workVars, actVars>>

\* Callback, wrongly: doCompletion puts the message into the queue of the tasks.
Callback_WrongQueue ==
    /\ at = "events"
    /\ \/ \E k \in Job \ queued :
            /\ inputResultQueue' = Append(inputResultQueue, k)
            /\ queued' = queued \cup {k}
            /\ UNCHANGED <<outputResultQueue, completed>>
       \/ \E m \in Message \ {completed[i] : i \in DOMAIN completed} :
            /\ inputResultQueue' = Append(inputResultQueue, m)
            /\ completed' = Append(completed, m)
            /\ UNCHANGED <<outputResultQueue, queued>>
    /\ at' \in {"events", "drain"}
    /\ UNCHANGED <<mIsShutdown, handlerDeleted, workVars, actVars>>

\* event_base_loop( EVLOOP_ONCE ): each callback queues a task, or completes a
\* message, or does neither, and others may follow before the loop returns.
Callback ==
    /\ at = "events"
    /\ \/ \E k \in Job \ queued :
            /\ inputResultQueue' = Append(inputResultQueue, k)
            /\ queued' = queued \cup {k}
            /\ UNCHANGED <<outputResultQueue, completed>>
       \/ \E m \in Message \ {completed[i] : i \in DOMAIN completed} :
            /\ outputResultQueue' = Append(outputResultQueue, m)
            /\ completed' = Append(completed, m)
            /\ UNCHANGED <<inputResultQueue, queued>>
       \/ UNCHANGED <<inputResultQueue, outputResultQueue, queued, completed>>
    /\ at' \in {"events", "drain"}
    /\ UNCHANGED <<mIsShutdown, handlerDeleted, workVars, actVars>>

\* shutdown, by sigHandler in the event loop or by any other thread.
Shutdown ==
    /\ mIsShutdown' = 1
    /\ UNCHANGED <<at, inputResultQueue, outputResultQueue, queued, completed, handlerDeleted>>
    /\ UNCHANGED <<workVars, actVars>>

DrainInput ==
    /\ at = "drain"
    /\ inputResultQueue # <<>>
    /\ workerExecutor!Execute(Head(inputResultQueue))
    /\ inputResultQueue' = Tail(inputResultQueue)
    /\ UNCHANGED <<mIsShutdown, at, outputResultQueue, queued, completed, handlerDeleted, actVars>>

\* DrainOutput, wrongly: the message stays in the queue, as with top.
DrainOutput_Stays ==
    /\ at = "drain"
    /\ inputResultQueue = <<>> /\ outputResultQueue # <<>>
    /\ Len(aQueue) < 3
    /\ actExecutor!Execute(Head(outputResultQueue))
    /\ UNCHANGED <<ownVars, workVars>>

DrainOutput ==
    /\ at = "drain"
    /\ inputResultQueue = <<>> /\ outputResultQueue # <<>>
    /\ actExecutor!Execute(Head(outputResultQueue))
    /\ outputResultQueue' = Tail(outputResultQueue)
    /\ UNCHANGED <<mIsShutdown, at, inputResultQueue, queued, completed, handlerDeleted, workVars>>

Drained ==
    /\ at = "drain"
    /\ inputResultQueue = <<>> /\ outputResultQueue = <<>>
    /\ at' = "test"
    /\ UNCHANGED <<mIsShutdown, inputResultQueue, outputResultQueue, queued, completed, handlerDeleted>>
    /\ UNCHANGED <<workVars, actVars>>

\* delete completionHandler
DeleteHandler ==
    /\ at = "closing"
    /\ handlerDeleted' = TRUE
    /\ at' = "act"
    /\ UNCHANGED <<mIsShutdown, inputResultQueue, outputResultQueue, queued, completed, workVars, actVars>>

\* Destructors of the locals, in the reverse order of their declaration.
DestroyAct ==
    /\ at = "act"
    /\ \/ actExecutor!Destroy /\ UNCHANGED at
       \/ aDtor = "done" /\ at' = "work" /\ UNCHANGED actVars
    /\ UNCHANGED <<mIsShutdown, inputResultQueue, outputResultQueue, queued, completed, handlerDeleted, workVars>>

DestroyWork ==
    /\ at = "work"
    /\ \/ workerExecutor!Destroy /\ UNCHANGED at
       \/ wDtor = "done" /\ at' = "event_arg" /\ UNCHANGED workVars
    /\ UNCHANGED <<mIsShutdown, inputResultQueue, outputResultQueue, queued, completed, handlerDeleted, actVars>>

\* ~SP_EventArg deletes the queues and the session manager.
DestroyEventArg ==
    /\ at = "event_arg"
    /\ at' = "returned"
    /\ inputResultQueue' = <<>>
    /\ outputResultQueue' = <<>>
    /\ UNCHANGED <<mIsShutdown, queued, completed, handlerDeleted, workVars, actVars>>

EventLoop ==
    \/ Test \/ DrainInput \/ DrainOutput \/ Drained
    \/ DeleteHandler \/ DestroyAct \/ DestroyWork \/ DestroyEventArg

WorkStep ==
    /\ \/ workerExecutor!EventLoop
       \/ workerExecutor!Destructor
       \/ \E k \in Job : workerExecutor!Finish(k)
    /\ UNCHANGED <<ownVars, actVars>>

ActStep ==
    /\ actExecutor!RunInline \/ actExecutor!Test \/ actExecutor!Pop
       \/ actExecutor!End \/ actExecutor!EndSignal \/ actExecutor!Destructor
    /\ UNCHANGED <<ownVars, workVars>>

Next == EventLoop \/ Callback \/ Shutdown \/ WorkStep \/ ActStep

\* Threads keep running; event_base_loop( EVLOOP_ONCE ) returns.
Fairness == WF_vars(EventLoop) /\ WF_vars(Callback) /\ WF_vars(WorkStep) /\ WF_vars(ActStep)

Spec == Init /\ [][Next]_vars /\ Fairness
-------------------------------------------------------------------------------
\* Type invariant of the server and of its executors.
TypeOK ==
    /\ mIsShutdown \in {0, 1}
    /\ at \in {"test", "events", "drain", "closing", "act", "work", "event_arg", "returned"}
    /\ inputResultQueue \in Seq(Job)
    /\ outputResultQueue \in Seq(Message)
    /\ queued \in SUBSET Job
    /\ completed \in Seq(Message)
    /\ handlerDeleted \in BOOLEAN
    /\ workerExecutor!TypeOK /\ actExecutor!TypeOK

\* A job is in exactly one place, so that it is run at most once: in a queue, in
\* eventLoop's hand, on a thread of the pool, or finished.
JobsRunOnce ==
    /\ Len(inputResultQueue) + Len(SelectSeq(wQueue, LAMBDA k : k \in Job))
         + Cardinality(workerExecutor!Held) + Cardinality(wRunning) + Len(wFinished)
         = Cardinality(queued)
    /\ {inputResultQueue[i] : i \in DOMAIN inputResultQueue} \cup workerExecutor!Queued
         \cup workerExecutor!Held \cup wRunning \cup workerExecutor!Finished = queued

\* No worker task touches the SP_EventArg, its session manager or its queues
\* once their destructors may run: the worker executor is declared later, so it
\* is destroyed first, and its destructor returns only after eventLoop has left
\* its loop and the pool has run what it was given.  (eventLoop itself may still
\* have to signal and unlock.)
EventArgOutlivesWorkers ==
    at \in {"event_arg", "returned"} =>
        wRunning = {} /\ workerExecutor!Held = {} /\ wLoop \in {"ended", "gone"}

\* Completed messages reach the completion handler in the order in which they
\* were completed, and none is handed over twice.
CompletionsInOrder ==
    /\ Len(aFinished) <= Len(completed)
    /\ aFinished = SubSeq(completed, 1, Len(aFinished))

\* Every task that a callback has queued is run, unless the server is shut down.
EveryJobRuns ==
    \A k \in Job : k \in queued ~> (k \in workerExecutor!Finished \/ mIsShutdown = 1)

\* spserver.cpp: "Clean close on SIGINT or SIGTERM": what the closing deletes is
\* not used any more: no message is handed to the completion handler after it.
HandlerOutlivesMessages == [][aFinished' # aFinished => ~handlerDeleted]_vars

\* spserver.cpp: "Clean close on SIGINT or SIGTERM": after a signal start returns.
CleanClose == mIsShutdown = 1 ~> at = "returned"
===============================================================================
