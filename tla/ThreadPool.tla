----------------------------- MODULE ThreadPool -----------------------------
(***************************************************************************)
(* cadf::thread::BasicThreadPool (thread-lib): a fixed number of threads   *)
(* that take functions from a shared FIFO buffer.                          *)
(*                                                                         *)
(* One action is one stretch of code between two points at which another   *)
(* thread can interfere: acquiring a mutex, blocking on (or being woken    *)
(* from) the condition variable, a notification, an unsynchronised write.  *)
(* m_terminating is a plain bool that stop() writes WITHOUT holding        *)
(* m_bufferMutex, so the write may fall between any two steps of a worker, *)
(* in particular between its test of the wait predicate and its blocking.  *)
(*                                                                         *)
(* The functions are numbered 1, 2, ... in the order schedule() pushes     *)
(* them.  A function's body may itself call the pool (FuncCalls), as the   *)
(* message handlers run by ThreadedBus do; it terminates once its calls    *)
(* return.                                                                 *)
(***************************************************************************)
EXTENDS Integers, Sequences, FiniteSets

CONSTANTS
    Workers,      \* the threads of the pool; m_numOfThreads = |Workers|
    Clients,      \* threads of the application that use the pool
    NoThread,     \* owner of a free mutex
    ClientCalls,  \* which operations clients call
    FuncCalls,    \* which operations scheduled functions call
    MaxTasks      \* bound on the number of schedule() calls

Operations == {"schedule", "start", "stop", "isStarted"}

\* The constructor refuses 0 threads.
ASSUME WorkersAssumption == IsFiniteSet(Workers) /\ Workers # {}
ASSUME ThreadsAssumption == IsFiniteSet(Clients) /\ Clients \cap Workers = {}
ASSUME NoThreadAssumption == NoThread \notin Workers \cup Clients
\* A function that calls stop() would join its own thread: std::thread::join
\* throws and the program ends, so scheduled functions never do.
ASSUME CallsAssumption ==
    /\ ClientCalls \subseteq Operations
    /\ FuncCalls \subseteq Operations \ {"stop"}
ASSUME MaxTasksAssumption == MaxTasks \in Nat

VARIABLES
    m_started, m_terminating,
    poolMutex,    \* owner of m_threadPoolMutex
    bufferMutex,  \* owner of m_bufferMutex, between two steps
    m_buffer,     \* the scheduled functions not yet taken
    wpc,          \* where each worker is in waitAndProcess
    func,         \* the function a worker has taken, 0 if none
    api,          \* where each thread is in a call to the pool
    pushed,       \* number of functions pushed so far
    begun, done   \* functions whose execution began, ended

vars == <<m_started, m_terminating, poolMutex, bufferMutex, m_buffer,
          wpc, func, api, pushed, begun, done>>

Threads == Workers \cup Clients
Tasks == 1 .. pushed

WorkerStates == {"none",      \* no thread exists
                 "lock",      \* acquiring m_bufferMutex: on entry, or woken
                 "test",      \* holds it, evaluates the wait predicate
                 "block",     \* predicate was false, about to block
                 "waiting",   \* blocked on m_bufferCondition
                 "decide",    \* wait() returned, holds the mutex
                 "grabbed",   \* took a function, released the mutex
                 "running",   \* inside func()
                 "exited"}    \* left the loop, not yet joined

CallStates == {"idle", "schedule", "notify", "start", "spawn", "stop",
               "terminate", "notifyAll", "join", "isStarted"}

\* m_threads: the threads that have been created and not been purged
m_threads == {w \in Workers : wpc[w] # "none"}

TypeOK ==
    /\ m_started \in BOOLEAN /\ m_terminating \in BOOLEAN
    /\ poolMutex \in Threads \cup {NoThread}
    /\ bufferMutex \in Workers \cup {NoThread}
    /\ m_buffer \in Seq(Tasks)
    /\ wpc \in [Workers -> WorkerStates]
    /\ func \in [Workers -> Tasks \cup {0}]
    /\ api \in [Threads -> CallStates]
    /\ pushed \in Nat
    /\ begun \in SUBSET Tasks /\ done \in SUBSET Tasks

\* The constructed pool, before any start(): the constructor with autoStart
\* is this state followed by a start().
Init ==
    /\ m_started = FALSE /\ m_terminating = FALSE
    /\ poolMutex = NoThread /\ bufferMutex = NoThread
    /\ m_buffer = <<>>
    /\ wpc = [w \in Workers |-> "none"]
    /\ func = [w \in Workers |-> 0]
    /\ api = [t \in Threads |-> "idle"]
    /\ pushed = 0 /\ begun = {} /\ done = {}

-----------------------------------------------------------------------------
(* Calls to the pool, by a client or by the function a worker runs.        *)

Scheduling == {t \in Threads : api[t] = "schedule"}

CanCall(t, op) ==
    IF t \in Workers THEN wpc[t] = "running" /\ op \in FuncCalls
                     ELSE op \in ClientCalls

\* A call begins.  MaxTasks bounds the calls of schedule().
Call(t, op) ==
    /\ CanCall(t, op) /\ api[t] = "idle"
    /\ op = "schedule" => pushed + Cardinality(Scheduling) < MaxTasks
    /\ api' = [api EXCEPT ![t] = op]
    /\ UNCHANGED <<m_started, m_terminating, poolMutex, bufferMutex, m_buffer,
                   wpc, func, pushed, begun, done>>

\* A schedule() that notifies only when the buffer was empty (a mutant).
SchedulePushNotifyIfEmpty(t) ==
    /\ api[t] = "schedule" /\ bufferMutex = NoThread
    /\ m_buffer' = Append(m_buffer, pushed + 1)
    /\ pushed' = pushed + 1
    /\ api' = [api EXCEPT ![t] = IF m_buffer = <<>> THEN "notify" ELSE "idle"]
    /\ UNCHANGED <<m_started, m_terminating, poolMutex, bufferMutex, wpc, func,
                   begun, done>>

\* schedule(): the push, a critical section of m_bufferMutex.
SchedulePush(t) ==
    /\ api[t] = "schedule" /\ bufferMutex = NoThread
    /\ m_buffer' = Append(m_buffer, pushed + 1)
    /\ pushed' = pushed + 1
    /\ api' = [api EXCEPT ![t] = "notify"]
    /\ UNCHANGED <<m_started, m_terminating, poolMutex, bufferMutex, wpc, func,
                   begun, done>>

\* A schedule() that never notifies (a mutant).
ScheduleNoNotify(t) ==
    /\ api[t] = "notify"
    /\ api' = [api EXCEPT ![t] = "idle"]
    /\ UNCHANGED <<m_started, m_terminating, poolMutex, bufferMutex, m_buffer,
                   wpc, func, pushed, begun, done>>

\* schedule(): notify_one, after the mutex is released.  It wakes one of the
\* blocked threads, and none when there is none.
ScheduleNotify(t) ==
    /\ api[t] = "notify"
    /\ \/ \E w \in Workers : /\ wpc[w] = "waiting"
                             /\ wpc' = [wpc EXCEPT ![w] = "lock"]
       \/ (\A w \in Workers : wpc[w] # "waiting") /\ UNCHANGED wpc
    /\ api' = [api EXCEPT ![t] = "idle"]
    /\ UNCHANGED <<m_started, m_terminating, poolMutex, bufferMutex, m_buffer,
                   func, pushed, begun, done>>

\* start() returns at once on a started pool, else keeps m_threadPoolMutex.
StartLock(t) ==
    /\ api[t] = "start" /\ poolMutex = NoThread
    /\ IF m_started
         THEN api' = [api EXCEPT ![t] = "idle"] /\ UNCHANGED poolMutex
         ELSE api' = [api EXCEPT ![t] = "spawn"] /\ poolMutex' = t
    /\ UNCHANGED <<m_started, m_terminating, bufferMutex, m_buffer, wpc, func,
                   pushed, begun, done>>

\* One iteration of start()'s loop: the new thread runs from here on.
StartSpawn(t, w) ==
    /\ api[t] = "spawn" /\ wpc[w] = "none"
    /\ wpc' = [wpc EXCEPT ![w] = "lock"]
    /\ UNCHANGED <<m_started, m_terminating, poolMutex, bufferMutex, m_buffer,
                   func, api, pushed, begun, done>>

StartDone(t) ==
    /\ api[t] = "spawn" /\ m_threads = Workers
    /\ m_started' = TRUE
    /\ poolMutex' = NoThread
    /\ api' = [api EXCEPT ![t] = "idle"]
    /\ UNCHANGED <<m_terminating, bufferMutex, m_buffer, wpc, func, pushed,
                   begun, done>>

StopLock(t) ==
    /\ api[t] = "stop" /\ poolMutex = NoThread
    /\ IF m_started
         THEN api' = [api EXCEPT ![t] = "terminate"] /\ poolMutex' = t
         ELSE api' = [api EXCEPT ![t] = "idle"] /\ UNCHANGED poolMutex
    /\ UNCHANGED <<m_started, m_terminating, bufferMutex, m_buffer, wpc, func,
                   pushed, begun, done>>

\* m_terminating = true, not under m_bufferMutex.
StopTerminate(t) ==
    /\ api[t] = "terminate"
    /\ m_terminating' = TRUE
    /\ api' = [api EXCEPT ![t] = "notifyAll"]
    /\ UNCHANGED <<m_started, poolMutex, bufferMutex, m_buffer, wpc, func,
                   pushed, begun, done>>

StopNotify(t) ==
    /\ api[t] = "notifyAll"
    /\ wpc' = [w \in Workers |-> IF wpc[w] = "waiting" THEN "lock" ELSE wpc[w]]
    /\ api' = [api EXCEPT ![t] = "join"]
    /\ UNCHANGED <<m_started, m_terminating, poolMutex, bufferMutex, m_buffer,
                   func, pushed, begun, done>>

\* A stop() that purges the threads without joining them (a mutant).
StopDetach(t) ==
    /\ api[t] = "join"
    /\ m_started' = FALSE
    /\ poolMutex' = NoThread
    /\ api' = [api EXCEPT ![t] = "idle"]
    /\ UNCHANGED <<m_terminating, bufferMutex, m_buffer, wpc, func, pushed,
                   begun, done>>

\* stop(): the join loop, which ends once every thread has exited (whatever
\* the order of the joins), then the purge.  m_terminating keeps its value.
StopJoin(t) ==
    /\ api[t] = "join"
    /\ \A w \in m_threads : wpc[w] = "exited"
    /\ wpc' = [w \in Workers |-> "none"]
    /\ m_started' = FALSE
    /\ poolMutex' = NoThread
    /\ api' = [api EXCEPT ![t] = "idle"]
    /\ UNCHANGED <<m_terminating, bufferMutex, m_buffer, func, pushed, begun,
                   done>>

\* isStarted() reads the flag under m_threadPoolMutex.
IsStarted(t) ==
    /\ api[t] = "isStarted" /\ poolMutex = NoThread
    /\ api' = [api EXCEPT ![t] = "idle"]
    /\ UNCHANGED <<m_started, m_terminating, poolMutex, bufferMutex, m_buffer,
                   wpc, func, pushed, begun, done>>

-----------------------------------------------------------------------------
(* waitAndProcess, the loop of each thread of the pool.                    *)

WorkerLock(w) ==
    /\ wpc[w] = "lock" /\ bufferMutex = NoThread
    /\ bufferMutex' = w
    /\ wpc' = [wpc EXCEPT ![w] = "test"]
    /\ UNCHANGED <<m_started, m_terminating, poolMutex, m_buffer, func, api,
                   pushed, begun, done>>

\* A wait without its predicate (a mutant).
TestNothing(w) ==
    /\ wpc[w] = "test"
    /\ wpc' = [wpc EXCEPT ![w] = "decide"]
    /\ UNCHANGED <<m_started, m_terminating, poolMutex, bufferMutex, m_buffer,
                   func, api, pushed, begun, done>>

\* wait(lock, pred): the predicate, evaluated with the mutex held.
WorkerTest(w) ==
    /\ wpc[w] = "test"
    /\ wpc' = [wpc EXCEPT ![w] = IF m_buffer # <<>> \/ m_terminating
                                   THEN "decide" ELSE "block"]
    /\ UNCHANGED <<m_started, m_terminating, poolMutex, bufferMutex, m_buffer,
                   func, api, pushed, begun, done>>

\* wait(lock, pred): release the mutex and block, atomically with respect to
\* the mutex and to notifications but not to the write of m_terminating.
WorkerBlock(w) ==
    /\ wpc[w] = "block"
    /\ wpc' = [wpc EXCEPT ![w] = "waiting"]
    /\ bufferMutex' = NoThread
    /\ UNCHANGED <<m_started, m_terminating, poolMutex, m_buffer, func, api,
                   pushed, begun, done>>

\* std::condition_variable allows a blocked thread to wake up by itself.
SpuriousWakeup(w) ==
    /\ wpc[w] = "waiting"
    /\ wpc' = [wpc EXCEPT ![w] = "lock"]
    /\ UNCHANGED <<m_started, m_terminating, poolMutex, bufferMutex, m_buffer,
                   func, api, pushed, begun, done>>

\* Mutants of WorkerDecide: the last function taken instead of the first;
\* a function read but not popped.
DecideLifo(w) ==
    /\ wpc[w] = "decide"
    /\ IF m_terminating
         THEN /\ wpc' = [wpc EXCEPT ![w] = "exited"]
              /\ UNCHANGED <<m_buffer, func>>
         ELSE /\ func' = [func EXCEPT ![w] = m_buffer[Len(m_buffer)]]
              /\ m_buffer' = SubSeq(m_buffer, 1, Len(m_buffer) - 1)
              /\ wpc' = [wpc EXCEPT ![w] = "grabbed"]
    /\ bufferMutex' = NoThread
    /\ UNCHANGED <<m_started, m_terminating, poolMutex, api, pushed, begun, done>>

DecideNoPop(w) ==
    /\ wpc[w] = "decide"
    /\ IF m_terminating
         THEN wpc' = [wpc EXCEPT ![w] = "exited"] /\ UNCHANGED func
         ELSE /\ func' = [func EXCEPT ![w] = Head(m_buffer)]
              /\ wpc' = [wpc EXCEPT ![w] = "grabbed"]
    /\ bufferMutex' = NoThread
    /\ UNCHANGED <<m_started, m_terminating, poolMutex, m_buffer, api, pushed,
                   begun, done>>

\* Leave the loop if terminating, else take the front function; either way
\* the scope of the lock ends.
WorkerDecide(w) ==
    /\ wpc[w] = "decide"
    /\ IF m_terminating
         THEN /\ wpc' = [wpc EXCEPT ![w] = "exited"]
              /\ UNCHANGED <<m_buffer, func>>
         ELSE /\ func' = [func EXCEPT ![w] = Head(m_buffer)]
              /\ m_buffer' = Tail(m_buffer)
              /\ wpc' = [wpc EXCEPT ![w] = "grabbed"]
    /\ bufferMutex' = NoThread
    /\ UNCHANGED <<m_started, m_terminating, poolMutex, api, pushed, begun, done>>

\* func(): the body begins some time after the mutex was released ...
FuncBegin(w) ==
    /\ wpc[w] = "grabbed"
    /\ wpc' = [wpc EXCEPT ![w] = "running"]
    /\ begun' = begun \cup {func[w]}
    /\ UNCHANGED <<m_started, m_terminating, poolMutex, bufferMutex, m_buffer,
                   func, api, pushed, done>>

\* ... and returns once the calls it made have returned.
FuncEnd(w) ==
    /\ wpc[w] = "running" /\ api[w] = "idle"
    /\ wpc' = [wpc EXCEPT ![w] = "lock"]
    /\ done' = done \cup {func[w]}
    /\ func' = [func EXCEPT ![w] = 0]
    /\ UNCHANGED <<m_started, m_terminating, poolMutex, bufferMutex, m_buffer,
                   api, pushed, begun>>

-----------------------------------------------------------------------------
\* A step inside a call to the pool, that the thread in the call takes.
CallStep(t) ==
    \/ SchedulePush(t) \/ ScheduleNotify(t)
    \/ StartLock(t) \/ (\E w \in Workers : StartSpawn(t, w)) \/ StartDone(t)
    \/ StopLock(t) \/ StopTerminate(t) \/ StopNotify(t) \/ StopJoin(t)
    \/ IsStarted(t)

\* A step of a worker's loop.
WorkerStep(w) ==
    \/ WorkerLock(w) \/ WorkerTest(w) \/ WorkerBlock(w) \/ WorkerDecide(w)
    \/ FuncBegin(w) \/ FuncEnd(w)

Next ==
    \/ \E t \in Threads : (\E op \in Operations : Call(t, op)) \/ CallStep(t)
    \/ \E w \in Workers : WorkerStep(w) \/ SpuriousWakeup(w)

Spec == Init /\ [][Next]_vars

\* The operating system keeps running every thread that can run, a mutex that
\* is released again and again is eventually handed to each thread that waits
\* for it, and a scheduled function makes finitely many calls and returns.
\* Nothing obliges a thread to call the pool or a blocked thread to wake up
\* spuriously.
Fairness ==
    /\ \A t \in Threads : SF_vars(CallStep(t))
    /\ \A w \in Workers : SF_vars(WorkerStep(w))

FairSpec == Spec /\ Fairness

-----------------------------------------------------------------------------
(* Properties.                                                             *)

Queue == INSTANCE WorkQueue WITH Slots <- Cardinality(Workers),
                                 submitted <- pushed, finished <- done

\* The pool implements the queue of work with one slot per thread: each
\* function is executed at most once, at most |Workers| are in service, and
\* they are begun in the order they were scheduled except for overtaking
\* among the functions that the threads have already taken.
ImplementsWorkQueue == Queue!QSpec

InFlight == {w \in Workers : wpc[w] \in {"grabbed", "running"}}
Holding == {w \in Workers : wpc[w] \in {"test", "block", "decide"}}
Awake == {w \in Workers : wpc[w] \in {"lock", "test", "decide"}}
Notifiers == {t \in Threads : api[t] = "notify"}

\* Every scheduled function is at each moment in exactly one place: in the
\* buffer (once), held by exactly one thread, or finished.  schedule() and
\* waitAndProcess() neither lose a function nor run one twice, whatever the
\* interleaving of the threads and across stop() and start().
ExactlyOnePlace ==
    \A i \in Tasks :
        LET inBuffer == {k \in 1 .. Len(m_buffer) : m_buffer[k] = i}
            holders == {w \in InFlight : func[w] = i}
        IN \/ i \in done /\ inBuffer = {} /\ holders = {}
           \/ i \notin done /\ inBuffer = {} /\ \E w \in Workers : holders = {w}
           \/ i \notin done /\ holders = {} /\ \E k \in 1 .. Len(m_buffer) : inBuffer = {k}

\* First come, first served, up to the number of threads: when a function
\* has begun, every function scheduled before it has begun too or has already
\* been taken from the buffer by a thread that is about to run it.
FirstComeFirstServed ==
    \A i \in begun : \A j \in 1 .. i - 1 :
        j \in begun \/ \E w \in Workers : wpc[w] = "grabbed" /\ func[w] = j

\* schedule()'s notification is never lost: while some thread sleeps and the
\* pool is not terminating, there are at least as many threads on their way
\* to the buffer (or notifications about to be made) as functions in it.  So
\* no function waits behind a running one while a thread sleeps.
NoLostWakeup ==
    (~m_terminating /\ \E w \in Workers : wpc[w] = "waiting")
        => Len(m_buffer) <= Cardinality(Awake) + Cardinality(Notifiers)

\* After stop() has returned, and until the next start(), no thread of the
\* pool exists and no scheduled function is being executed.
StoppedIsQuiet ==
    (~m_started /\ poolMutex = NoThread)
        => m_threads = {} /\ begun = done

\* A worker takes a function only from a buffer that has one, although the
\* predicate it waited for and the flag it tests afterwards are read at
\* different moments and m_terminating is written without the mutex.
TakeIsSafe ==
    \A w \in Workers : (wpc[w] = "decide" /\ ~m_terminating) => m_buffer # <<>>

\* Work scheduled on a started pool is executed, unless stop() is called.
ScheduledIsExecuted ==
    \A i \in 1 .. MaxTasks :
        (m_started /\ i <= pushed) ~> (i \in done \/ m_terminating)

\* Every call of stop() returns: "This will wait until all threads terminate
\* their executions and properly join." (BasicThreadPool.h)
StopReturns ==
    \A c \in Clients : (api[c] = "stop") ~> (api[c] = "idle")
=============================================================================
