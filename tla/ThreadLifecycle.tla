--------------------------- MODULE ThreadLifecycle ---------------------------
(***************************************************************************)
(* cadf::thread::Thread running a Task (thread-lib), with its owner, the   *)
(* thread it starts, and the signal that stop() sends to interrupt a       *)
(* blocking call.  The task is a LoopingTask, or a one-shot task whose     *)
(* exec() runs a body once and whose scheduleStop() does nothing.          *)
(*                                                                         *)
(* The owner calls start(), stop() and isAlive() one after the other (the  *)
(* class has no lock: its users own it); all that interleaves is the       *)
(* thread itself.  m_alive is atomic.  m_quitting is a plain bool, read    *)
(* afresh before each call of the virtual execLoop().                      *)
(***************************************************************************)
EXTENDS Naturals

CONSTANT TaskKinds    \* the kinds of task to consider

\* looping: the task is a LoopingTask.  blocks: its body makes a call that
\* blocks (read and accept, in the sockets of comms-lib).
ASSUME TaskAssumption == TaskKinds \subseteq [looping : BOOLEAN, blocks : BOOLEAN]

VARIABLES
    m_task,      \* the kind of the task the Thread was created with
    m_alive, m_quitting,
    joinable,    \* m_thread.joinable(): it stands for a thread not joined
    thread,      \* where the started thread is
    signal,      \* a signal is pending for that thread
    owner        \* where the owner is

vars == <<m_task, m_alive, m_quitting, joinable, thread, signal, owner>>

ThreadStates == {"none",      \* no thread, or it was joined
                 "created",   \* before m_alive = true
                 "alive",     \* before set_value()
                 "promised",  \* before exec()
                 "loop",      \* before the test of m_quitting
                 "body",      \* in execLoop() or the body of a one-shot task
                 "blocked",   \* in a blocking call
                 "leaving",   \* exec() returned, before m_alive = false
                 "exited"}

OwnerStates == {"idle", "startJoin", "spawn", "waitForStart", "scheduleStop",
                "kill", "raise", "join", "lateJoin"}

\* exec() is being executed
InExec == thread \in {"promised", "loop", "body", "blocked", "leaving"}

TypeOK ==
    /\ m_task \in TaskKinds
    /\ m_alive \in BOOLEAN /\ m_quitting \in BOOLEAN
    /\ joinable \in BOOLEAN /\ signal \in BOOLEAN
    /\ thread \in ThreadStates /\ owner \in OwnerStates

\* The constructed Thread and task.
Init ==
    /\ m_task \in TaskKinds
    /\ m_alive = FALSE /\ m_quitting = TRUE
    /\ joinable = FALSE /\ signal = FALSE
    /\ thread = "none" /\ owner = "idle"

-----------------------------------------------------------------------------
(* The owner.                                                              *)

\* A start() that does not join what is left of a previous run (a mutant).
StartNoJoin ==
    /\ owner = "idle" /\ ~m_alive
    /\ owner' = "spawn"
    /\ UNCHANGED <<m_task, m_alive, m_quitting, joinable, thread, signal>>

\* start() throws on a running thread, and joins one that has finished.
Start ==
    /\ owner = "idle" /\ ~m_alive
    /\ owner' = IF joinable THEN "startJoin" ELSE "spawn"
    /\ UNCHANGED <<m_task, m_alive, m_quitting, joinable, thread, signal>>

\* A start() that does not wait for the thread (a mutant).
SpawnNoWait ==
    /\ owner = "spawn"
    /\ thread' = "created" /\ joinable' = TRUE
    /\ owner' = "idle"
    /\ UNCHANGED <<m_task, m_alive, m_quitting, signal>>

Spawn ==
    /\ owner = "spawn"
    /\ thread' = "created" /\ joinable' = TRUE
    /\ owner' = "waitForStart"
    /\ UNCHANGED <<m_task, m_alive, m_quitting, signal>>

\* waitForStart.get(): the promise is kept once set_value() was called.
WaitForStart ==
    /\ owner = "waitForStart" /\ thread \notin {"created", "alive"}
    /\ owner' = "idle"
    /\ UNCHANGED <<m_task, m_alive, m_quitting, joinable, thread, signal>>

\* stop() of a thread that has finished only joins it; of one that was never
\* started or already joined it does nothing.
Stop ==
    /\ owner = "idle"
    /\ \/ m_alive /\ owner' = "scheduleStop"
       \/ ~m_alive /\ joinable /\ owner' = "lateJoin"
    /\ UNCHANGED <<m_task, m_alive, m_quitting, joinable, thread, signal>>

\* m_task->scheduleStop(), which a one-shot task leaves empty.
ScheduleStop ==
    /\ owner = "scheduleStop"
    /\ m_quitting' = IF m_task.looping THEN TRUE ELSE m_quitting
    /\ owner' = "kill"
    /\ UNCHANGED <<m_task, m_alive, joinable, thread, signal>>

\* pthread_kill on the thread; a thread that has exited gets no signal.
Kill ==
    /\ owner = "kill"
    /\ signal' = (thread # "exited")
    /\ owner' = "raise"
    /\ UNCHANGED <<m_task, m_alive, m_quitting, joinable, thread>>

\* std::raise runs the empty handler in the calling thread.
Raise ==
    /\ owner = "raise"
    /\ owner' = "join"
    /\ UNCHANGED <<m_task, m_alive, m_quitting, joinable, thread, signal>>

\* m_thread.join(), in stop() or in start()
Join ==
    /\ owner \in {"join", "lateJoin", "startJoin"} /\ thread = "exited"
    /\ joinable' = FALSE /\ thread' = "none" /\ signal' = FALSE
    /\ owner' = IF owner = "startJoin" THEN "spawn" ELSE "idle"
    /\ UNCHANGED <<m_task, m_alive, m_quitting>>

-----------------------------------------------------------------------------
(* The thread.                                                             *)

BecomeAlive ==
    /\ thread = "created"
    /\ m_alive' = TRUE /\ thread' = "alive"
    /\ UNCHANGED <<m_task, m_quitting, joinable, signal, owner>>

SetPromise ==
    /\ thread = "alive" /\ thread' = "promised"
    /\ UNCHANGED <<m_task, m_alive, m_quitting, joinable, signal, owner>>

\* exec() is entered: LoopingTask::exec() clears m_quitting, whatever its value.
EnterExec ==
    /\ thread = "promised"
    /\ IF m_task.looping THEN m_quitting' = FALSE /\ thread' = "loop"
                  ELSE thread' = "body" /\ UNCHANGED m_quitting
    /\ UNCHANGED <<m_task, m_alive, joinable, signal, owner>>

\* A loop that forgets its condition (a mutant).
LoopForever ==
    /\ thread = "loop"
    /\ thread' = "body"
    /\ UNCHANGED <<m_task, m_alive, m_quitting, joinable, signal, owner>>

LoopTest ==
    /\ thread = "loop"
    /\ thread' = IF m_quitting THEN "leaving" ELSE "body"
    /\ UNCHANGED <<m_task, m_alive, m_quitting, joinable, signal, owner>>

\* The body enters its blocking call ...
BodyBlocks ==
    /\ thread = "body" /\ m_task.blocks
    /\ thread' = "blocked"
    /\ UNCHANGED <<m_task, m_alive, m_quitting, joinable, signal, owner>>

\* ... which an event (data, a connection) ends, or a signal that is pending.
Unblock(interrupted) ==
    /\ thread = "blocked"
    /\ interrupted => signal
    /\ signal' = (signal /\ ~interrupted)
    /\ thread' = IF m_task.looping THEN "loop" ELSE "leaving"
    /\ UNCHANGED <<m_task, m_alive, m_quitting, joinable, owner>>

BodyReturns ==
    /\ thread = "body" /\ ~m_task.blocks
    /\ thread' = IF m_task.looping THEN "loop" ELSE "leaving"
    /\ UNCHANGED <<m_task, m_alive, m_quitting, joinable, signal, owner>>

\* A signal that arrives while the thread is not blocked runs processSignal,
\* which does nothing, and leaves no trace.
HandleSignal ==
    /\ signal /\ thread \notin {"none", "blocked", "exited"}
    /\ signal' = FALSE
    /\ UNCHANGED <<m_task, m_alive, m_quitting, joinable, thread, owner>>

Leave ==
    /\ thread = "leaving"
    /\ m_alive' = FALSE /\ thread' = "exited" /\ signal' = FALSE
    /\ UNCHANGED <<m_task, m_quitting, joinable, owner>>

-----------------------------------------------------------------------------
OwnerCalls == Start \/ Stop
OwnerStep == Spawn \/ WaitForStart \/ ScheduleStop \/ Kill \/ Raise \/ Join

\* What the thread does by itself: all but being woken by an event.
ThreadStep ==
    \/ BecomeAlive \/ SetPromise \/ EnterExec \/ LoopTest \/ BodyBlocks
    \/ BodyReturns \/ Leave \/ Unblock(TRUE)

Next == OwnerCalls \/ OwnerStep \/ ThreadStep \/ HandleSignal \/ Unblock(FALSE)

Spec == Init /\ [][Next]_vars

\* Both threads run whenever they can.  No event need ever occur: a peer may
\* stay silent, and the owner need not call anything.
FairSpec == Spec /\ WF_vars(OwnerStep) /\ WF_vars(ThreadStep)

-----------------------------------------------------------------------------
(* Properties.                                                             *)

\* Between two calls, isAlive() tells the owner the truth: start() returns
\* only after the thread announced itself, so that a thread the owner
\* believes dead has left exec(), and one believed alive has not been joined.
AliveIsAccurate ==
    /\ owner = "idle" => (m_alive <=> InExec)
    /\ (owner = "idle" /\ joinable /\ ~m_alive) => thread = "exited"

\* start() never assigns to an m_thread that still stands for a thread
\* (std::thread's assignment would end the program), even when the previous
\* run finished by itself and was never stopped.
NeverOverwritten == owner = "spawn" => (~joinable /\ thread = "none")

\* When stop() returns, the thread is gone: it executes nothing any more and
\* has been joined, whether or not it had already finished by itself.
StopMeansGone ==
    [][(owner \in {"join", "lateJoin"} /\ owner' = "idle")
          => (thread' = "none" /\ ~joinable' /\ ~m_alive')]_vars

\* The request to stop is pending: EnterExec did not overwrite it.
Requested == m_task.looping => m_quitting

\* stop() ends a task that has been told to stop, unless the task is just
\* between its last test of m_quitting and its blocking call: a thread that is
\* blocked when the signal is sent is woken, one about to test m_quitting sees
\* it, and a body that does not block reaches the test.
StopEndsTask ==
    (owner = "kill" /\ Requested
        /\ (thread \in {"loop", "blocked", "leaving", "exited"}
              \/ (thread = "body" /\ ~m_task.blocks)))
        ~> (owner = "idle")

\* The expectation on stop(): scheduleStop() together with the signal "should
\* be sufficient to allow for a clean termination of a thread".
StopReturns == (owner = "scheduleStop") ~> (owner = "idle")
=============================================================================
