----------------------- MODULE ThreadLifecycleProofs -----------------------
(* Proofs about ThreadLifecycle, for every kind of task.                   *)
EXTENDS ThreadLifecycle, TLAPS

\* What the owner may rely on at each point of its calls: the std::thread is
\* joinable exactly while a thread exists, m_alive is up to date from the
\* moment the promise is kept, and after an early return or a join there is
\* no thread to overwrite.
OwnerInv ==
    /\ TypeOK
    /\ joinable <=> thread # "none"
    /\ m_alive <=> (thread \in {"alive", "promised", "loop", "body", "blocked", "leaving"})
    /\ owner = "spawn" => thread = "none"
    /\ owner # "waitForStart" => thread \notin {"created", "alive"}
    /\ owner \in {"startJoin", "lateJoin"} => thread = "exited"
    /\ owner \in {"scheduleStop", "kill", "raise", "join", "waitForStart"} => thread # "none"

\* A constructed Thread satisfies the invariant.
LEMMA OwnerInit == Init => OwnerInv
  BY TaskAssumption DEF Init, OwnerInv, TypeOK, ThreadStates, OwnerStates

\* Every step of the owner, of the thread or of the signal preserves it.
LEMMA OwnerNext == OwnerInv /\ [Next]_vars => OwnerInv'
<1> SUFFICES ASSUME OwnerInv, [Next]_vars PROVE OwnerInv'
  OBVIOUS
<1> USE TaskAssumption DEF OwnerInv, TypeOK, ThreadStates, OwnerStates
<1>1. CASE Start
  BY <1>1 DEF Start
<1>2. CASE Stop
  BY <1>2 DEF Stop
<1>3. CASE Spawn
  BY <1>3 DEF Spawn
<1>4. CASE WaitForStart
  BY <1>4 DEF WaitForStart
<1>5. CASE ScheduleStop
  BY <1>5 DEF ScheduleStop
<1>6. CASE Kill
  BY <1>6 DEF Kill
<1>7. CASE Raise
  BY <1>7 DEF Raise
<1>8. CASE Join
  BY <1>8 DEF Join
<1>9. CASE BecomeAlive
  BY <1>9 DEF BecomeAlive
<1>10. CASE SetPromise
  BY <1>10 DEF SetPromise
<1>11. CASE EnterExec
  BY <1>11 DEF EnterExec
<1>12. CASE LoopTest
  BY <1>12 DEF LoopTest
<1>13. CASE BodyBlocks
  BY <1>13 DEF BodyBlocks
<1>14. CASE BodyReturns
  BY <1>14 DEF BodyReturns
<1>15. CASE Leave
  BY <1>15 DEF Leave
<1>16. CASE HandleSignal
  BY <1>16 DEF HandleSignal
<1>17. CASE Unblock(TRUE) \/ Unblock(FALSE)
  BY <1>17 DEF Unblock
<1>18. CASE UNCHANGED vars
  BY <1>18 DEF vars
<1> QED
  BY <1>1, <1>2, <1>3, <1>4, <1>5, <1>6, <1>7, <1>8, <1>9, <1>10, <1>11, <1>12, <1>13, <1>14, <1>15, <1>16, <1>17, <1>18
  DEF Next, OwnerCalls, OwnerStep, ThreadStep

\* The invariant that relates the owner's place in start() and stop() to the
\* state of the thread holds in every reachable state.
THEOREM OwnerAlways == Spec => []OwnerInv
  BY OwnerInit, OwnerNext, PTL DEF Spec

\* The type invariant of Thread and Task.
THEOREM TypeCorrect == Spec => []TypeOK
  BY OwnerAlways, PTL DEF OwnerInv

\* isAlive() tells the owner the truth between two calls, for any task.
THEOREM AliveAlwaysAccurate == Spec => []AliveIsAccurate
<1>1. OwnerInv => AliveIsAccurate
  BY DEF OwnerInv, TypeOK, ThreadStates, AliveIsAccurate, InExec
<1> QED
  BY <1>1, OwnerAlways, PTL

\* start() never overwrites a std::thread that still stands for a thread.
THEOREM NeverOverwrites == Spec => []NeverOverwritten
<1>1. OwnerInv => NeverOverwritten
  BY DEF OwnerInv, NeverOverwritten
<1> QED
  BY <1>1, OwnerAlways, PTL

\* stop() returns only when the thread is gone.
THEOREM StopLeavesNothing == Spec => StopMeansGone
<1>1. OwnerInv /\ [Next]_vars =>
        [(owner \in {"join", "lateJoin"} /\ owner' = "idle")
            => (thread' = "none" /\ ~joinable' /\ ~m_alive')]_vars
  <2> SUFFICES ASSUME OwnerInv, [Next]_vars, owner \in {"join", "lateJoin"}, owner' = "idle"
               PROVE  thread' = "none" /\ ~joinable' /\ ~m_alive'
    BY DEF vars
  <2>1. Join
    BY DEF Next, vars, OwnerCalls, OwnerStep, ThreadStep, HandleSignal, Start, Stop, Spawn,
           WaitForStart, ScheduleStop, Kill, Raise, BecomeAlive, SetPromise, EnterExec,
           LoopTest, BodyBlocks, BodyReturns, Leave, Unblock
  <2> QED
    BY <2>1 DEF Join, OwnerInv, TypeOK
<1> QED
  BY <1>1, OwnerAlways, PTL DEF Spec, StopMeansGone
=============================================================================
