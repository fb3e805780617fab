-------------------------- MODULE ThreadPoolProofs --------------------------
(***************************************************************************)
(* Proofs about ThreadPool, for any finite number of workers and clients,  *)
(* any set of calls and any number of scheduled functions.  The invariants *)
(* are proved in layers: each layer is inductive given the ones before it. *)
(***************************************************************************)
EXTENDS ThreadPool, FiniteSetTheorems, SequenceTheorems, TLAPS

\* A worker holds m_bufferMutex exactly from its acquisition to the end of
\* the scope; a thread holds m_threadPoolMutex exactly inside the part of
\* start() and stop() that follows their early return.
LockInv ==
    /\ \A w \in Workers : (bufferMutex = w) <=> (wpc[w] \in {"test", "block", "decide"})
    /\ \A t \in Threads : (poolMutex = t) <=>
          (api[t] \in {"spawn", "terminate", "notifyAll", "join"})
    /\ \A w \in Workers : api[w] # "idle" => wpc[w] = "running"
    /\ \A w \in Workers : (func[w] # 0) <=> (wpc[w] \in {"grabbed", "running"})

\* The buffer holds the most recently scheduled functions, in order, and
\* what a worker found out about it stays true while it holds the mutex.
BufferInv ==
    /\ Len(m_buffer) <= pushed
    /\ \A k \in 1 .. Len(m_buffer) : m_buffer[k] = pushed - Len(m_buffer) + k
    /\ \A w \in Workers : wpc[w] = "block" => m_buffer = <<>>
    /\ TakeIsSafe

-----------------------------------------------------------------------------
(* Types.                                                                  *)

\* The constructed pool has the right type.
LEMMA TypeInit == Init => TypeOK
<1> SUFFICES ASSUME Init PROVE TypeOK
  OBVIOUS
<1>1. m_buffer \in Seq(Tasks)
  BY DEF Init
<1>2. wpc \in [Workers -> WorkerStates] /\ api \in [Threads -> CallStates]
  BY DEF Init, WorkerStates, CallStates
<1> QED
  BY <1>1, <1>2 DEF Init, TypeOK

\* Beginning a call to the pool preserves the type invariant.
LEMMA TypeCall ==
    ASSUME TypeOK, NEW t \in Threads, NEW op \in Operations, Call(t, op)
    PROVE  TypeOK'
  BY DEF TypeOK, Call, Operations, Tasks, CallStates, Threads

\* So does every step inside start(), stop(), isStarted() and schedule().
LEMMA TypeCallStep ==
    ASSUME TypeOK, NEW t \in Threads, CallStep(t)
    PROVE  TypeOK'
<1> USE DEF Threads
<1>1. CASE SchedulePush(t)
  <2>1. Tasks \subseteq Tasks'
    BY <1>1 DEF SchedulePush, Tasks, TypeOK
  <2>2. pushed + 1 \in Tasks'
    BY <1>1 DEF SchedulePush, Tasks, TypeOK
  <2>3. m_buffer \in Seq(Tasks')
    BY <2>1 DEF TypeOK
  <2>4. Append(m_buffer, pushed + 1) \in Seq(Tasks')
    BY <2>2, <2>3, AppendProperties
  <2> QED
    BY <1>1, <2>1, <2>4 DEF SchedulePush, TypeOK, CallStates
<1>2. CASE ScheduleNotify(t)
  BY <1>2 DEF ScheduleNotify, TypeOK, Tasks, CallStates, WorkerStates
<1>3. CASE StartLock(t)
  BY <1>3 DEF StartLock, TypeOK, Tasks, CallStates
<1>4. CASE \E w \in Workers : StartSpawn(t, w)
  BY <1>4 DEF StartSpawn, TypeOK, Tasks, WorkerStates
<1>5. CASE StartDone(t)
  BY <1>5 DEF StartDone, TypeOK, Tasks, CallStates
<1>6. CASE StopLock(t)
  BY <1>6 DEF StopLock, TypeOK, Tasks, CallStates
<1>7. CASE StopTerminate(t)
  BY <1>7 DEF StopTerminate, TypeOK, Tasks, CallStates
<1>8. CASE StopNotify(t)
  BY <1>8 DEF StopNotify, TypeOK, Tasks, CallStates, WorkerStates
<1>9. CASE StopJoin(t)
  BY <1>9 DEF StopJoin, TypeOK, Tasks, CallStates, WorkerStates
<1>10. CASE IsStarted(t)
  BY <1>10 DEF IsStarted, TypeOK, Tasks, CallStates
<1> QED
  BY <1>1, <1>2, <1>3, <1>4, <1>5, <1>6, <1>7, <1>8, <1>9, <1>10 DEF CallStep

\* Taking the front of the buffer is well typed because the buffer is not
\* empty when a worker takes from it (TakeIsSafe): typing is not inductive
\* without that.
LEMMA TypeWorkerStep ==
    ASSUME TypeOK, LockInv, TakeIsSafe, NEW w \in Workers, WorkerStep(w) \/ SpuriousWakeup(w)
    PROVE  TypeOK'
<1> USE DEF Threads
<1>1. CASE WorkerLock(w)
  BY <1>1 DEF WorkerLock, TypeOK, Tasks, WorkerStates
<1>2. CASE WorkerTest(w)
  BY <1>2 DEF WorkerTest, TypeOK, Tasks, WorkerStates
<1>3. CASE WorkerBlock(w)
  BY <1>3 DEF WorkerBlock, TypeOK, Tasks, WorkerStates
<1>4. CASE WorkerDecide(w)
  <2>1. CASE m_terminating
    BY <1>4, <2>1 DEF WorkerDecide, TypeOK, Tasks, WorkerStates
  <2>2. CASE ~m_terminating
    <3>1. m_buffer # <<>>
      BY <1>4, <2>2 DEF WorkerDecide, TakeIsSafe
    <3>2. Head(m_buffer) \in Tasks /\ Tail(m_buffer) \in Seq(Tasks)
      BY <3>1, HeadTailProperties DEF TypeOK
    <3> QED
      BY <1>4, <2>2, <3>2 DEF WorkerDecide, TypeOK, Tasks, WorkerStates
  <2> QED
    BY <2>1, <2>2
<1>5. CASE FuncBegin(w) \/ FuncEnd(w)
  <2>1. func[w] \in Tasks
    BY <1>5 DEF FuncBegin, FuncEnd, TypeOK, LockInv
  <2> QED
    BY <1>5, <2>1 DEF FuncBegin, FuncEnd, TypeOK, Tasks, WorkerStates
<1>6. CASE SpuriousWakeup(w)
  BY <1>6 DEF SpuriousWakeup, TypeOK, Tasks, WorkerStates
<1> QED
  BY <1>1, <1>2, <1>3, <1>4, <1>5, <1>6 DEF WorkerStep

-----------------------------------------------------------------------------
(* Who holds the mutexes.                                                  *)

\* In the constructed pool both mutexes are free.
LEMMA LockInit == Init => LockInv
  BY ThreadsAssumption, NoThreadAssumption DEF Init, LockInv, Threads

\* Beginning a call takes no mutex.
LEMMA LockCall ==
    ASSUME TypeOK, LockInv, NEW t \in Threads, NEW op \in Operations, Call(t, op)
    PROVE  LockInv'
  BY ThreadsAssumption, NoThreadAssumption
  DEF TypeOK, LockInv, Call, CanCall, Operations, Threads

\* The steps of calls keep the mutexes' owners accurate.
LEMMA LockCallStep ==
    ASSUME TypeOK, LockInv, NEW t \in Threads, CallStep(t)
    PROVE  LockInv'
<1> USE ThreadsAssumption, NoThreadAssumption DEF TypeOK, LockInv, Threads
<1>1. CASE SchedulePush(t)
  BY <1>1 DEF SchedulePush
<1>2. CASE ScheduleNotify(t)
  BY <1>2 DEF ScheduleNotify
<1>3. CASE StartLock(t)
  BY <1>3 DEF StartLock
<1>4. CASE \E w \in Workers : StartSpawn(t, w)
  BY <1>4 DEF StartSpawn
<1>5. CASE StartDone(t)
  BY <1>5 DEF StartDone
<1>6. CASE StopLock(t)
  BY <1>6 DEF StopLock
<1>7. CASE StopTerminate(t)
  BY <1>7 DEF StopTerminate
<1>8. CASE StopNotify(t)
  BY <1>8 DEF StopNotify
<1>9. CASE StopJoin(t)
  BY <1>9 DEF StopJoin, m_threads
<1>10. CASE IsStarted(t)
  BY <1>10 DEF IsStarted
<1> QED
  BY <1>1, <1>2, <1>3, <1>4, <1>5, <1>6, <1>7, <1>8, <1>9, <1>10 DEF CallStep

\* The steps of waitAndProcess() keep the mutexes' owners accurate.
LEMMA LockWorkerStep ==
    ASSUME TypeOK, LockInv, TakeIsSafe, NEW w \in Workers,
           WorkerStep(w) \/ SpuriousWakeup(w)
    PROVE  LockInv'
<1> USE ThreadsAssumption, NoThreadAssumption DEF TypeOK, LockInv, Threads
<1>1. CASE WorkerLock(w)
  BY <1>1 DEF WorkerLock
<1>2. CASE WorkerTest(w)
  BY <1>2 DEF WorkerTest
<1>3. CASE WorkerBlock(w)
  BY <1>3 DEF WorkerBlock
<1>4. CASE WorkerDecide(w)
  <2>1. CASE m_terminating
    BY <1>4, <2>1 DEF WorkerDecide
  <2>2. CASE ~m_terminating
    <3>1. Head(m_buffer) \in Tasks
      BY <1>4, <2>2, HeadTailProperties DEF WorkerDecide, TakeIsSafe
    <3>2. Head(m_buffer) # 0
      BY <3>1 DEF Tasks
    <3> QED
      BY <1>4, <2>2, <3>1, <3>2 DEF WorkerDecide
  <2> QED
    BY <2>1, <2>2
<1>5. CASE FuncBegin(w)
  BY <1>5 DEF FuncBegin
<1>6. CASE FuncEnd(w)
  BY <1>6 DEF FuncEnd
<1>7. CASE SpuriousWakeup(w)
  BY <1>7 DEF SpuriousWakeup
<1> QED
  BY <1>1, <1>2, <1>3, <1>4, <1>5, <1>6, <1>7 DEF WorkerStep

-----------------------------------------------------------------------------
(* What is in the buffer.                                                  *)

\* The buffer of the constructed pool is empty.
LEMMA BufferInit == Init => BufferInv
  BY DEF Init, BufferInv, TakeIsSafe

\* Actions that leave the buffer alone and neither begin to block nor to
\* decide keep BufferInv.
LEMMA BufferKept ==
    ASSUME BufferInv, UNCHANGED <<m_buffer, pushed>>,
           m_terminating => m_terminating',
           \A w \in Workers : wpc'[w] \in {"block", "decide"} => wpc'[w] = wpc[w]
    PROVE  BufferInv'
  BY DEF BufferInv, TakeIsSafe

\* Beginning a call leaves the buffer alone.
LEMMA BufferCall ==
    ASSUME TypeOK, BufferInv, NEW t \in Threads, NEW op \in Operations, Call(t, op)
    PROVE  BufferInv'
  BY BufferKept DEF Call

\* schedule() pushes the next number; no other call touches the buffer.
LEMMA BufferCallStep ==
    ASSUME TypeOK, LockInv, BufferInv, NEW t \in Threads, CallStep(t)
    PROVE  BufferInv'
<1> USE DEF TypeOK
<1>1. CASE SchedulePush(t)
  <2>1. /\ Len(m_buffer') = Len(m_buffer) + 1
        /\ \A k \in 1 .. Len(m_buffer) : m_buffer'[k] = m_buffer[k]
        /\ m_buffer'[Len(m_buffer) + 1] = pushed + 1
    BY <1>1, AppendProperties DEF SchedulePush
  <2>2. \A w \in Workers : wpc[w] \notin {"block", "decide"}
    BY <1>1, NoThreadAssumption DEF SchedulePush, LockInv
  <2>3. Len(m_buffer) \in Nat
    BY LenProperties
  <2>4. m_buffer'[Len(m_buffer')] = pushed'
    BY <1>1, <2>1 DEF SchedulePush
  <2>5. \A k \in 1 .. Len(m_buffer') : m_buffer'[k] = pushed' - Len(m_buffer') + k
    <3> SUFFICES ASSUME NEW k \in 1 .. Len(m_buffer')
                 PROVE  m_buffer'[k] = pushed' - Len(m_buffer') + k
      OBVIOUS
    <3>1. CASE k \in 1 .. Len(m_buffer)
      <4>1. m_buffer'[k] = pushed - Len(m_buffer) + k
        BY <2>1, <3>1 DEF BufferInv
      <4>2. pushed' = pushed + 1
        BY <1>1 DEF SchedulePush
      <4> HIDE DEF TypeOK
      <4>3. pushed \in Nat
        BY DEF TypeOK
      <4> QED
        BY <2>1, <2>3, <4>1, <4>2, <4>3
    <3>2. CASE k = Len(m_buffer')
      BY <1>1, <2>1, <2>3, <2>4, <3>2 DEF SchedulePush
    <3> QED
      BY <2>1, <2>3, <3>1, <3>2
  <2> QED
    BY <1>1, <2>1, <2>2, <2>3, <2>5 DEF SchedulePush, BufferInv, TakeIsSafe
<1>2. CASE ScheduleNotify(t)
  BY <1>2, BufferKept DEF ScheduleNotify
<1>3. CASE StartLock(t)
  BY <1>3, BufferKept DEF StartLock
<1>4. CASE \E w \in Workers : StartSpawn(t, w)
  BY <1>4, BufferKept DEF StartSpawn
<1>5. CASE StartDone(t)
  BY <1>5, BufferKept DEF StartDone
<1>6. CASE StopLock(t)
  BY <1>6, BufferKept DEF StopLock
<1>7. CASE StopTerminate(t)
  BY <1>7, BufferKept DEF StopTerminate
<1>8. CASE StopNotify(t)
  BY <1>8, BufferKept DEF StopNotify
<1>9. CASE StopJoin(t)
  BY <1>9, BufferKept DEF StopJoin
<1>10. CASE IsStarted(t)
  BY <1>10, BufferKept DEF IsStarted
<1> QED
  BY <1>1, <1>2, <1>3, <1>4, <1>5, <1>6, <1>7, <1>8, <1>9, <1>10 DEF CallStep

\* A worker takes only from a buffer that has something.
LEMMA BufferWorkerStep ==
    ASSUME TypeOK, LockInv, BufferInv, NEW w \in Workers,
           WorkerStep(w) \/ SpuriousWakeup(w)
    PROVE  BufferInv'
<1> USE DEF TypeOK
<1>1. CASE WorkerLock(w)
  BY <1>1, BufferKept DEF WorkerLock
<1>2. CASE WorkerTest(w)
  BY <1>2 DEF WorkerTest, BufferInv, TakeIsSafe
<1>3. CASE WorkerBlock(w)
  BY <1>3, BufferKept DEF WorkerBlock
<1>4. CASE WorkerDecide(w)
  <2>1. CASE m_terminating
    BY <1>4, <2>1, BufferKept DEF WorkerDecide
  <2>2. CASE ~m_terminating
    <3>1. m_buffer # <<>> /\ m_buffer' = Tail(m_buffer)
      BY <1>4, <2>2 DEF WorkerDecide, BufferInv, TakeIsSafe
    <3>2. /\ Len(m_buffer) \in Nat /\ Len(m_buffer') = Len(m_buffer) - 1
          /\ \A k \in 1 .. Len(m_buffer') : m_buffer'[k] = m_buffer[k + 1]
      BY <3>1, HeadTailProperties, LenProperties
    <3>3. \A v \in Workers : wpc'[v] \notin {"block", "decide"}
      BY <1>4, <2>2 DEF WorkerDecide, LockInv
    <3> QED
      BY <1>4, <2>2, <3>1, <3>2, <3>3 DEF WorkerDecide, BufferInv, TakeIsSafe
  <2> QED
    BY <2>1, <2>2
<1>5. CASE FuncBegin(w)
  BY <1>5, BufferKept DEF FuncBegin
<1>6. CASE FuncEnd(w)
  BY <1>6, BufferKept DEF FuncEnd
<1>7. CASE SpuriousWakeup(w)
  BY <1>7, BufferKept DEF SpuriousWakeup
<1> QED
  BY <1>1, <1>2, <1>3, <1>4, <1>5, <1>6, <1>7 DEF WorkerStep

-----------------------------------------------------------------------------
\* The first layer: types, mutexes and buffer together.
Inv1 == TypeOK /\ LockInv /\ BufferInv

\* Every step preserves the first layer of the invariant.
LEMMA Inv1Next == Inv1 /\ [Next]_vars => Inv1'
<1> SUFFICES ASSUME Inv1, [Next]_vars PROVE Inv1'
  OBVIOUS
<1> USE DEF Inv1
<1>1. ASSUME NEW t \in Threads, NEW op \in Operations, Call(t, op) PROVE Inv1'
  BY <1>1, TypeCall, LockCall, BufferCall
<1>2. ASSUME NEW t \in Threads, CallStep(t) PROVE Inv1'
  BY <1>2, TypeCallStep, LockCallStep, BufferCallStep
<1>3. ASSUME NEW w \in Workers, WorkerStep(w) \/ SpuriousWakeup(w) PROVE Inv1'
  BY <1>3, TypeWorkerStep, LockWorkerStep, BufferWorkerStep DEF BufferInv
<1>4. CASE UNCHANGED vars
  BY <1>4 DEF vars, TypeOK, Tasks, LockInv, BufferInv, TakeIsSafe
<1> QED
  BY <1>1, <1>2, <1>3, <1>4 DEF Next

\* Types, the ownership of the mutexes and the contents of the buffer are as
\* described by Inv1 in every reachable state of the pool.
THEOREM Inv1Always == Spec => []Inv1
<1>1. Init => Inv1
  BY TypeInit, LockInit, BufferInit DEF Inv1
<1> QED
  BY <1>1, Inv1Next, PTL DEF Spec

\* Type correctness of the pool's state.
THEOREM TypeCorrect == Spec => []TypeOK
<1>1. Inv1 => TypeOK
  BY DEF Inv1
<1> QED
  BY <1>1, Inv1Always, PTL

\* waitAndProcess() never takes a function from an empty buffer, although
\* stop() writes m_terminating at any moment.
THEOREM TakeAlwaysSafe == Spec => []TakeIsSafe
<1>1. Inv1 => TakeIsSafe
  BY DEF Inv1, BufferInv
<1> QED
  BY <1>1, Inv1Always, PTL

-----------------------------------------------------------------------------
(* Where each function is.                                                 *)

\* The functions that have left the buffer: numbers 1 .. Taken.
Taken == pushed - Len(m_buffer)

\* Each function that has left the buffer is finished or held by one worker,
\* and the functions that began are those finished or being run.
PlaceInv ==
    /\ \A i \in 1 .. Taken : i \in done \/ \E w \in InFlight : func[w] = i
    /\ \A w \in InFlight : func[w] \in 1 .. Taken /\ func[w] \notin done
    /\ \A v, w \in InFlight : func[v] = func[w] => v = w
    /\ done \subseteq 1 .. Taken
    /\ \A i \in 1 .. Taken :
          i \in begun <=> (i \in done \/ \E w \in Workers : wpc[w] = "running" /\ func[w] = i)
    /\ begun \subseteq 1 .. Taken

\* Actions that change neither the buffer nor what the workers hold.
LEMMA PlaceKept ==
    ASSUME PlaceInv, UNCHANGED <<m_buffer, pushed, func, begun, done>>,
           \A w \in Workers : \A s \in {"grabbed", "running"} : wpc'[w] = s <=> wpc[w] = s
    PROVE  PlaceInv'
<1>1. InFlight' = InFlight /\ Taken' = Taken
  BY DEF InFlight, Taken
<1>2. \A w \in Workers : wpc'[w] = "running" <=> wpc[w] = "running"
  OBVIOUS
<1> QED
  BY <1>1, <1>2 DEF PlaceInv

\* Calls to the pool move no function but for schedule(), which adds one.
LEMMA PlaceCallStep ==
    ASSUME Inv1, PlaceInv, NEW t \in Threads, CallStep(t)
    PROVE  PlaceInv'
<1> USE DEF Inv1, TypeOK
<1>1. CASE SchedulePush(t)
  <2>1. Taken' = Taken
    BY <1>1, AppendProperties, LenProperties DEF SchedulePush, Taken
  <2>2. InFlight' = InFlight
    BY <1>1 DEF SchedulePush, InFlight
  <2>3. UNCHANGED <<wpc, func, begun, done>>
    BY <1>1 DEF SchedulePush
  <2> QED
    BY <2>1, <2>2, <2>3 DEF PlaceInv
<1>2. CASE ScheduleNotify(t)
  BY <1>2, PlaceKept DEF ScheduleNotify
<1>3. CASE StartLock(t)
  BY <1>3, PlaceKept DEF StartLock
<1>4. CASE \E w \in Workers : StartSpawn(t, w)
  BY <1>4, PlaceKept DEF StartSpawn
<1>5. CASE StartDone(t)
  BY <1>5, PlaceKept DEF StartDone
<1>6. CASE StopLock(t)
  BY <1>6, PlaceKept DEF StopLock
<1>7. CASE StopTerminate(t)
  BY <1>7, PlaceKept DEF StopTerminate
<1>8. CASE StopNotify(t)
  BY <1>8, PlaceKept DEF StopNotify
<1>9. CASE StopJoin(t)
  BY <1>9, PlaceKept DEF StopJoin, m_threads
<1>10. CASE IsStarted(t)
  BY <1>10, PlaceKept DEF IsStarted
<1> QED
  BY <1>1, <1>2, <1>3, <1>4, <1>5, <1>6, <1>7, <1>8, <1>9, <1>10 DEF CallStep

\* waitAndProcess() moves the first function of the buffer to one thread.
LEMMA PlaceDecide ==
    ASSUME Inv1, PlaceInv, NEW w \in Workers, WorkerDecide(w)
    PROVE  PlaceInv'
<1> USE DEF Inv1, TypeOK
<1>1. CASE m_terminating
  BY <1>1, PlaceKept DEF WorkerDecide
<1>2. CASE ~m_terminating
  <2>1. m_buffer # <<>>
    BY <1>2 DEF WorkerDecide, BufferInv, TakeIsSafe
  <2>2. /\ Len(m_buffer) \in Nat \ {0} /\ Len(m_buffer') = Len(m_buffer) - 1
        /\ Head(m_buffer) = m_buffer[1]
    BY <1>2, <2>1, HeadTailProperties, LenProperties, EmptySeq DEF WorkerDecide
  <2>3. Taken \in Nat /\ Taken' = Taken + 1 /\ Head(m_buffer) = Taken + 1
    <3>1. m_buffer[1] = pushed - Len(m_buffer) + 1 /\ Len(m_buffer) <= pushed
      BY <2>2 DEF BufferInv
    <3>2. pushed' = pushed /\ pushed \in Nat
      BY <1>2 DEF WorkerDecide
    <3> QED
      BY <2>2, <3>1, <3>2 DEF Taken
  <2>4. /\ w \notin InFlight /\ InFlight' = InFlight \cup {w}
        /\ \A v \in Workers : wpc'[v] = "running" <=> wpc[v] = "running"
    BY <1>2 DEF WorkerDecide, InFlight
  <2>5. /\ func'[w] = Taken' /\ \A v \in Workers \ {w} : func'[v] = func[v]
        /\ begun' = begun /\ done' = done
    BY <1>2, <2>3 DEF WorkerDecide
  <2>6. InFlight \subseteq Workers /\ wpc'[w] # "running"
    BY <1>2 DEF InFlight, WorkerDecide
  <2>7. \A i \in 1 .. Taken' : i \in 1 .. Taken \/ i = Taken'
    BY <2>3
  <2>8. \A i \in 1 .. Taken : i # Taken' /\ i \in 1 .. Taken'
    BY <2>3
  <2>9. Taken' \notin begun /\ Taken' \notin done
    BY <2>8 DEF PlaceInv
  <2> HIDE DEF TypeOK, Inv1
  <2>10. /\ \A i \in 1 .. Taken' : i \in done' \/ \E v \in InFlight' : func'[v] = i
         /\ \A v \in InFlight' : func'[v] \in 1 .. Taken' /\ func'[v] \notin done'
    <3>1. Taken' \in 1 .. Taken'
      BY <2>3
    <3> QED
      BY <3>1, <2>4, <2>5, <2>6, <2>7, <2>8, <2>9 DEF PlaceInv
  <2>11. \A u, v \in InFlight' : func'[u] = func'[v] => u = v
    BY <2>4, <2>5, <2>6, <2>8 DEF PlaceInv
  <2>12. done' \subseteq 1 .. Taken' /\ begun' \subseteq 1 .. Taken'
    BY <2>5, <2>8 DEF PlaceInv
  <2>13. \A i \in 1 .. Taken' :
            i \in begun' <=> (i \in done' \/ \E v \in Workers : wpc'[v] = "running" /\ func'[v] = i)
    <3> SUFFICES ASSUME NEW i \in 1 .. Taken'
                 PROVE i \in begun' <=> (i \in done' \/ \E v \in Workers : wpc'[v] = "running" /\ func'[v] = i)
      OBVIOUS
    <3>1. (\E v \in Workers : wpc'[v] = "running" /\ func'[v] = i)
             <=> (\E v \in Workers : wpc[v] = "running" /\ func[v] = i)
      BY <2>4, <2>5, <2>6 DEF InFlight
    <3>2. CASE i \in 1 .. Taken
      BY <3>1, <3>2, <2>5 DEF PlaceInv
    <3>3. CASE i = Taken'
      <4>1. ~ \E v \in Workers : wpc[v] = "running" /\ func[v] = i
        BY <3>3, <2>8 DEF PlaceInv, InFlight
      <4> QED
        BY <4>1, <3>1, <3>3, <2>5, <2>9
    <3> QED
      BY <3>2, <3>3, <2>7
  <2> QED
    BY <2>10, <2>11, <2>12, <2>13 DEF PlaceInv
<1> QED
  BY <1>1, <1>2

\* The loop of a worker preserves the places of the functions.
LEMMA PlaceWorkerStep ==
    ASSUME Inv1, PlaceInv, NEW w \in Workers, WorkerStep(w) \/ SpuriousWakeup(w)
    PROVE  PlaceInv'
<1> USE DEF Inv1, TypeOK
<1>1. CASE WorkerLock(w)
  BY <1>1, PlaceKept DEF WorkerLock
<1>2. CASE WorkerTest(w)
  BY <1>2, PlaceKept DEF WorkerTest
<1>3. CASE WorkerBlock(w)
  BY <1>3, PlaceKept DEF WorkerBlock
<1>4. CASE WorkerDecide(w)
  BY <1>4, PlaceDecide
<1>5. CASE FuncBegin(w)
  <2>1. InFlight' = InFlight /\ Taken' = Taken /\ w \in InFlight
    BY <1>5 DEF FuncBegin, InFlight, Taken
  <2>2. UNCHANGED <<func, done>> /\ begun' = begun \cup {func[w]}
    BY <1>5 DEF FuncBegin
  <2>3. \A v \in Workers : wpc'[v] = "running" <=> (v = w \/ wpc[v] = "running")
    BY <1>5 DEF FuncBegin
  <2> HIDE DEF Inv1, TypeOK
  <2> QED
    BY <2>1, <2>2, <2>3 DEF PlaceInv
<1>6. CASE FuncEnd(w)
  <2>1. /\ InFlight' = InFlight \ {w} /\ Taken' = Taken
        /\ w \in InFlight /\ InFlight \subseteq Workers
    BY <1>6 DEF FuncEnd, InFlight, Taken
  <2>2. /\ \A v \in Workers \ {w} : func'[v] = func[v]
        /\ begun' = begun /\ done' = done \cup {func[w]}
    BY <1>6 DEF FuncEnd
  <2>3. /\ wpc[w] = "running"
        /\ \A v \in Workers : wpc'[v] = "running" <=> (v # w /\ wpc[v] = "running")
    BY <1>6 DEF FuncEnd
  <2>4. \A v \in Workers : wpc[v] = "running" => v \in InFlight
    BY DEF InFlight
  <2> HIDE DEF Inv1, TypeOK
  <2>5. \A i \in 1 .. Taken' : i \in done' \/ \E v \in InFlight' : func'[v] = i
    BY <2>1, <2>2 DEF PlaceInv
  <2>6. \A v \in InFlight' : func'[v] \in 1 .. Taken' /\ func'[v] \notin done'
    BY <2>1, <2>2 DEF PlaceInv
  <2>7. \A u, v \in InFlight' : func'[u] = func'[v] => u = v
    BY <2>1, <2>2 DEF PlaceInv
  <2>8. \A i \in 1 .. Taken' :
            i \in begun' <=> (i \in done' \/ \E v \in Workers : wpc'[v] = "running" /\ func'[v] = i)
    BY <2>1, <2>2, <2>3, <2>4 DEF PlaceInv
  <2>9. done' \subseteq 1 .. Taken' /\ begun' \subseteq 1 .. Taken'
    BY <2>1, <2>2 DEF PlaceInv
  <2> QED
    BY <2>5, <2>6, <2>7, <2>8, <2>9 DEF PlaceInv
<1>7. CASE SpuriousWakeup(w)
  BY <1>7, PlaceKept DEF SpuriousWakeup
<1> QED
  BY <1>1, <1>2, <1>3, <1>4, <1>5, <1>6, <1>7 DEF WorkerStep

\* Every step preserves the second layer of the invariant.
LEMMA PlaceNext == Inv1 /\ PlaceInv /\ [Next]_vars => PlaceInv'
<1> SUFFICES ASSUME Inv1, PlaceInv, [Next]_vars PROVE PlaceInv'
  OBVIOUS
<1>1. ASSUME NEW t \in Threads, NEW op \in Operations, Call(t, op) PROVE PlaceInv'
  BY <1>1, PlaceKept DEF Call
<1>2. ASSUME NEW t \in Threads, CallStep(t) PROVE PlaceInv'
  BY <1>2, PlaceCallStep
<1>3. ASSUME NEW w \in Workers, WorkerStep(w) \/ SpuriousWakeup(w) PROVE PlaceInv'
  BY <1>3, PlaceWorkerStep
<1>4. CASE UNCHANGED vars
  BY <1>4, PlaceKept DEF vars
<1> QED
  BY <1>1, <1>2, <1>3, <1>4 DEF Next

\* No function has been scheduled on the constructed pool.
LEMMA PlaceInit == Init => PlaceInv
  BY DEF Init, PlaceInv, InFlight, Taken

\* Where the scheduled functions are, and what has begun and ended, is as
\* described by PlaceInv in every reachable state of the pool.
THEOREM PlaceAlways == Spec => []PlaceInv
  BY PlaceInit, PlaceNext, Inv1Always, PTL DEF Spec

\* Every scheduled function is in exactly one place: schedule() and
\* waitAndProcess() lose none and run none twice, with any number of threads.
THEOREM OnePlace == Spec => []ExactlyOnePlace
<1>1. Inv1 /\ PlaceInv => ExactlyOnePlace
  <2> SUFFICES ASSUME Inv1, PlaceInv, NEW i \in Tasks
               PROVE  LET inBuffer == {k \in 1 .. Len(m_buffer) : m_buffer[k] = i}
                          holders == {w \in InFlight : func[w] = i}
                      IN \/ i \in done /\ inBuffer = {} /\ holders = {}
                         \/ i \notin done /\ inBuffer = {} /\ \E w \in Workers : holders = {w}
                         \/ i \notin done /\ holders = {} /\ \E k \in 1 .. Len(m_buffer) : inBuffer = {k}
    BY DEF ExactlyOnePlace
  <2> DEFINE B == {k \in 1 .. Len(m_buffer) : m_buffer[k] = i}
             H == {w \in InFlight : func[w] = i}
  <2>1. /\ pushed \in Nat /\ Len(m_buffer) \in Nat /\ Len(m_buffer) <= pushed
        /\ i \in Nat /\ 1 <= i /\ i <= pushed /\ Taken = pushed - Len(m_buffer)
    BY LenProperties DEF Inv1, TypeOK, BufferInv, Tasks, Taken
  <2>2. \A k \in 1 .. Len(m_buffer) : m_buffer[k] = Taken + k
    BY <2>1 DEF Inv1, BufferInv
  <2>3. CASE i <= Taken
    <3>1. B = {} /\ i \in 1 .. Taken
      BY <2>1, <2>2, <2>3
    <3>2. CASE i \in done
      BY <3>1, <3>2 DEF PlaceInv
    <3>3. CASE i \notin done
      <4>1. PICK w \in InFlight : func[w] = i
        BY <3>1, <3>3 DEF PlaceInv
      <4>2. H = {w} /\ w \in Workers
        BY <4>1 DEF PlaceInv, InFlight
      <4> QED
        BY <3>1, <3>3, <4>2
    <3> QED
      BY <3>2, <3>3
  <2>4. CASE i > Taken
    <3>1. i - Taken \in 1 .. Len(m_buffer)
      BY <2>1, <2>4
    <3>2. B = {i - Taken}
      BY <2>1, <2>2, <3>1
    <3>3. i \notin 1 .. Taken
      BY <2>1, <2>4
    <3>4. \A w \in InFlight : func[w] # i
      BY <3>3 DEF PlaceInv
    <3>5. i \notin done
      BY <3>3 DEF PlaceInv
    <3> QED
      BY <3>1, <3>2, <3>4, <3>5
  <2> QED
    BY <2>1, <2>3, <2>4
<1> QED
  BY <1>1, Inv1Always, PlaceAlways, PTL

\* Functions begin in the order they were scheduled, except for overtaking
\* by the threads that have already taken one.
THEOREM Fcfs == Spec => []FirstComeFirstServed
<1>1. Inv1 /\ PlaceInv => FirstComeFirstServed
  <2> SUFFICES ASSUME Inv1, PlaceInv, NEW i \in begun, NEW j \in 1 .. i - 1, j \notin begun
               PROVE  \E w \in Workers : wpc[w] = "grabbed" /\ func[w] = j
    BY DEF FirstComeFirstServed
  <2>1. Taken \in Int
    BY LenProperties DEF Taken, Inv1, TypeOK
  <2>2. j \in 1 .. Taken
    BY <2>1 DEF PlaceInv
  <2>3. j \notin done
    BY <2>2 DEF PlaceInv
  <2>4. PICK w \in InFlight : func[w] = j
    BY <2>2, <2>3 DEF PlaceInv
  <2>5. wpc[w] # "running"
    BY <2>2, <2>4 DEF PlaceInv, InFlight
  <2> QED
    BY <2>4, <2>5 DEF InFlight
<1> QED
  BY <1>1, Inv1Always, PlaceAlways, PTL

-----------------------------------------------------------------------------
(* start() and stop().                                                     *)

\* Threads exist only while the pool is started or start() creates them.
LifeInv ==
    /\ \A t \in Threads : api[t] \in {"terminate", "notifyAll", "join"} => m_started
    /\ (\A t \in Threads : api[t] # "spawn") /\ ~m_started
          => \A w \in Workers : wpc[w] = "none"

\* Every step preserves the third layer of the invariant.
LEMMA LifeNext == Inv1 /\ LifeInv /\ [Next]_vars => LifeInv'
<1> SUFFICES ASSUME Inv1, LifeInv, [Next]_vars PROVE LifeInv'
  OBVIOUS
<1> USE NoThreadAssumption DEF Inv1, TypeOK, LockInv, LifeInv, Threads
<1>1. ASSUME NEW t \in Threads, NEW op \in Operations, Call(t, op) PROVE LifeInv'
  BY <1>1 DEF Call, Operations
<1>2. ASSUME NEW t \in Threads, CallStep(t) PROVE LifeInv'
  <2>1. CASE SchedulePush(t)
    BY <1>2, <2>1 DEF SchedulePush
  <2>2. CASE ScheduleNotify(t)
    BY <1>2, <2>2 DEF ScheduleNotify
  <2>3. CASE StartLock(t)
    BY <1>2, <2>3 DEF StartLock
  <2>4. CASE \E w \in Workers : StartSpawn(t, w)
    BY <1>2, <2>4 DEF StartSpawn
  <2>5. CASE StartDone(t)
    BY <1>2, <2>5 DEF StartDone
  <2>6. CASE StopLock(t)
    BY <1>2, <2>6 DEF StopLock
  <2>7. CASE StopTerminate(t)
    BY <1>2, <2>7 DEF StopTerminate
  <2>8. CASE StopNotify(t)
    BY <1>2, <2>8 DEF StopNotify
  <2>9. CASE StopJoin(t)
    BY <1>2, <2>9 DEF StopJoin
  <2>10. CASE IsStarted(t)
    BY <1>2, <2>10 DEF IsStarted
  <2> QED
    BY <1>2, <2>1, <2>2, <2>3, <2>4, <2>5, <2>6, <2>7, <2>8, <2>9, <2>10 DEF CallStep
<1>3. ASSUME NEW w \in Workers, WorkerStep(w) \/ SpuriousWakeup(w) PROVE LifeInv'
  <2>1. UNCHANGED <<api, m_started>>
    BY <1>3 DEF WorkerStep, WorkerLock, WorkerTest, WorkerBlock, WorkerDecide,
                FuncBegin, FuncEnd, SpuriousWakeup
  <2>2. wpc[w] # "none"
    BY <1>3 DEF WorkerStep, WorkerLock, WorkerTest, WorkerBlock, WorkerDecide,
                FuncBegin, FuncEnd, SpuriousWakeup
  <2> QED
    BY <2>1, <2>2
<1>4. CASE UNCHANGED vars
  BY <1>4 DEF vars
<1> QED
  BY <1>1, <1>2, <1>3, <1>4 DEF Next

\* start() and stop() create and remove all threads together, under the pool's
\* mutex, as described by LifeInv, in every reachable state of the pool.
THEOREM LifeAlways == Spec => []LifeInv
<1>1. Init => LifeInv
  BY DEF Init, LifeInv
<1> QED
  BY <1>1, LifeNext, Inv1Always, PTL DEF Spec

\* Once stop() has returned no thread of the pool is left and no function is
\* being executed: the join loop waits for all of them.
THEOREM QuietWhenStopped == Spec => []StoppedIsQuiet
<1>1. Inv1 /\ PlaceInv /\ LifeInv => StoppedIsQuiet
  <2> SUFFICES ASSUME Inv1, PlaceInv, LifeInv, ~m_started, poolMutex = NoThread
               PROVE  m_threads = {} /\ begun = done
    BY DEF StoppedIsQuiet
  <2>1. \A t \in Threads : api[t] # "spawn"
    BY NoThreadAssumption DEF Inv1, LockInv, Threads
  <2>2. \A w \in Workers : wpc[w] = "none"
    BY <2>1 DEF LifeInv
  <2>3. begun = done
    BY <2>2 DEF PlaceInv
  <2> QED
    BY <2>2, <2>3 DEF m_threads
<1> QED
  BY <1>1, Inv1Always, PlaceAlways, LifeAlways, PTL

-----------------------------------------------------------------------------
(* The notifications of schedule().                                        *)

\* The threads, and the sets of them that are counted, are finite.
LEMMA FiniteThreads ==
    ASSUME TypeOK
    PROVE  /\ IsFiniteSet(Awake) /\ Cardinality(Awake) \in Nat
           /\ IsFiniteSet(Notifiers) /\ Cardinality(Notifiers) \in Nat
<1>1. IsFiniteSet(Threads)
  BY WorkersAssumption, ThreadsAssumption, FS_Union DEF Threads
<1>2. Awake \subseteq Workers /\ Notifiers \subseteq Threads
  BY DEF Awake, Notifiers
<1> QED
  BY <1>1, <1>2, WorkersAssumption, FS_Subset, FS_CardinalityType

\* No lost wake-up is kept by a step after which a sleeping thread is one
\* that slept before, and that removes no one on the way to the buffer.
LEMMA WakeupKept ==
    ASSUME TypeOK, TypeOK', NoLostWakeup, UNCHANGED <<m_buffer, m_terminating>>,
           Awake \subseteq Awake', Notifiers \subseteq Notifiers',
           \A w \in Workers : wpc'[w] = "waiting" => wpc[w] = "waiting"
    PROVE  NoLostWakeup'
<1>1. /\ IsFiniteSet(Awake') /\ Cardinality(Awake') \in Nat
      /\ IsFiniteSet(Notifiers') /\ Cardinality(Notifiers') \in Nat
  <2>1. IsFiniteSet(Threads)
    BY WorkersAssumption, ThreadsAssumption, FS_Union DEF Threads
  <2>2. Awake' \subseteq Workers /\ Notifiers' \subseteq Threads
    BY DEF Awake, Notifiers
  <2> QED
    BY <2>1, <2>2, WorkersAssumption, FS_Subset, FS_CardinalityType
<1>2. Cardinality(Awake) <= Cardinality(Awake')
  BY <1>1, FS_Subset
<1>3. Cardinality(Notifiers) <= Cardinality(Notifiers')
  BY <1>1, FS_Subset
<1>4. Len(m_buffer) \in Nat
  BY LenProperties DEF TypeOK
<1>5. ASSUME ~m_terminating', NEW w \in Workers, wpc'[w] = "waiting"
      PROVE  Len(m_buffer') <= Cardinality(Awake') + Cardinality(Notifiers')
  <2>1. ~m_terminating /\ wpc[w] = "waiting"
    BY <1>5
  <2>2. Len(m_buffer) <= Cardinality(Awake) + Cardinality(Notifiers)
    BY <2>1 DEF NoLostWakeup
  <2> QED
    BY <2>2, <1>1, <1>2, <1>3, <1>4, FiniteThreads
<1> QED
  BY <1>5 DEF NoLostWakeup

\* The steps of calls leave no function without a thread on its way to it.
LEMMA WakeupCallStep ==
    ASSUME Inv1, TypeOK', NoLostWakeup, NEW t \in Threads, CallStep(t)
    PROVE  NoLostWakeup'
<1> USE DEF Inv1
<1>0. Len(m_buffer) \in Nat
  BY LenProperties DEF TypeOK
<1>1. CASE SchedulePush(t)
  <2>1. Len(m_buffer') = Len(m_buffer) + 1 /\ UNCHANGED <<wpc, m_terminating>>
    BY <1>1, AppendProperties DEF SchedulePush, TypeOK
  <2>2. Awake' = Awake /\ Notifiers' = Notifiers \cup {t} /\ t \notin Notifiers
    BY <1>1 DEF SchedulePush, Awake, Notifiers, TypeOK
  <2>3. Cardinality(Notifiers') = Cardinality(Notifiers) + 1
    BY <2>2, FiniteThreads, FS_AddElement
  <2> QED
    BY <1>0, <2>1, <2>2, <2>3, FiniteThreads DEF NoLostWakeup
<1>2. CASE ScheduleNotify(t)
  <2>1. CASE \A w \in Workers : wpc[w] # "waiting"
    BY <1>2, <2>1 DEF ScheduleNotify, NoLostWakeup
  <2>2. ASSUME NEW w \in Workers, wpc[w] = "waiting", wpc' = [wpc EXCEPT ![w] = "lock"]
        PROVE  NoLostWakeup'
    <3>1. Awake' = Awake \cup {w} /\ w \notin Awake
      BY <2>2 DEF Awake, TypeOK
    <3>2. Notifiers' = Notifiers \ {t} /\ t \in Notifiers
      BY <1>2 DEF ScheduleNotify, Notifiers, TypeOK
    <3>3. Cardinality(Awake') = Cardinality(Awake) + 1
      BY <3>1, FiniteThreads, FS_AddElement
    <3>4. Cardinality(Notifiers') = Cardinality(Notifiers) - 1
      BY <3>2, FiniteThreads, FS_RemoveElement
    <3>5. UNCHANGED <<m_buffer, m_terminating>>
      BY <1>2 DEF ScheduleNotify
    <3>6. ~m_terminating => Len(m_buffer) <= Cardinality(Awake) + Cardinality(Notifiers)
      BY <2>2 DEF NoLostWakeup
    <3> QED
      BY <1>0, <3>3, <3>4, <3>5, <3>6, FiniteThreads DEF NoLostWakeup
  <2> QED
    BY <1>2, <2>1, <2>2 DEF ScheduleNotify
<1>3. CASE StartLock(t)
  BY <1>3, WakeupKept DEF StartLock, Awake, Notifiers, TypeOK
<1>4. CASE \E w \in Workers : StartSpawn(t, w)
  BY <1>4, WakeupKept DEF StartSpawn, Awake, Notifiers, TypeOK
<1>5. CASE StartDone(t)
  BY <1>5, WakeupKept DEF StartDone, Awake, Notifiers, TypeOK
<1>6. CASE StopLock(t)
  BY <1>6, WakeupKept DEF StopLock, Awake, Notifiers, TypeOK
<1>7. CASE StopTerminate(t)
  BY <1>7 DEF StopTerminate, NoLostWakeup
<1>8. CASE StopNotify(t)
  BY <1>8 DEF StopNotify, NoLostWakeup
<1>9. CASE StopJoin(t)
  BY <1>9 DEF StopJoin, NoLostWakeup
<1>10. CASE IsStarted(t)
  BY <1>10, WakeupKept DEF IsStarted, Awake, Notifiers, TypeOK
<1> QED
  BY <1>1, <1>2, <1>3, <1>4, <1>5, <1>6, <1>7, <1>8, <1>9, <1>10 DEF CallStep

\* The steps of waitAndProcess() leave no function without a thread on its way.
LEMMA WakeupWorkerStep ==
    ASSUME Inv1, Inv1', NoLostWakeup, NEW w \in Workers, WorkerStep(w) \/ SpuriousWakeup(w)
    PROVE  NoLostWakeup'
<1> USE DEF Inv1
<1>0. Len(m_buffer) \in Nat
  BY LenProperties DEF TypeOK
<1>1. CASE WorkerLock(w)
  BY <1>1, WakeupKept DEF WorkerLock, Awake, Notifiers, TypeOK
<1>2. CASE WorkerTest(w)
  <2>1. CASE m_buffer # <<>> \/ m_terminating
    BY <1>2, <2>1, WakeupKept DEF WorkerTest, Awake, Notifiers, TypeOK
  <2>2. CASE m_buffer = <<>> /\ ~m_terminating
    <3>1. Len(m_buffer') = 0
      BY <1>2, <2>2 DEF WorkerTest
    <3>2. Cardinality(Awake') \in Nat /\ Cardinality(Notifiers') \in Nat
      <4>1. IsFiniteSet(Threads)
        BY WorkersAssumption, ThreadsAssumption, FS_Union DEF Threads
      <4>2. Awake' \subseteq Workers /\ Notifiers' \subseteq Threads
        BY DEF Awake, Notifiers
      <4> QED
        BY <4>1, <4>2, WorkersAssumption, FS_Subset, FS_CardinalityType
    <3> QED
      BY <3>1, <3>2 DEF NoLostWakeup
  <2> QED
    BY <2>1, <2>2
<1>3. CASE WorkerBlock(w)
  <2>1. Len(m_buffer') = 0
    BY <1>3 DEF WorkerBlock, BufferInv
  <2>2. Awake' = Awake /\ Notifiers' = Notifiers
    BY <1>3 DEF WorkerBlock, Awake, Notifiers, TypeOK
  <2> QED
    BY <2>1, <2>2, FiniteThreads DEF NoLostWakeup
<1>4. CASE WorkerDecide(w)
  <2>1. CASE m_terminating
    BY <1>4, <2>1 DEF WorkerDecide, NoLostWakeup
  <2>2. CASE ~m_terminating
    <3>1. Len(m_buffer') = Len(m_buffer) - 1
      BY <1>4, <2>2, HeadTailProperties DEF WorkerDecide, TypeOK, BufferInv, TakeIsSafe
    <3>2. Awake' = Awake \ {w} /\ w \in Awake /\ Notifiers' = Notifiers
      BY <1>4, <2>2 DEF WorkerDecide, Awake, Notifiers, TypeOK
    <3>3. Cardinality(Awake') = Cardinality(Awake) - 1
      BY <3>2, FiniteThreads, FS_RemoveElement
    <3>4. \A v \in Workers : wpc'[v] = "waiting" => wpc[v] = "waiting"
      BY <1>4, <2>2 DEF WorkerDecide, TypeOK
    <3> QED
      BY <1>0, <2>2, <3>1, <3>2, <3>3, <3>4, FiniteThreads DEF NoLostWakeup
  <2> QED
    BY <2>1, <2>2
<1>5. CASE FuncBegin(w)
  BY <1>5, WakeupKept DEF FuncBegin, Awake, Notifiers, TypeOK
<1>6. CASE FuncEnd(w)
  BY <1>6, WakeupKept DEF FuncEnd, Awake, Notifiers, TypeOK
<1>7. CASE SpuriousWakeup(w)
  BY <1>7, WakeupKept DEF SpuriousWakeup, Awake, Notifiers, TypeOK
<1> QED
  BY <1>1, <1>2, <1>3, <1>4, <1>5, <1>6, <1>7 DEF WorkerStep

\* schedule()'s notification is never lost: while a thread sleeps there are at
\* least as many threads on their way as functions in the buffer.
THEOREM NeverLostWakeup == Spec => []NoLostWakeup
<1>1. Init => NoLostWakeup
  BY DEF Init, NoLostWakeup
<1>2. Inv1 /\ Inv1' /\ NoLostWakeup /\ [Next]_vars => NoLostWakeup'
  <2> SUFFICES ASSUME Inv1, Inv1', NoLostWakeup, [Next]_vars PROVE NoLostWakeup'
    OBVIOUS
  <2> USE DEF Inv1
  <2>1. ASSUME NEW t \in Threads, NEW op \in Operations, Call(t, op) PROVE NoLostWakeup'
    BY <2>1, WakeupKept DEF Call, Awake, Notifiers, TypeOK, Operations
  <2>2. ASSUME NEW t \in Threads, CallStep(t) PROVE NoLostWakeup'
    BY <2>2, WakeupCallStep
  <2>3. ASSUME NEW w \in Workers, WorkerStep(w) \/ SpuriousWakeup(w) PROVE NoLostWakeup'
    BY <2>3, WakeupWorkerStep
  <2>4. CASE UNCHANGED vars
    BY <2>4, WakeupKept DEF vars, Awake, Notifiers
  <2> QED
    BY <2>1, <2>2, <2>3, <2>4 DEF Next
<1> QED
  BY <1>1, <1>2, Inv1Always, PTL DEF Spec

-----------------------------------------------------------------------------
(* The pool implements the queue of work.                                  *)

\* The instance's own copy of Cardinality is Cardinality.
LEMMA SameCardinality == \A S : Queue!Cardinality(S) = Cardinality(S)
  BY DEF Queue!Cardinality, Cardinality

\* When a function begins, the functions skipped over and the ones in
\* execution are held by the other workers, one each.
LEMMA OthersHold ==
    ASSUME Inv1, PlaceInv, NEW w \in Workers, FuncBegin(w)
    PROVE  Cardinality(Queue!Skipped(func[w]) \cup (begun \ done)) < Cardinality(Workers)
<1> DEFINE S == Queue!Skipped(func[w]) \cup (begun \ done)
           T == Workers \ {w}
           f == [j \in S |-> CHOOSE v \in InFlight : func[v] = j]
<1>1. w \in InFlight /\ wpc[w] # "running" /\ func[w] \in 1 .. Taken
  BY DEF FuncBegin, InFlight, PlaceInv
<1>2. Taken \in Int
  BY LenProperties DEF Taken, Inv1, TypeOK
<1>3. ASSUME NEW j \in S PROVE j \in 1 .. Taken /\ j \notin done /\ j # func[w]
  <2>1. CASE j \in begun \ done
    <3>1. j \in 1 .. Taken /\ j \notin done
      BY <2>1 DEF PlaceInv
    <3>2. PICK v \in Workers : wpc[v] = "running" /\ func[v] = j
      BY <2>1, <3>1 DEF PlaceInv
    <3>3. v \in InFlight /\ v # w
      BY <1>1, <3>2 DEF InFlight
    <3> QED
      BY <1>1, <3>1, <3>2, <3>3 DEF PlaceInv
  <2>2. CASE j \in Queue!Skipped(func[w])
    <3>1. j \in 1 .. func[w] - 1 /\ j \notin begun
      BY <2>2 DEF Queue!Skipped
    <3>2. j \in 1 .. Taken /\ j # func[w]
      BY <1>1, <1>2, <3>1
    <3> QED
      BY <3>1, <3>2 DEF PlaceInv
  <2> QED
    BY <2>1, <2>2
<1>4. ASSUME NEW j \in S PROVE f[j] \in T /\ func[f[j]] = j
  <2>1. \E v \in InFlight : func[v] = j
    BY <1>3 DEF PlaceInv
  <2>2. f[j] \in InFlight /\ func[f[j]] = j
    BY <2>1
  <2> QED
    BY <1>3, <2>2 DEF InFlight
<1>5. f \in [S -> T]
  BY <1>4
<1>6. \A i, j \in S : f[i] = f[j] => i = j
  BY <1>4
<1>7. f \in Injection(S, T)
  BY <1>5, <1>6 DEF Injection, IsInjective
<1>8. IsFiniteSet(T) /\ Cardinality(T) = Cardinality(Workers) - 1
  BY WorkersAssumption, FS_RemoveElement
<1>9. Cardinality(S) <= Cardinality(T) /\ IsFiniteSet(S)
  BY <1>7, <1>8, FS_Injection
<1>10. Cardinality(S) \in Nat /\ Cardinality(Workers) \in Nat
  BY <1>9, WorkersAssumption, FS_CardinalityType
<1> QED
  BY <1>8, <1>9, <1>10

\* Every step of the pool is a step of the abstract queue, or stutters.
LEMMA QueueStep ==
    ASSUME Inv1, PlaceInv, [Next]_vars
    PROVE  [Queue!QNext]_(Queue!qvars)
<1> USE DEF Queue!qvars
<1>1. ASSUME NEW t \in Threads, NEW op \in Operations, Call(t, op)
      PROVE  UNCHANGED Queue!qvars
  BY <1>1 DEF Call
<1>2. ASSUME NEW t \in Threads, CallStep(t)
      PROVE  Queue!Submit \/ UNCHANGED Queue!qvars
  <2>1. CASE SchedulePush(t)
    BY <2>1 DEF SchedulePush, Queue!Submit
  <2> QED
    BY <1>2, <2>1 DEF CallStep, ScheduleNotify, StartLock, StartSpawn, StartDone,
       StopLock, StopTerminate, StopNotify, StopJoin, IsStarted
<1>3. ASSUME NEW w \in Workers, FuncBegin(w)
      PROVE  \E i \in 1 .. pushed : Queue!Begin(i)
  <2>1. w \in InFlight /\ func[w] \in 1 .. Taken
    BY <1>3 DEF FuncBegin, InFlight, PlaceInv
  <2>2. func[w] \in 1 .. pushed
    BY <2>1, LenProperties DEF Taken, Inv1, TypeOK
  <2>3. func[w] \notin begun
    BY <1>3, <2>1 DEF PlaceInv, InFlight, FuncBegin
  <2>4. Cardinality(Queue!Skipped(func[w]) \cup (begun \ done)) < Cardinality(Workers)
    BY <1>3, OthersHold
  <2>5. Queue!Begin(func[w])
    BY <1>3, <2>2, <2>3, <2>4, SameCardinality DEF FuncBegin, Queue!Begin
  <2> QED
    BY <2>2, <2>5
<1>4. ASSUME NEW w \in Workers, FuncEnd(w)
      PROVE  \E i \in 1 .. pushed : Queue!Finish(i)
  <2>1. w \in InFlight /\ func[w] \in 1 .. Taken /\ func[w] \notin done
    BY <1>4 DEF FuncEnd, InFlight, PlaceInv
  <2>2. func[w] \in 1 .. pushed
    BY <2>1, LenProperties DEF Taken, Inv1, TypeOK
  <2>3. func[w] \in begun
    BY <1>4, <2>1 DEF PlaceInv, FuncEnd
  <2> QED
    BY <1>4, <2>1, <2>2, <2>3 DEF FuncEnd, Queue!Finish
<1>5. ASSUME NEW w \in Workers, WorkerStep(w) \/ SpuriousWakeup(w),
             ~FuncBegin(w), ~FuncEnd(w)
      PROVE  UNCHANGED Queue!qvars
  BY <1>5 DEF WorkerStep, WorkerLock, WorkerTest, WorkerBlock, WorkerDecide, SpuriousWakeup
<1>6. CASE UNCHANGED vars
  BY <1>6 DEF vars
<1> QED
  BY <1>1, <1>2, <1>3, <1>4, <1>5, <1>6 DEF Next, Queue!QNext

\* BasicThreadPool implements WorkQueue with one slot per thread: at most
\* once, first come first served, never more in service than threads.
THEOREM Refinement == Spec => ImplementsWorkQueue
<1>1. Init => Queue!QInit
  BY DEF Init, Queue!QInit
<1>2. Inv1 /\ PlaceInv /\ [Next]_vars => [Queue!QNext]_(Queue!qvars)
  BY QueueStep
<1> QED
  BY <1>1, <1>2, Inv1Always, PlaceAlways, PTL DEF Spec, ImplementsWorkQueue, Queue!QSpec
=============================================================================
