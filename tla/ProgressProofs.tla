--------------------------- MODULE ProgressProofs ---------------------------
(***************************************************************************)
(* Proofs about Progress, for any number of threads and tasks and any      *)
(* limit of the eventfd counter.                                           *)
(***************************************************************************)
EXTENDS Progress, TLAPS

\* Every step of the progress loop, of a task and of finalize keeps the types.
LEMMA TypeStep == TypeOK /\ [Next]_vars => TypeOK'
<1> SUFFICES ASSUME TypeOK, [Next]_vars PROVE TypeOK'
  OBVIOUS
<1> USE ProgressAssumption DEF TypeOK, ThreadSteps, At, Goto
<1>1. ASSUME NEW k \in Tasks, TaskStep(k) PROVE TypeOK'
  BY <1>1 DEF TaskStep, PushCompletion, signal_eventfd, Signaled, StopTask
<1>2. ASSUME NEW t \in Threads, LoopStep(t) PROVE TypeOK'
  BY <1>2 DEF LoopStep, Trigger, poll_try_wait, Woken, drain_eventfd, LockRx, TryRecv,
              PollReturns
<1>3. ASSUME NEW t \in Threads, CompleteDirectly(t) \/ TimedOut(t) PROVE TypeOK'
  BY <1>3 DEF CompleteDirectly, TimedOut
<1>4. CASE FinalizeBegin \/ close_eventfd
  BY <1>4 DEF FinalizeBegin, close_eventfd
<1>5. CASE UNCHANGED vars
  BY <1>5 DEF vars
<1> QED
  BY <1>1, <1>2, <1>3, <1>4, <1>5 DEF Next

\* The variables of the progress engine always have the shape the code gives them.
THEOREM TypeCorrect == Spec => []TypeOK
<1>1. Init => TypeOK
  BY ProgressAssumption DEF Init, TypeOK, ThreadSteps
<1> QED
  BY <1>1, TypeStep, PTL DEF Spec

-----------------------------------------------------------------------------
\* A step keeps NoLostWakeup.  A push leaves its task about to signal; a signal
\* leaves the eventfd readable; a drain leaves its thread with the channel still to
\* empty; and a thread leaves poll only when the channel is empty.
LEMMA WakeupStep == TypeOK /\ NoLostWakeup /\ [Next]_vars => NoLostWakeup'
<1> SUFFICES ASSUME TypeOK, NoLostWakeup, [Next]_vars PROVE NoLostWakeup'
  OBVIOUS
<1> USE ProgressAssumption DEF TypeOK, ThreadSteps, NoLostWakeup, Draining, At, Goto
<1>1. ASSUME NEW k \in Tasks, PushCompletion(k) PROVE NoLostWakeup'
  BY <1>1 DEF PushCompletion
<1>2. ASSUME NEW k \in Tasks, signal_eventfd(k) PROVE NoLostWakeup'
  BY <1>2 DEF signal_eventfd, Signaled
<1>3. ASSUME NEW k \in Tasks, StopTask(k) PROVE NoLostWakeup'
  <2>1. \A j \in Tasks : task[j] = "unsignaled" => task'[j] = "unsignaled"
    BY <1>3 DEF StopTask
  <2> QED
    BY <1>3, <2>1 DEF StopTask
<1>4. ASSUME NEW t \in Threads,
             \/ Trigger(t) \/ poll_try_wait(t) \/ Woken(t)
             \/ CompleteDirectly(t) \/ TimedOut(t)
      PROVE  NoLostWakeup'
  <2>1. \A u \in Threads : Draining(u) => Draining(u)'
    BY <1>4 DEF Trigger, poll_try_wait, Woken, CompleteDirectly, TimedOut
  <2> QED
    BY <1>4, <2>1 DEF Trigger, poll_try_wait, Woken, CompleteDirectly, TimedOut
<1>5. ASSUME NEW t \in Threads, drain_eventfd(t) PROVE NoLostWakeup'
  BY <1>5 DEF drain_eventfd
<1>6. ASSUME NEW t \in Threads, LockRx(t) \/ TryRecv(t) PROVE NoLostWakeup'
  BY <1>6 DEF LockRx, TryRecv
<1>7. ASSUME NEW t \in Threads, PollReturns(t) PROVE NoLostWakeup'
  BY <1>7 DEF PollReturns, MoreToRecv
<1>8. CASE FinalizeBegin \/ close_eventfd
  BY <1>8 DEF FinalizeBegin, close_eventfd
<1>9. CASE UNCHANGED vars
  BY <1>9 DEF vars
<1> QED
  BY <1>1, <1>2, <1>3, <1>4, <1>5, <1>6, <1>7, <1>8, <1>9 DEF Next, TaskStep, LoopStep

\* However many threads poll and tasks complete operations, a completion in the
\* channel always has a readable eventfd, a signal to come, or a thread that will
\* empty the channel before it can block.
THEOREM WakeupNeverLost == Spec => []NoLostWakeup
<1>1. Init => NoLostWakeup
  BY DEF Init, NoLostWakeup
<1> QED
  BY <1>1, TypeCorrect, WakeupStep, PTL DEF Spec

-----------------------------------------------------------------------------
\* A step keeps NoStrandedCallback: a thread leaves its trigger loop only when it
\* finds no completion in the context, and enters it when poll returns.
LEMMA CallbackStep == TypeOK /\ NoStrandedCallback /\ [Next]_vars => NoStrandedCallback'
<1> SUFFICES ASSUME TypeOK, NoStrandedCallback, [Next]_vars PROVE NoStrandedCallback'
  OBVIOUS
<1> USE DEF TypeOK, ThreadSteps, NoStrandedCallback, At, Goto
<1>1. ASSUME NEW k \in Tasks, TaskStep(k) PROVE NoStrandedCallback'
  BY <1>1 DEF TaskStep, PushCompletion, signal_eventfd, StopTask
<1>2. ASSUME NEW t \in Threads, Trigger(t) \/ CompleteDirectly(t) \/ TryRecv(t)
      PROVE  NoStrandedCallback'
  BY <1>2 DEF Trigger, CompleteDirectly, TryRecv
<1>3. ASSUME NEW t \in Threads,
             \/ poll_try_wait(t) \/ Woken(t) \/ TimedOut(t)
             \/ drain_eventfd(t) \/ LockRx(t) \/ PollReturns(t)
      PROVE  NoStrandedCallback'
  <2>1. ready' = ready
    BY <1>3 DEF poll_try_wait, Woken, TimedOut, drain_eventfd, LockRx, PollReturns
  <2>2. \A u \in Threads : pc[u] \in {"recv", "trigger"} => pc'[u] \in {"recv", "trigger"}
    BY <1>3 DEF poll_try_wait, Woken, TimedOut, drain_eventfd, LockRx, PollReturns
  <2> QED
    BY <2>1, <2>2
<1>4. CASE FinalizeBegin \/ close_eventfd
  BY <1>4 DEF FinalizeBegin, close_eventfd
<1>5. CASE UNCHANGED vars
  BY <1>5 DEF vars
<1> QED
  BY <1>1, <1>2, <1>3, <1>4, <1>5 DEF Next, LoopStep

\* No completion of the context is left behind by threads that go to sleep.
THEOREM CallbackNeverStranded == Spec => []NoStrandedCallback
<1>1. Init => NoStrandedCallback
  BY DEF Init, NoStrandedCallback
<1> QED
  BY <1>1, TypeCorrect, CallbackStep, PTL DEF Spec

-----------------------------------------------------------------------------
\* Once finalize has closed the eventfd no task is left to write to it.
THEOREM CloseIsLast == Spec => []NoSignalAfterClose
<1>1. Init => NoSignalAfterClose
  BY DEF Init, NoSignalAfterClose
<1>2. TypeOK /\ NoSignalAfterClose /\ [Next]_vars => NoSignalAfterClose'
  <2> SUFFICES ASSUME TypeOK, NoSignalAfterClose, [Next]_vars PROVE NoSignalAfterClose'
    OBVIOUS
  <2> USE DEF TypeOK, NoSignalAfterClose
  <2>1. ASSUME NEW k \in Tasks, TaskStep(k) PROVE NoSignalAfterClose'
    BY <2>1 DEF TaskStep, PushCompletion, signal_eventfd, StopTask
  <2>2. ASSUME NEW t \in Threads, LoopStep(t) \/ CompleteDirectly(t) \/ TimedOut(t)
        PROVE  NoSignalAfterClose'
    BY <2>2 DEF LoopStep, CompleteDirectly, TimedOut, Trigger, poll_try_wait, Woken,
                drain_eventfd, LockRx, TryRecv, PollReturns
  <2>3. CASE FinalizeBegin \/ close_eventfd
    BY <2>3 DEF FinalizeBegin, close_eventfd, RuntimeDropped
  <2>4. CASE UNCHANGED vars
    BY <2>4 DEF vars
  <2> QED
    BY <2>1, <2>2, <2>3, <2>4 DEF Next
<1> QED
  BY <1>1, <1>2, TypeCorrect, PTL DEF Spec
=============================================================================
