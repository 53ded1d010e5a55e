------------------------------ MODULE Progress ------------------------------
(***************************************************************************)
(* How a completion pushed by a Tokio task wakes the NA threads: the       *)
(* completion channel, the eventfd, poll_try_wait, poll and the progress   *)
(* loop around them, and the end of it all in finalize.                    *)
(*                                                                         *)
(* A completion is only counted here: which op it belongs to is the        *)
(* subject of NaEndpoint.  The progress loop is external: it is the loop   *)
(* of test/na_test_common.c, which triggers callbacks until there are no   *)
(* more, asks poll_try_wait whether it may block, blocks on the eventfd,   *)
(* and polls.                                                              *)
(***************************************************************************)
EXTENDS Naturals

CONSTANTS
  Threads,         \* NA threads that run the progress loop
  Tasks,           \* Tokio tasks that complete operations
  Unlocked,        \* completion_rx is locked by no thread
  MaxCount,        \* the largest value of an eventfd counter (2^64 - 2)
  MaxCompletions   \* bound on the completions of a behaviour

ASSUME ProgressAssumption ==
  /\ MaxCount \in Nat \ {0}
  /\ MaxCompletions \in Nat
  /\ Unlocked \notin Threads

VARIABLES
  class,      \* "running", then "dropping" its runtime in finalize, then "closed"
  channel,    \* number of items in the completion channel
  rx_lock,    \* the thread that holds completion_rx
  event_fd,   \* the eventfd's counter
  ready,      \* completions added to the context, whose callbacks are not yet run
  pushed,     \* completions pushed or added so far
  triggered,  \* callbacks run so far
  task,       \* each task: "idle", "unsignaled" once it has pushed, or "stopped"
  pc          \* where each thread is in its loop

vars == <<class, channel, rx_lock, event_fd, ready, pushed, triggered, task, pc>>

ThreadSteps == {"trigger", "try_wait", "wait", "poll", "drained", "recv"}

\* All state variables have the shape the code gives them.
TypeOK ==
  /\ class \in {"running", "dropping", "closed"}
  /\ channel \in Nat
  /\ rx_lock \in Threads \cup {Unlocked}
  /\ event_fd \in 0 .. MaxCount
  /\ ready \in Nat
  /\ pushed \in Nat
  /\ triggered \in Nat
  /\ task \in [Tasks -> {"idle", "unsignaled", "stopped"}]
  /\ pc \in [Threads -> ThreadSteps]

Init ==
  /\ class = "running"
  /\ channel = 0
  /\ rx_lock = Unlocked
  /\ event_fd = 0
  /\ ready = 0
  /\ pushed = 0
  /\ triggered = 0
  /\ task = [k \in Tasks |-> "idle"]
  /\ pc = [t \in Threads |-> "trigger"]

-----------------------------------------------------------------------------
(* Tokio tasks.                                                            *)

PushCompletion_ToContext(k) ==
  /\ task[k] = "idle"
  /\ pushed < MaxCompletions
  /\ ready' = ready + 1
  /\ pushed' = pushed + 1
  /\ UNCHANGED <<class, channel, rx_lock, event_fd, triggered, task, pc>>

\* completion_tx.send, the first half of completing an operation.
PushCompletion(k) ==
  /\ task[k] = "idle"
  /\ pushed < MaxCompletions
  /\ channel' = channel + 1
  /\ pushed' = pushed + 1
  /\ task' = [task EXCEPT ![k] = "unsignaled"]
  /\ UNCHANGED <<class, rx_lock, event_fd, ready, triggered, pc>>

Signaled_Unbounded == event_fd + 1
Signaled_Wraps == (event_fd + 1) % (MaxCount + 1)
\* An eventfd whose counter is at its limit refuses the write and stays readable.
Signaled == IF event_fd < MaxCount THEN event_fd + 1 ELSE event_fd

signal_eventfd(k) ==
  /\ task[k] = "unsignaled"
  /\ event_fd' = Signaled
  /\ task' = [task EXCEPT ![k] = "idle"]
  /\ UNCHANGED <<class, channel, rx_lock, ready, pushed, triggered, pc>>

\* The dropped runtime ends a task where it awaits, never between the push of a
\* completion and its signal.
StopTask(k) ==
  /\ class = "dropping"
  /\ task[k] = "idle"
  /\ task' = [task EXCEPT ![k] = "stopped"]
  /\ UNCHANGED <<class, channel, rx_lock, event_fd, ready, pushed, triggered, pc>>

-----------------------------------------------------------------------------
(* The progress loop of an NA thread.                                      *)

At(t, step) == class = "running" /\ pc[t] = step
Goto(t, step) == pc' = [pc EXCEPT ![t] = step]

\* NA_Trigger runs one callback, or finds none left.
Trigger(t) ==
  /\ At(t, "trigger")
  /\ \/ /\ ready > 0
        /\ ready' = ready - 1
        /\ triggered' = triggered + 1
        /\ UNCHANGED pc
     \/ /\ ready = 0
        /\ Goto(t, "try_wait")
        /\ UNCHANGED <<ready, triggered>>
  /\ UNCHANGED <<class, channel, rx_lock, event_fd, pushed, task>>

\* A receive that finds its message in a stash, and a cancel, add their completion
\* to the context without the channel and the eventfd.
CompleteDirectly(t) ==
  /\ At(t, "trigger")
  /\ pushed < MaxCompletions
  /\ ready' = ready + 1
  /\ pushed' = pushed + 1
  /\ UNCHANGED <<class, channel, rx_lock, event_fd, triggered, task, pc>>

poll_try_wait(t) ==
  /\ At(t, "try_wait")
  /\ rx_lock = Unlocked
  /\ Goto(t, IF channel = 0 THEN "wait" ELSE "poll")
  /\ UNCHANGED <<class, channel, rx_lock, event_fd, ready, pushed, triggered, task>>

\* epoll_wait on the fd of poll_get_fd returns because the fd is readable ...
Woken(t) ==
  /\ At(t, "wait")
  /\ event_fd > 0
  /\ Goto(t, "poll")
  /\ UNCHANGED <<class, channel, rx_lock, event_fd, ready, pushed, triggered, task>>

\* ... or because its timeout has passed.
TimedOut(t) ==
  /\ At(t, "wait")
  /\ Goto(t, "trigger")
  /\ UNCHANGED <<class, channel, rx_lock, event_fd, ready, pushed, triggered, task>>

\* poll reads the eventfd before it looks at the channel.
drain_eventfd(t) ==
  /\ At(t, "poll")
  /\ event_fd' = 0
  /\ Goto(t, "drained")
  /\ UNCHANGED <<class, channel, rx_lock, ready, pushed, triggered, task>>

LockRx(t) ==
  /\ At(t, "drained")
  /\ rx_lock = Unlocked
  /\ rx_lock' = t
  /\ Goto(t, "recv")
  /\ UNCHANGED <<class, channel, event_fd, ready, pushed, triggered, task>>

MoreToRecv_One == FALSE
\* poll moves completions from the channel to the context until it is empty.
MoreToRecv == channel > 0

TryRecv(t) ==
  /\ At(t, "recv")
  /\ channel > 0
  /\ channel' = channel - 1
  /\ ready' = ready + 1
  /\ UNCHANGED <<class, rx_lock, event_fd, pushed, triggered, task, pc>>

PollReturns(t) ==
  /\ At(t, "recv")
  /\ ~ MoreToRecv
  /\ rx_lock' = Unlocked
  /\ Goto(t, "trigger")
  /\ UNCHANGED <<class, channel, event_fd, ready, pushed, triggered, task>>

-----------------------------------------------------------------------------
(* finalize, called when no thread is inside the plugin any more.          *)

\* Shutdown is sent, the command loop is joined and the runtime dropped: this
\* waits for the tasks to stop.
FinalizeBegin ==
  /\ class = "running"
  /\ \A t \in Threads : pc[t] \in {"trigger", "try_wait"}
  /\ class' = "dropping"
  /\ UNCHANGED <<channel, rx_lock, event_fd, ready, pushed, triggered, task, pc>>

RuntimeDropped_Early == TRUE
RuntimeDropped == \A k \in Tasks : task[k] = "stopped"

close_eventfd ==
  /\ class = "dropping"
  /\ RuntimeDropped
  /\ class' = "closed"
  /\ UNCHANGED <<channel, rx_lock, event_fd, ready, pushed, triggered, task, pc>>

-----------------------------------------------------------------------------
TaskStep(k) == PushCompletion(k) \/ signal_eventfd(k) \/ StopTask(k)

LoopStep(t) ==
  \/ Trigger(t)
  \/ poll_try_wait(t)
  \/ Woken(t)
  \/ drain_eventfd(t)
  \/ LockRx(t)
  \/ TryRecv(t)
  \/ PollReturns(t)

Next ==
  \/ \E k \in Tasks : TaskStep(k)
  \/ \E t \in Threads : LoopStep(t) \/ CompleteDirectly(t) \/ TimedOut(t)
  \/ FinalizeBegin
  \/ close_eventfd

Spec == Init /\ [][Next]_vars

\* A thread keeps running its loop, and a task that has pushed a completion goes
\* on to its signal without awaiting anything.  Nothing is assumed of timeouts.
Fairness ==
  /\ \A t \in Threads : WF_vars(LoopStep(t))
  /\ \A k \in Tasks : WF_vars(signal_eventfd(k))

FairSpec == Spec /\ Fairness

-----------------------------------------------------------------------------
Draining(t) == pc[t] \in {"drained", "recv"}

\* No wakeup is lost: while an item is in the completion channel the eventfd is
\* readable, or a task is about to signal it, or a thread that has drained it has
\* yet to empty the channel.  It rests on push-before-signal in the tasks and on
\* drain-before-receive in poll.
NoLostWakeup ==
  channel > 0 =>
    \/ event_fd > 0
    \/ \E k \in Tasks : task[k] = "unsignaled"
    \/ \E t \in Threads : Draining(t)

\* No callback is stranded: while completions wait in the context some thread is
\* still in poll or in its trigger loop, and will run them before it blocks.
\* Direct completions do not signal the eventfd and rely on this.
NoStrandedCallback ==
  ready > 0 => \E t \in Threads : pc[t] \in {"recv", "trigger"}

\* finalize closes the eventfd only when no task can write to it any more.
NoSignalAfterClose ==
  class = "closed" => \A k \in Tasks : task[k] = "stopped"

\* Every completion's callback is eventually run, without the help of a timeout,
\* as long as the endpoint is not finalized.
CallbacksRun ==
  \A n \in 1 .. MaxCompletions : pushed >= n ~> triggered >= n \/ class # "running"
=============================================================================
