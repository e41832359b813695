----------------------------- MODULE WorkerPool ------------------------------
(***************************************************************************)
(* The generic pool of worker threads: tasks are dealt round-robin into    *)
(* the workers' bounded channels, each worker processes what it receives,  *)
(* and dropping the pool joins the threads.  The owner of the pool drops   *)
(* it when its own channel is closed.                                      *)
(*                                                                         *)
(* Pinning threads to cores is left out.                                   *)
(***************************************************************************)
EXTENDS Naturals, Sequences

CONSTANTS
    NumWorkers,
    BufferSize,   \* buffer_size
    NumTasks      \* bound: tasks sent before the pool is dropped

Worker == 0..(NumWorkers - 1)

VARIABLES
    next_worker,
    tasks_sent,
    channel,        \* worker -> tasks waiting in its channel
    thread,         \* worker -> "recv", "process" or "ended"
    worker_txs,     \* the senders still owned by the pool
    worker_handles, \* the threads not yet joined, in order
    pool            \* "open", "dropping" or "dropped"

wpVars == <<next_worker, tasks_sent, channel, thread, worker_txs, worker_handles, pool>>

\* new_with_core_offset: channels first, then the threads.
WPInit ==
    /\ next_worker = 0
    /\ tasks_sent = 0
    /\ channel = [w \in Worker |-> << >>]
    /\ thread = [w \in Worker |-> "recv"]
    /\ worker_txs = Worker
    /\ worker_handles = [i \in 1..NumWorkers |-> i - 1]
    /\ pool = "open"

send_task ==
    /\ pool = "open"
    /\ tasks_sent < NumTasks
    /\ Len(channel[next_worker]) < BufferSize
    /\ channel' = [channel EXCEPT ![next_worker] = Append(@, tasks_sent + 1)]
    /\ tasks_sent' = tasks_sent + 1
    /\ next_worker' = (next_worker + 1) % NumWorkers
    /\ UNCHANGED <<thread, worker_txs, worker_handles, pool>>

\* worker_loop: the next task, or the end when no sender is left.
Receive(w) ==
    /\ thread[w] = "recv"
    /\ \/ /\ channel[w] # << >>
          /\ channel' = [channel EXCEPT ![w] = Tail(@)]
          /\ thread' = [thread EXCEPT ![w] = "process"]
       \/ /\ channel[w] = << >>
          /\ w \notin worker_txs
          /\ thread' = [thread EXCEPT ![w] = "ended"]
          /\ channel' = channel
    /\ UNCHANGED <<next_worker, tasks_sent, worker_txs, worker_handles, pool>>

Process(w) ==
    /\ thread[w] = "process"
    /\ thread' = [thread EXCEPT ![w] = "recv"]
    /\ UNCHANGED <<next_worker, tasks_sent, channel, worker_txs, worker_handles, pool>>

\* The owner is through with the pool.
DropPool ==
    /\ pool = "open"
    /\ pool' = "dropping"
    /\ UNCHANGED <<next_worker, tasks_sent, channel, thread, worker_txs, worker_handles>>

\* drop: join one thread after the other.
Join ==
    /\ pool = "dropping"
    /\ worker_handles # << >>
    /\ thread[Head(worker_handles)] = "ended"
    /\ worker_handles' = Tail(worker_handles)
    /\ UNCHANGED <<next_worker, tasks_sent, channel, thread, worker_txs, pool>>

\* The fields are dropped when drop has returned, the senders among them.
DropFields ==
    /\ pool = "dropping"
    /\ worker_handles = << >>
    /\ worker_txs' = {}
    /\ pool' = "dropped"
    /\ UNCHANGED <<next_worker, tasks_sent, channel, thread, worker_handles>>

WPNext ==
    \/ send_task \/ DropPool \/ Join \/ DropFields
    \/ \E w \in Worker : Receive(w) \/ Process(w)

(***************************************************************************)
(* Every thread runs when it can, tasks end, and so does the dropping      *)
(* thread as far as it can.                                                *)
(***************************************************************************)
WPFairness ==
    /\ \A w \in Worker : WF_wpVars(Receive(w)) /\ WF_wpVars(Process(w))
    /\ WF_wpVars(Join) /\ WF_wpVars(DropFields)

WPSpec == WPInit /\ [][WPNext]_wpVars /\ WPFairness

-----------------------------------------------------------------------------

(***************************************************************************)
(* "Wait for all worker threads to finish": dropping the pool ends, with   *)
(* every thread joined and every task that was sent processed.             *)
(***************************************************************************)
DropWaitsForThreads ==
    (pool = "dropping") ~>
        /\ pool = "dropped"
        /\ \A w \in Worker : thread[w] = "ended" /\ channel[w] = << >>

=============================================================================
