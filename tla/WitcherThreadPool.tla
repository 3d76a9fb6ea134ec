--------------------------- MODULE WitcherThreadPool ---------------------------
(***************************************************************************)
(* The thread pool of the parallel engine                                 *)
(* (src/replay/engines/witcherutils/WitcherParallelUtils.py) and its       *)
(* client, witcher_parallel.py with -useTPL 1 (main and                    *)
(* WitcherParallelEngine.run).                                             *)
(*                                                                         *)
(* The pool is a server thread and thread_count worker threads sharing a   *)
(* queue.Queue.  The client sends commands over a Unix socket: one task    *)
(* per transaction (threadPoolDispatchTask), then "Barrier"                *)
(* (threadPoolWait), on which the server puts one None per worker in the   *)
(* queue and waits on a condition until the workers, having each taken a   *)
(* None and met at a threading.Barrier, notify it; it then answers         *)
(* "BarrierComplete".  "Quit" (threadPoolQuit) makes the server wait for   *)
(* the queue to drain and stop and join every worker in turn.              *)
(*                                                                         *)
(* Abstractions.  The client's connections are handled one at a time in   *)
(* the order they are made, so the socket is a FIFO of whole commands; a   *)
(* task is its transaction number and running it (os.system of            *)
(* witcher_parallel_unit.py) one step.  A worker that finds the queue      *)
(* empty loops without changing anything, which is a stuttering step.      *)
(***************************************************************************)
EXTENDS Naturals, Sequences

CONSTANTS
    NThreads,   \* thread_count = cpu_count() - 1
    NTx         \* len(atomic_write_ops_tx_ranges): one task per transaction

Threads == 1..NThreads
None == 0                      \* the None a worker reads as a barrier marker
Tasks == 1..NTx

\* A command on the socket: a task for transaction tx, "Barrier" or "Quit".
Cmd(c, tx) == [cmd |-> c, tx |-> tx]

VARIABLES
    inbox,      \* commands sent on the socket and not yet received
    reply,      \* "BarrierComplete" sent and not yet read by the client
    cpc,        \* the client: main / WitcherParallelEngine.run
    nextTx,     \* the loop index of WitcherParallelEngine.run
    spc,        \* the server thread: _operateThreadPool
    nonesPut,   \* Nones the server has put for the current "Barrier"
    stopIdx,    \* the worker _terminateThreadPool is stopping
    queue,      \* witcherTaskQueue
    unfinished, \* witcherTaskQueue.unfinished_tasks (put + 1, task_done - 1)
    wpc,        \* every worker thread's place in witcherWorkerThread.run
    job,        \* the job a worker holds
    stop,       \* every worker's stop event
    ran         \* the tasks that have run (history)

clientVars == <<inbox, reply, cpc, nextTx>>
serverVars == <<spc, nonesPut, stopIdx>>
workerVars == <<queue, unfinished, wpc, job, stop, ran>>
vars == <<clientVars, serverVars, workerVars>>

Init ==
    /\ inbox = <<>> /\ reply = FALSE
    /\ cpc = "start" /\ nextTx = 1
    /\ spc = "init" /\ nonesPut = 0 /\ stopIdx = 1
    /\ queue = <<>> /\ unfinished = 0
    /\ wpc = [w \in Threads |-> "unborn"]
    /\ job = [w \in Threads |-> None]
    /\ stop = [w \in Threads |-> FALSE]
    /\ ran = {}

(***************************************************************************)
(* The client.                                                             *)
(***************************************************************************)
\* main: poll getThreadPoolStatus until a connect succeeds, that is until
\* the server listens.
ClientStart ==
    /\ cpc = "start" /\ spc # "init"
    /\ cpc' = "dispatch"
    /\ UNCHANGED <<inbox, reply, nextTx, serverVars, workerVars>>

\* run: threadPoolDispatchTask for every transaction.
ClientDispatch ==
    /\ cpc = "dispatch" /\ nextTx <= NTx
    /\ inbox' = Append(inbox, Cmd("task", nextTx))
    /\ nextTx' = nextTx + 1
    /\ UNCHANGED <<reply, cpc, serverVars, workerVars>>

\* threadPoolWait: send "Barrier", then block in recv.
ClientWait ==
    /\ cpc = "dispatch" /\ nextTx > NTx
    /\ inbox' = Append(inbox, Cmd("Barrier", 0))
    /\ cpc' = "waiting"
    /\ UNCHANGED <<reply, nextTx, serverVars, workerVars>>

\* recv returns "BarrierComplete"; the epilogue reads the results.
ClientReply ==
    /\ cpc = "waiting" /\ reply
    /\ reply' = FALSE /\ cpc' = "quit"
    /\ UNCHANGED <<inbox, nextTx, serverVars, workerVars>>

\* main: threadPoolQuit, and return.
ClientQuit ==
    /\ cpc = "quit"
    /\ inbox' = Append(inbox, Cmd("Quit", 0))
    /\ cpc' = "done"
    /\ UNCHANGED <<reply, nextTx, serverVars, workerVars>>

(***************************************************************************)
(* The server thread.                                                      *)
(***************************************************************************)
\* _operateThreadPool: start every worker, then listen.
ServerStart ==
    /\ spc = "init"
    /\ spc' = "accept"
    /\ wpc' = [w \in Threads |-> "loop"]
    /\ UNCHANGED <<clientVars, nonesPut, stopIdx, queue, unfinished, job, stop, ran>>

Received(c) == spc = "accept" /\ inbox # <<>> /\ Head(inbox).cmd = c

\* A task: witcherTaskQueue.put(task).
ServerTask ==
    /\ Received("task")
    /\ queue' = Append(queue, Head(inbox).tx)
    /\ unfinished' = unfinished + 1
    /\ inbox' = Tail(inbox)
    /\ UNCHANGED <<reply, cpc, nextTx, serverVars, wpc, job, stop, ran>>

ServerBarrier ==
    /\ Received("Barrier")
    /\ inbox' = Tail(inbox)
    /\ spc' = "putNone" /\ nonesPut' = 0
    /\ UNCHANGED <<reply, cpc, nextTx, stopIdx, workerVars>>

\* One witcherTaskQueue.put(None) of the loop over range(thread_count).
ServerPutNone ==
    /\ spc = "putNone" /\ nonesPut < NThreads
    /\ queue' = Append(queue, None)
    /\ unfinished' = unfinished + 1
    /\ nonesPut' = nonesPut + 1
    /\ UNCHANGED <<clientVars, spc, stopIdx, wpc, job, stop, ran>>

\* with threadWaitCondition: threadWaitCondition.wait()
ServerWait ==
    /\ spc = "putNone" /\ nonesPut = NThreads
    /\ spc' = "wait"
    /\ UNCHANGED <<clientVars, nonesPut, stopIdx, workerVars>>

\* barrier_conn.sendall("BarrierComplete"), once notified.
ServerReply ==
    /\ spc = "woken"
    /\ reply' = TRUE /\ spc' = "accept"
    /\ UNCHANGED <<inbox, cpc, nextTx, nonesPut, stopIdx, workerVars>>

ServerQuit ==
    /\ Received("Quit")
    /\ inbox' = Tail(inbox)
    /\ spc' = "drain"
    /\ UNCHANGED <<reply, cpc, nextTx, nonesPut, stopIdx, workerVars>>

\* _terminateThreadPool: witcherTaskQueue.join() returns once every item
\* put has been marked done.
ServerDrained ==
    /\ spc = "drain" /\ unfinished = 0
    /\ spc' = "stop"
    /\ UNCHANGED <<clientVars, nonesPut, stopIdx, workerVars>>

\* t.stop_thread(): set the worker's stop event ...
ServerStop ==
    /\ spc = "stop"
    /\ stop' = [stop EXCEPT ![stopIdx] = TRUE]
    /\ spc' = "join"
    /\ UNCHANGED <<clientVars, nonesPut, stopIdx, queue, unfinished, wpc, job, ran>>

\* ... and join it, then the next one; after the last the server returns.
ServerJoin ==
    /\ spc = "join" /\ wpc[stopIdx] = "exited"
    /\ IF stopIdx = NThreads THEN spc' = "exit" /\ UNCHANGED stopIdx
                             ELSE spc' = "stop" /\ stopIdx' = stopIdx + 1
    /\ UNCHANGED <<clientVars, nonesPut, workerVars>>

(***************************************************************************)
(* A worker thread: witcherWorkerThread.run.                               *)
(***************************************************************************)
\* while not stop: ...
WorkerExit(w) ==
    /\ wpc[w] = "loop" /\ stop[w]
    /\ wpc' = [wpc EXCEPT ![w] = "exited"]
    /\ UNCHANGED <<clientVars, serverVars, queue, unfinished, job, stop, ran>>

\* ... if qsize() != 0: (another worker may take the item before get)
WorkerSeesItem(w) ==
    /\ wpc[w] = "loop" /\ ~stop[w] /\ queue # <<>>
    /\ wpc' = [wpc EXCEPT ![w] = "get"]
    /\ UNCHANGED <<clientVars, serverVars, queue, unfinished, job, stop, ran>>

\* job = get_task(), blocking while the queue is empty; a None makes the
\* worker wait at taskQueueMemoryBarrier.
WorkerGet(w) ==
    /\ wpc[w] = "get" /\ queue # <<>>
    /\ job' = [job EXCEPT ![w] = Head(queue)]
    /\ queue' = Tail(queue)
    /\ wpc' = [wpc EXCEPT ![w] = IF Head(queue) = None THEN "barrier" ELSE "exec"]
    /\ UNCHANGED <<clientVars, serverVars, unfinished, stop, ran>>

\* exec_task: os.system(witcher_parallel_unit.py -tx k).
WorkerExec(w) ==
    /\ wpc[w] = "exec"
    /\ ran' = ran \cup {job[w]}
    /\ wpc' = [wpc EXCEPT ![w] = "taskdone"]
    /\ UNCHANGED <<clientVars, serverVars, queue, unfinished, job, stop>>

\* Mutant of BarrierTrip for the mutation check: a barrier of one party
\* (threading.Barrier(1)) releases each worker as soon as it arrives.
BarrierTripOneParty ==
    /\ \E w \in Threads : wpc[w] = "barrier"
    /\ wpc' = [w \in Threads |-> IF wpc[w] = "barrier" THEN "notify" ELSE wpc[w]]
    /\ UNCHANGED <<clientVars, serverVars, queue, unfinished, job, stop, ran>>

\* threading.Barrier(thread_count): the last party to arrive releases all.
BarrierTrip ==
    /\ \A w \in Threads : wpc[w] = "barrier"
    /\ wpc' = [w \in Threads |-> "notify"]
    /\ UNCHANGED <<clientVars, serverVars, queue, unfinished, job, stop, ran>>

\* with threadWaitCondition: notify_all() -- it wakes the server only if
\* the server is already waiting.
WorkerNotify(w) ==
    /\ wpc[w] = "notify"
    /\ spc' = IF spc = "wait" THEN "woken" ELSE spc
    /\ wpc' = [wpc EXCEPT ![w] = "taskdone"]
    /\ UNCHANGED <<clientVars, nonesPut, stopIdx, queue, unfinished, job, stop, ran>>

\* witcherTaskQueue.task_done()
WorkerTaskDone(w) ==
    /\ wpc[w] = "taskdone"
    /\ unfinished' = unfinished - 1
    /\ wpc' = [wpc EXCEPT ![w] = "loop"]
    /\ job' = [job EXCEPT ![w] = None]
    /\ UNCHANGED <<clientVars, serverVars, queue, stop, ran>>

ClientStep ==
    ClientStart \/ ClientDispatch \/ ClientWait \/ ClientReply \/ ClientQuit

ServerStep ==
    \/ ServerStart \/ ServerTask \/ ServerBarrier \/ ServerPutNone
    \/ ServerWait \/ ServerReply \/ ServerQuit \/ ServerDrained
    \/ ServerStop \/ ServerJoin

WorkerStep(w) ==
    \/ WorkerExit(w) \/ WorkerSeesItem(w) \/ WorkerGet(w) \/ WorkerExec(w)
    \/ WorkerNotify(w) \/ WorkerTaskDone(w)

Next ==
    \/ ClientStep \/ ServerStep \/ BarrierTrip
    \/ \E w \in Threads : WorkerStep(w)

\* Every thread runs when it can: the client, the server and the workers
\* are OS threads, and nothing in the code keeps one from being scheduled.
Spec ==
    /\ Init /\ [][Next]_vars
    /\ WF_vars(ClientStep) /\ WF_vars(ServerStep) /\ WF_vars(BarrierTrip)
    /\ \A w \in Threads : WF_vars(WorkerStep(w))

(***************************************************************************)
(* Properties                                                              *)
(***************************************************************************)
\* The variables keep their types.
TypeOK ==
    /\ inbox \in Seq([cmd : {"task", "Barrier", "Quit"}, tx : Tasks \cup {0}])
    /\ reply \in BOOLEAN
    /\ cpc \in {"start", "dispatch", "waiting", "quit", "done"}
    /\ nextTx \in 1..NTx + 1
    /\ spc \in {"init", "accept", "putNone", "wait", "woken", "drain", "stop",
                "join", "exit"}
    /\ nonesPut \in 0..NThreads /\ stopIdx \in Threads
    /\ queue \in Seq(Tasks \cup {None})
    /\ unfinished \in 0..NTx + NThreads
    /\ wpc \in [Threads -> {"unborn", "loop", "get", "exec", "barrier",
                              "notify", "taskdone", "exited"}]
    /\ job \in [Threads -> Tasks \cup {None}]
    /\ stop \in [Threads -> BOOLEAN]
    /\ ran \subseteq Tasks

\* WitcherParallelEngine.run calls its epilogue, which reads every
\* transaction's result file, as soon as threadPoolWait returns.  So once
\* "BarrierComplete" is sent, every dispatched task must have run: the
\* Nones queue behind the tasks, a worker finishes its task before it takes
\* a None, and the barrier needs every worker.
BarrierCompletesAfterEveryTask ==
    (reply \/ cpc \in {"quit", "done"}) => ran = Tasks

\* witcher_parallel.py finishes: main gets "BarrierComplete", sends "Quit"
\* and the pool's server thread stops and joins every worker, so the
\* process exits.
PoolRunCompletes == <>(cpc = "done" /\ spc = "exit")
====
