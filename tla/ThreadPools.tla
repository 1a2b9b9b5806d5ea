---------------------------- MODULE ThreadPools ----------------------------
(***************************************************************************)
(* main.c: the accept loop (main), the pool of client threads              *)
(* (handle_client) that serve a connection each, the pool of worker        *)
(* threads (handle_worker) that execute their commands, the two queues     *)
(* between them, the per-task mutex and condition variable over which a    *)
(* result comes back, and the SIGINT handler.                              *)
(*                                                                         *)
(* Mutexes and condition variables are read off the program counters.  A   *)
(* pool thread holds its queue's mutex between finding the queue empty and *)
(* pthread_cond_wait (pc "sleep"), and is in the wait set of the queue's   *)
(* condition variable from then (pc "asleep") until it is woken and has to *)
(* take the mutex again (pc "check").  Critical sections that read nothing *)
(* the handler writes are one action, guarded by the mutex being free.     *)
(*                                                                         *)
(* What a command does is in other modules; here it is executed or not.    *)
(* A definition no action uses is a plausible slip in the definition that  *)
(* follows it, kept to show that a property would notice.                  *)
(***************************************************************************)
EXTENDS Integers, Sequences, FiniteSets

CONSTANTS ClientThreads, WorkerThreads, \* the pools: ThreadPoolSize of each
          Conns,        \* the connections that may arrive
          Tasks,        \* the addresses malloc gives tasks
          MaxCmds,      \* bound: how many valid commands a connection sends
          MaxRefused,   \* bound: how many commands are not valid
          Sigint,       \* whether SIGINT may be delivered
          OutOfMemory,  \* whether malloc may fail in queue_enqueue
          NoConn, NoTask

ASSUME PoolsAssumption ==
  /\ IsFiniteSet(ClientThreads) /\ IsFiniteSet(WorkerThreads)
  /\ ClientThreads \cap WorkerThreads = {}
ASSUME DataAssumption ==
  /\ NoConn \notin Conns /\ NoTask \notin Tasks
  /\ MaxCmds \in Nat /\ MaxRefused \in Nat
  /\ Sigint \in BOOLEAN /\ OutOfMemory \in BOOLEAN

VARIABLES ServerRunning, ClntQue, TaskQue,
          main, client_fd,   \* the main thread: where it is, whom it accepted
          handler,           \* the SIGINT handler, which runs on main's stack
          pc,                \* the pool threads
          Gahak,             \* the connection a client thread serves
          kaam,              \* the task pointer of a client or worker thread
          conn, done,        \* the tasks in memory: conn[k] = NoConn is free
          link,              \* the sockets
          sent, executed, answered,  \* the valid commands of each connection
          refused            \* the tasks of the commands that were not valid

taskVars  == <<conn, done>>
countVars == <<sent, executed, answered, refused>>
mainVars  == <<main, client_fd, handler, ServerRunning>>
vars == <<mainVars, ClntQue, TaskQue, pc, Gahak, kaam, taskVars, link,
          countVars>>

Threads == ClientThreads \cup WorkerThreads

Init == /\ ServerRunning = TRUE
        /\ ClntQue = <<>> /\ TaskQue = <<>>
        /\ main = "accept" /\ client_fd = NoConn
        /\ handler = "none"
        /\ pc    = [t \in Threads |-> "check"]
        /\ Gahak = [t \in ClientThreads |-> NoConn]
        /\ kaam  = [t \in Threads |-> NoTask]
        /\ conn  = [k \in Tasks |-> NoConn]
        /\ done  = [k \in Tasks |-> FALSE]
        /\ link  = [c \in Conns |-> "new"]
        /\ sent     = [c \in Conns |-> 0]
        /\ executed = [c \in Conns |-> 0]
        /\ answered = [c \in Conns |-> 0]
        /\ refused  = {}

-----------------------------------------------------------------------------
(* Mutexes and condition variables.                                        *)

(* The mutex of a pool's queue is not held across actions. *)
Free(pool) == \A t \in pool : pc[t] # "sleep"

(* The waiters on a pool's condition variable. *)
Asleep(pool) == {t \in pool : pc[t] = "asleep"}

(* The threads pthread_cond_signal may wake, as sets of one; a signal      *)
(* nobody waits for is lost.                                               *)
Signalled(waiting) == IF waiting = {} THEN {{}} ELSE {{t} : t \in waiting}

(* A woken thread has to take its mutex again and re-test its condition. *)
Resumed(t) == IF pc[t] = "blocked" THEN "await" ELSE "check"

Wake(woken) == [t \in Threads |-> IF t \in woken THEN Resumed(t) ELSE pc[t]]

Goto(t, from, to) == /\ pc[t] = from
                     /\ pc' = [pc EXCEPT ![t] = to]

(* A task's mutex m: a worker holds it from done = 1 to the unlock after   *)
(* the signal; a client thread never keeps it across actions.              *)
MutexIgnored(k) == TRUE
MutexFree(k)    == \A w \in WorkerThreads : ~(pc[w] = "signal" /\ kaam[w] = k)

EnqueuedUnfilled(que, x) ==
  {Append(que, x)} \cup (IF OutOfMemory THEN {Append(que, NoTask)} ELSE {})

(* queue_enqueue, which may fail; both callers ignore the result. *)
Enqueued(que, x) == {Append(que, x)} \cup (IF OutOfMemory THEN {que} ELSE {})
-----------------------------------------------------------------------------
(* The main thread; it stands still while the handler runs on its stack.   *)

HandlerIdle == handler \in {"none", "returned"}

Accept(c) == /\ main = "accept" /\ HandlerIdle /\ ServerRunning
             /\ link[c] = "new"
             /\ link' = [link EXCEPT ![c] = "open"]
             /\ client_fd' = c
             /\ main' = "enqueue"
             /\ UNCHANGED <<handler, ServerRunning, ClntQue, TaskQue, pc,
                            Gahak, kaam, taskVars, countVars>>

SignalClients == Signalled(Asleep(ClientThreads))

(* Lock, queue_enqueue, signal, unlock. *)
EnqueueClient ==
  /\ main = "enqueue" /\ HandlerIdle
  /\ Free(ClientThreads)
  /\ ClntQue' \in Enqueued(ClntQue, client_fd)
  /\ \E woken \in SignalClients : pc' = Wake(woken)
  /\ main' = "accept" /\ client_fd' = NoConn
  /\ UNCHANGED <<handler, ServerRunning, TaskQue, Gahak, kaam, taskVars, link,
                 countVars>>

(* while(ServerRunning) ends; pthread_join on one pool, then on the other, *)
(* then the queues and the lock table are destroyed.                       *)
MainStep(from, to, cond) ==
  /\ main = from /\ HandlerIdle /\ cond
  /\ main' = to
  /\ UNCHANGED <<client_fd, handler, ServerRunning, ClntQue, TaskQue, pc,
                 Gahak, kaam, taskVars, link, countVars>>

ExitedFirst(pool) == \E t \in pool : pc[t] = "exited"
Exited(pool)      == \A t \in pool : pc[t] = "exited"

StopAccepting == MainStep("accept", "join_clients", ~ServerRunning)
JoinClients   == MainStep("join_clients", "join_workers", Exited(ClientThreads))
JoinWorkers   == MainStep("join_workers", "done", Exited(WorkerThreads))
-----------------------------------------------------------------------------
(* handle_signint.  It takes no mutex, so it runs between any two steps of *)
(* the pool threads; signal() of C99 resets the handler, so it runs once.  *)

HandlerStop == /\ Sigint /\ handler = "none" /\ main \in {"accept", "enqueue"}
               /\ ServerRunning' = FALSE
               /\ handler' = "wake_clients"
               /\ UNCHANGED <<main, client_fd, ClntQue, TaskQue, pc, Gahak,
                              kaam, taskVars, link, countVars>>

Broadcast(from, to, pool) ==
  /\ handler = from
  /\ handler' = to
  /\ pc' = Wake(Asleep(pool))
  /\ UNCHANGED <<main, client_fd, ServerRunning, ClntQue, TaskQue, Gahak, kaam,
                 taskVars, link, countVars>>

WakeClients == Broadcast("wake_clients", "wake_workers", ClientThreads)
WakeWorkers == Broadcast("wake_workers", "returned", WorkerThreads)
-----------------------------------------------------------------------------
(* Waiting for work: the same loop over its own queue in either pool.      *)

(* The queue is empty and the server runs: on to pthread_cond_wait, with   *)
(* the mutex held ...                                                      *)
FindEmpty(t, pool, que) == /\ Free(pool)
                           /\ que = <<>> /\ ServerRunning
                           /\ Goto(t, "check", "sleep")

(* ... which releases it and joins the wait set in one step.               *)
Sleep(t) == Goto(t, "sleep", "asleep")

LeaveAtOnce(t, pool, que) == /\ Free(pool)
                             /\ ~ServerRunning
                             /\ Goto(t, "check", "exited")

Leave(t, pool, que) == /\ Free(pool)
                       /\ que = <<>> /\ ~ServerRunning
                       /\ Goto(t, "check", "exited")

WaitForWork(t, pool, que) ==
  /\ FindEmpty(t, pool, que) \/ Sleep(t) \/ Leave(t, pool, que)
  /\ UNCHANGED <<mainVars, ClntQue, TaskQue, Gahak, kaam, taskVars, link,
                 countVars>>

(* pthread_cond_wait may return without a signal. *)
WakeSpuriously(t) ==
  /\ pc[t] \in {"asleep", "blocked"}
  /\ pc' = Wake({t})
  /\ UNCHANGED <<mainVars, ClntQue, TaskQue, Gahak, kaam, taskVars, link,
                 countVars>>
-----------------------------------------------------------------------------
(* handle_client *)

ClientPeeked   == ClntQue
ClientDequeued == Tail(ClntQue)

DequeueClient(t) ==
  /\ Free(ClientThreads) /\ ClntQue # <<>>
  /\ Goto(t, "check", "auth")
  /\ Gahak' = [Gahak EXCEPT ![t] = Head(ClntQue)]
  /\ ClntQue' = ClientDequeued
  /\ UNCHANGED <<mainVars, TaskQue, kaam, taskVars, link, countVars>>

(* signup_login returns true. *)
Authenticate(t) ==
  /\ Goto(t, "auth", "session")
  /\ UNCHANGED <<mainVars, ClntQue, TaskQue, Gahak, kaam, taskVars, link,
                 countVars>>

LeftOpen(c) == link
Closed(c)   == [link EXCEPT ![c] = "closed"]

(* Authentication fails or the client disconnects: close(client_fd).       *)
HangUp(t) ==
  /\ pc[t] \in {"auth", "session"}
  /\ pc' = [pc EXCEPT ![t] = "check"]
  /\ link' = Closed(Gahak[t])
  /\ Gahak' = [Gahak EXCEPT ![t] = NoConn]
  /\ UNCHANGED <<mainVars, ClntQue, TaskQue, kaam, taskVars, countVars>>

NotCleared(k) == done
Cleared(k)    == [done EXCEPT ![k] = FALSE]

(* malloc and memset of the task of a command just received. *)
AllocateTask(k, c) == /\ conn[k] = NoConn
                      /\ conn' = [conn EXCEPT ![k] = c]
                      /\ done' = Cleared(k)

(* A valid command is received and its task filled in. *)
TakeCommand(t) ==
  /\ Goto(t, "session", "submit")
  /\ sent[Gahak[t]] < MaxCmds
  /\ sent' = [sent EXCEPT ![Gahak[t]] = @ + 1]
  /\ \E k \in Tasks : /\ AllocateTask(k, Gahak[t])
                      /\ kaam' = [kaam EXCEPT ![t] = k]
  /\ UNCHANGED <<mainVars, ClntQue, TaskQue, Gahak, link, executed, answered,
                 refused>>

(* One that is not valid is answered on the spot; its task is in nobody's  *)
(* hands from then on, and is never freed.                                 *)
RefuseCommand(t) ==
  /\ pc[t] = "session"
  /\ Cardinality(refused) < MaxRefused
  /\ \E k \in Tasks : /\ AllocateTask(k, Gahak[t])
                      /\ refused' = refused \cup {k}
  /\ UNCHANGED <<mainVars, ClntQue, TaskQue, pc, Gahak, kaam, link, sent,
                 executed, answered>>

SignalNoWorker == {{}}
SignalWorkers  == Signalled(Asleep(WorkerThreads))

(* Lock TaskQueMutuex, queue_enqueue, signal, unlock. *)
Submit(t) ==
  /\ pc[t] = "submit"
  /\ Free(WorkerThreads)
  /\ TaskQue' \in Enqueued(TaskQue, kaam[t])
  /\ \E woken \in SignalWorkers : pc' = [Wake(woken) EXCEPT ![t] = "await"]
  /\ UNCHANGED <<mainVars, ClntQue, Gahak, kaam, taskVars, link, countVars>>

(* Lock m, then while(!done) wait. *)
AwaitResult(t) ==
  /\ MutexFree(kaam[t])
  /\ Goto(t, "await", IF done[kaam[t]] THEN "respond" ELSE "blocked")
  /\ UNCHANGED <<mainVars, ClntQue, TaskQue, Gahak, kaam, taskVars, link,
                 countVars>>

(* The response is sent and the task destroyed and freed. *)
Respond(t) ==
  /\ Goto(t, "respond", "session")
  /\ answered' = [answered EXCEPT ![Gahak[t]] = @ + 1]
  /\ conn' = [conn EXCEPT ![kaam[t]] = NoConn]
  /\ kaam' = [kaam EXCEPT ![t] = NoTask]
  /\ UNCHANGED <<mainVars, ClntQue, TaskQue, Gahak, done, link, sent, executed,
                 refused>>

ClientStep(t) == \/ WaitForWork(t, ClientThreads, ClntQue)
                 \/ DequeueClient(t) \/ Submit(t) \/ AwaitResult(t) \/ Respond(t)
-----------------------------------------------------------------------------
(* handle_worker *)

TaskPeeked   == TaskQue
TaskDequeued == Tail(TaskQue)

DequeueTask(w) ==
  /\ Free(WorkerThreads) /\ TaskQue # <<>>
  /\ Goto(w, "check", "execute")
  /\ kaam' = [kaam EXCEPT ![w] = Head(TaskQue)]
  /\ TaskQue' = TaskDequeued
  /\ UNCHANGED <<mainVars, ClntQue, Gahak, taskVars, link, countVars>>

(* execute_task, for the client named in the task. *)
Execute(w) ==
  /\ Goto(w, "execute", "finish")
  /\ executed' = [executed EXCEPT ![conn[kaam[w]]] = @ + 1]
  /\ UNCHANGED <<mainVars, ClntQue, TaskQue, Gahak, kaam, taskVars, link, sent,
                 answered, refused>>

MarkDone(w) ==
  /\ MutexFree(kaam[w])
  /\ Goto(w, "finish", "signal")
  /\ done' = [done EXCEPT ![kaam[w]] = TRUE]
  /\ UNCHANGED <<mainVars, ClntQue, TaskQue, Gahak, kaam, conn, link, countVars>>

NobodyBlockedOn(k) == {}
BlockedOn(k) == {t \in ClientThreads : pc[t] = "blocked" /\ kaam[t] = k}

(* Signal the task's cv and unlock its m: the worker is done with it. *)
SignalDone(w) ==
  /\ pc[w] = "signal"
  /\ \E woken \in Signalled(BlockedOn(kaam[w])) :
       pc' = [Wake(woken) EXCEPT ![w] = "check"]
  /\ kaam' = [kaam EXCEPT ![w] = NoTask]
  /\ UNCHANGED <<mainVars, ClntQue, TaskQue, Gahak, taskVars, link, countVars>>

WorkerStep(w) == \/ WaitForWork(w, WorkerThreads, TaskQue)
                 \/ DequeueTask(w) \/ Execute(w) \/ MarkDone(w) \/ SignalDone(w)
-----------------------------------------------------------------------------
ServerStep == \/ EnqueueClient \/ StopAccepting \/ JoinClients \/ JoinWorkers
              \/ WakeClients \/ WakeWorkers

(* What clients do: connect, log in, send commands, disconnect. *)
ClientAct(t) == \/ Authenticate(t) \/ HangUp(t)
                \/ TakeCommand(t) \/ RefuseCommand(t)

Next == \/ ServerStep \/ HandlerStop
        \/ \E c \in Conns : Accept(c)
        \/ \E t \in ClientThreads : ClientStep(t) \/ ClientAct(t)
        \/ \E w \in WorkerThreads : WorkerStep(w)
        \/ \E t \in Threads : WakeSpuriously(t)

Spec == Init /\ [][Next]_vars

(* The scheduler runs every thread that can run, and clients that have     *)
(* nothing more to ask disconnect; nobody has to connect, log in, send a   *)
(* command or press Ctrl-C.                                                *)
FairSpec == /\ Spec
            /\ WF_vars(ServerStep)
            /\ \A t \in ClientThreads : WF_vars(ClientStep(t)) /\ WF_vars(HangUp(t))
            /\ \A w \in WorkerThreads : WF_vars(WorkerStep(w))
-----------------------------------------------------------------------------
(* Properties                                                              *)

ClientPlaces == {"check", "sleep", "asleep", "exited", "auth", "session",
                 "submit", "await", "blocked", "respond"}
WorkerPlaces == {"check", "sleep", "asleep", "exited", "execute", "finish",
                 "signal"}

TypeOK ==
  /\ ServerRunning \in BOOLEAN
  /\ main \in {"accept", "enqueue", "join_clients", "join_workers", "done"}
  /\ handler \in {"none", "wake_clients", "wake_workers", "returned"}
  /\ client_fd \in Conns \cup {NoConn}
  /\ ClntQue \in Seq(Conns) /\ TaskQue \in Seq(Tasks)
  /\ pc \in [Threads -> ClientPlaces \cup WorkerPlaces]
  /\ \A t \in ClientThreads : pc[t] \in ClientPlaces
  /\ \A w \in WorkerThreads : pc[w] \in WorkerPlaces
  /\ Gahak \in [ClientThreads -> Conns \cup {NoConn}]
  /\ kaam \in [Threads -> Tasks \cup {NoTask}]
  /\ conn \in [Tasks -> Conns \cup {NoConn}]
  /\ done \in [Tasks -> BOOLEAN]
  /\ link \in [Conns -> {"new", "open", "closed"}]
  /\ sent \in [Conns -> Nat] /\ executed \in [Conns -> Nat]
  /\ answered \in [Conns -> Nat]
  /\ refused \subseteq Tasks

Working(w) == pc[w] \in {"execute", "finish", "signal"}

Awaiting(t) == pc[t] \in {"await", "blocked"}

(* A task pointer the workers can reach, in TaskQue or in a worker's hands,*)
(* is a task whose client thread still waits for it: the client's free     *)
(* never overtakes the worker's signal and unlock.                         *)
NoUseAfterFree ==
  \A k \in Tasks :
    \/ \E i \in 1 .. Len(TaskQue) : TaskQue[i] = k
    \/ \E w \in WorkerThreads : Working(w) /\ kaam[w] = k
    => \E t \in ClientThreads : Awaiting(t) /\ kaam[t] = k

(* A task is handed to one worker: it is once in the queue or with one     *)
(* worker, never twice or both.                                            *)
HandedOnce ==
  /\ \A i, j \in 1 .. Len(TaskQue) : TaskQue[i] = TaskQue[j] => i = j
  /\ \A v, w \in WorkerThreads :
       Working(v) /\ Working(w) /\ kaam[v] = kaam[w] => v = w
  /\ \A i \in 1 .. Len(TaskQue) :
       ~\E w \in WorkerThreads : Working(w) /\ kaam[w] = TaskQue[i]

(* Unless queue_enqueue ran out of memory, a command that is waited for is *)
(* queued, with a worker, or done: nobody waits on a cv for nothing.       *)
NoLostTask ==
  \A t \in ClientThreads : Awaiting(t) /\ ~OutOfMemory =>
    \/ \E i \in 1 .. Len(TaskQue) : TaskQue[i] = kaam[t]
    \/ \E w \in WorkerThreads : Working(w) /\ kaam[w] = kaam[t]
    \/ done[kaam[t]] /\ pc[t] = "await"

(* Threads that will look at their queue before they sleep again. *)
Awake(pool) == {t \in pool : pc[t] = "check"}

(* No wake-up is lost while the server runs: as long as a thread of a pool *)
(* sleeps, there is a woken one for every entry of the queue.              *)
WorkConserving ==
  /\ Asleep(ClientThreads) # {} => Len(ClntQue) <= Cardinality(Awake(ClientThreads))
  /\ Asleep(WorkerThreads) # {} => Len(TaskQue) <= Cardinality(Awake(WorkerThreads))

(* Every accepted connection is in one place only: with main, once in      *)
(* ClntQue or with one client thread.  It stays open exactly that long,    *)
(* unless queue_enqueue failed.                                            *)
Holders(c) == {<<"queue", i>> : i \in {j \in 1 .. Len(ClntQue) : ClntQue[j] = c}}
         \cup {<<"thread", t>> : t \in {u \in ClientThreads : Gahak[u] = c}}
         \cup {<<"main", h>> : h \in {client_fd} \cap {c}}

OneHolder ==
  \A c \in Conns :
    /\ Cardinality(Holders(c)) <= 1
    /\ Holders(c) # {} => link[c] = "open"
    /\ link[c] = "open" /\ ~OutOfMemory => Holders(c) # {}

(* When both pools have been joined and main destroys the queues, no task  *)
(* is queued, and none is still allocated but those of refused commands,   *)
(* which nobody frees: whatever was under way at SIGINT was seen through.  *)
NothingLeftBehind ==
  main = "done" => /\ TaskQue = <<>>
                   /\ \A k \in Tasks : conn[k] # NoConn => k \in refused

(* Commands of a connection are executed once each, in turn, and answered  *)
(* after they were executed.                                               *)
CS == INSTANCE CommandService
ImplementsCommandService == CS!ServiceSpec

FewSpuriousWakeups == <>[][~\E t \in Threads : WakeSpuriously(t)]_vars

(* Every command submitted is answered (README: the worker signals cv, the *)
(* client thread then sends the response), after SIGINT too as long as a   *)
(* worker is left, however many have gone.  (One submitted after the last  *)
(* of them left, main.c:268, is not.)                                      *)
Submitted(c) == \E t \in ClientThreads : Awaiting(t) /\ Gahak[t] = c

CommandsAnswered ==
  FewSpuriousWakeups => \A c \in Conns :
    (Submitted(c) /\ ~Exited(WorkerThreads)) ~> (sent[c] = answered[c])

(* A client thread waits for a command when no worker is left. *)
Stranded(t) == Awaiting(t) /\ Exited(WorkerThreads)

(* Every connection that main has queued gets a client thread, which       *)
(* serves it to the end, when clients that have nothing more to ask        *)
(* disconnect; after SIGINT too as long as a client thread is left, unless *)
(* one of them is stranded.                                                *)
ConnectionsServed ==
  FewSpuriousWakeups => \A c \in Conns :
    (link[c] = "open" /\ client_fd # c /\ ~Exited(ClientThreads))
      ~> (link[c] = "closed" \/ \E t \in ClientThreads : Stranded(t))

(* After SIGINT every worker thread ends, so that main can join it ("All   *)
(* threads joined").                                                       *)
WorkersStop ==
  FewSpuriousWakeups => (handler = "returned") ~> Exited(WorkerThreads)
=============================================================================
