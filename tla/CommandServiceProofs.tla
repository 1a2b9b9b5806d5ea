------------------------ MODULE CommandServiceProofs ------------------------
(***************************************************************************)
(* What the pools promise a client: its connection is with one holder at a *)
(* time, its command is not forgotten, nothing of it is left at shutdown,  *)
(* and the counts of its commands move as CommandService says.             *)
(***************************************************************************)
EXTENDS ThreadPoolsProofs

InQueue(c)  == \E i \in 1 .. Len(ClntQue) : ClntQue[i] = c
WithMain(c) == main = "enqueue" /\ client_fd = c
Served(c)   == \E t \in ClientThreads : Serving(t) /\ Gahak[t] = c

(* A connection is in one place.                                           *)
Placed ==
  /\ main # "enqueue" => client_fd = NoConn
  /\ \A t \in ClientThreads : ~Serving(t) => Gahak[t] = NoConn
  /\ \A i, j \in 1 .. Len(ClntQue) : ClntQue[i] = ClntQue[j] => i = j
  /\ \A t, u \in ClientThreads :
       Serving(t) /\ Serving(u) /\ Gahak[t] = Gahak[u] => t = u
  /\ \A c \in Conns : ~(InQueue(c) /\ Served(c))
  /\ \A c \in Conns : WithMain(c) => ~InQueue(c) /\ ~Served(c)

(* It is open as long as it is there, and not longer unless it was lost.   *)
Linked ==
  \A c \in Conns :
    /\ InQueue(c) \/ WithMain(c) \/ Served(c) => link[c] = "open"
    /\ link[c] = "open" /\ ~OutOfMemory => InQueue(c) \/ WithMain(c) \/ Served(c)

(* done stays set until the client thread has freed the task.              *)
DoneKept == /\ \A t \in ClientThreads : pc[t] = "respond" => done[kaam[t]]
            /\ \A w \in WorkerThreads : pc[w] = "signal" => done[kaam[w]]

(* Memory in use is a task some client thread will free, or that of a      *)
(* refused command.                                                        *)
Allocated == \A k \in Tasks :
  conn[k] # NoConn => \/ \E t \in ClientThreads : Owning(t) /\ kaam[t] = k
                      \/ k \in refused

Joined == main \in {"join_workers", "done"} => Exited(ClientThreads)

(* A command was executed when its worker is about to set done, or has.    *)
Performed(k) == done[k] \/ \E w \in WorkerThreads : pc[w] = "finish" /\ kaam[w] = k

(* A client thread with a task is one command ahead of its answers; the    *)
(* command of any other connection has been executed and answered.         *)
Turns ==
  /\ \A t \in ClientThreads : Owning(t) =>
       /\ sent[Gahak[t]] = answered[Gahak[t]] + 1
       /\ executed[Gahak[t]] = IF Performed(kaam[t]) THEN sent[Gahak[t]]
                               ELSE answered[Gahak[t]]
  /\ \A c \in Conns :
       (\A t \in ClientThreads : Owning(t) => Gahak[t] # c)
         => sent[c] = executed[c] /\ executed[c] = answered[c]

-----------------------------------------------------------------------------
(* What a step does to the threads.  Most steps of main, of the handler    *)
(* and of the waiting loops move no thread to another stage.               *)
Undisturbed ==
  /\ SameStage
  /\ UNCHANGED <<TaskQue, kaam, Gahak, taskVars, countVars>>
  /\ \A t \in ClientThreads : pc[t] \in {"await", "exited"} => pc'[t] = pc[t]

LEMMA WakesUndisturbed ==
  ASSUME TypeOK, NEW woken, pc' = Wake(woken),
         \A t \in Threads \cap woken : pc[t] \in {"asleep", "blocked"},
         UNCHANGED <<TaskQue, kaam, Gahak, taskVars, countVars>>
  PROVE  Undisturbed
<1>1. SameStage
  BY WakeStage
<1>2. \A t \in Threads : \/ pc'[t] = pc[t]
                         \/ pc[t] = "asleep"  /\ pc'[t] = "check"
                         \/ pc[t] = "blocked" /\ pc'[t] = "await"
  BY WakeFacts
<1> QED
  BY <1>1, <1>2 DEF Undisturbed, Threads

WaitingStep ==
  \/ ServerStep \/ HandlerStop
  \/ \E c \in Conns : Accept(c)
  \/ \E t \in ClientThreads : WaitForWork(t, ClientThreads, ClntQue)
  \/ \E w \in WorkerThreads : WaitForWork(w, WorkerThreads, TaskQue)
  \/ \E t \in Threads : WakeSpuriously(t)

LEMMA WaitingStepFacts ==
  ASSUME TypeOK, WaitingStep
  PROVE  Undisturbed
<1>1. UNCHANGED <<TaskQue, kaam, Gahak, taskVars, countVars>>
  BY DEF WaitingStep, ServerStep, EnqueueClient, StopAccepting, JoinClients,
         JoinWorkers, MainStep, WakeClients, WakeWorkers, Broadcast, HandlerStop,
         Accept, WaitForWork, WakeSpuriously
<1>2. CASE EnqueueClient
  <2>1. PICK woken \in SignalClients : pc' = Wake(woken)
    BY <1>2 DEF EnqueueClient
  <2>2. \A t \in Threads \cap woken : pc[t] \in {"asleep", "blocked"}
    BY <2>1, SignalledFacts DEF SignalClients, Asleep
  <2> QED
    BY <1>1, <2>1, <2>2, WakesUndisturbed
<1>3. CASE WakeClients \/ WakeWorkers
  <2>1. PICK pool : pc' = Wake(Asleep(pool))
    BY <1>3 DEF WakeClients, WakeWorkers, Broadcast
  <2> QED
    BY <1>1, <2>1, WakesUndisturbed DEF Asleep
<1>4. CASE \/ StopAccepting \/ JoinClients \/ JoinWorkers \/ HandlerStop
           \/ \E c \in Conns : Accept(c)
  <2>1. pc' = pc
    BY <1>4 DEF StopAccepting, JoinClients, JoinWorkers, MainStep, HandlerStop,
                Accept
  <2> QED
    BY <1>1, <2>1 DEF Undisturbed, SameStage, Serving, Owning, Awaiting, Working
<1>5. CASE \/ \E t \in ClientThreads : WaitForWork(t, ClientThreads, ClntQue)
           \/ \E w \in WorkerThreads : WaitForWork(w, WorkerThreads, TaskQue)
  <2>1. PICK t \in Threads, to \in {"sleep", "asleep", "exited"} :
          pc[t] \in {"check", "sleep"} /\ pc' = [pc EXCEPT ![t] = to]
    BY <1>5 DEF WaitForWork, FindEmpty, Sleep, Leave, Goto, Threads
  <2> QED
    BY <1>1, <2>1 DEF Undisturbed, SameStage, Serving, Owning, Awaiting, Working,
                      TypeOK, Threads
<1>6. ASSUME NEW t \in Threads, WakeSpuriously(t)
      PROVE  Undisturbed
  BY <1>1, <1>6, WakesUndisturbed DEF WakeSpuriously
<1> QED
  BY <1>2, <1>3, <1>4, <1>5, <1>6 DEF WaitingStep, ServerStep

(* A client thread moves on alone, ...                                     *)
ClientMoves(t, from, to) ==
  /\ pc[t] = from /\ pc'[t] = to
  /\ \A u \in ClientThreads : u # t => pc'[u] = pc[u]
  /\ \A w \in WorkerThreads : pc'[w] = pc[w]

(* ... and so does a worker.                                               *)
WorkerMoves(w, from, to) ==
  /\ pc[w] = from /\ pc'[w] = to
  /\ \A v \in WorkerThreads : v # w => pc'[v] = pc[v]
  /\ \A t \in ClientThreads : pc'[t] = pc[t]

LEMMA MovesFacts ==
  ASSUME TypeOK, NEW t \in Threads, NEW from, NEW to, Goto(t, from, to)
  PROVE  /\ t \in ClientThreads => ClientMoves(t, from, to)
         /\ t \in WorkerThreads => WorkerMoves(t, from, to)
BY PoolsAssumption DEF Goto, TypeOK, Threads, ClientMoves, WorkerMoves

(* Submitting may wake a worker; the task is appended to the queue, unless *)
(* there was no memory for a node.                                         *)
LEMMA SubmitFacts ==
  ASSUME HInv, NEW t \in ClientThreads, Submit(t)
  PROVE  /\ pc[t] = "submit" /\ pc'[t] = "await"
         /\ \A u \in ClientThreads : u # t => pc'[u] = pc[u]
         /\ \A w \in WorkerThreads : \/ pc'[w] = pc[w]
                                     \/ pc[w] = "asleep" /\ pc'[w] = "check"
         /\ \/ TaskQue' = TaskQue /\ OutOfMemory
            \/ /\ Len(TaskQue) \in Nat /\ Len(TaskQue') = Len(TaskQue) + 1
               /\ \A i \in 1 .. Len(TaskQue) : TaskQue'[i] = TaskQue[i]
               /\ TaskQue'[Len(TaskQue) + 1] = kaam[t]
<1>1. PICK woken \in SignalWorkers : pc' = [Wake(woken) EXCEPT ![t] = "await"]
  BY DEF Submit
<1>2. woken \subseteq Asleep(WorkerThreads)
  BY <1>1, SignalledFacts DEF SignalWorkers
<1>3. \A u \in Threads : pc'[u] = IF u = t THEN "await" ELSE Wake(woken)[u]
  BY <1>1 DEF Wake, Threads
<1>4. \A u \in Threads : \/ Wake(woken)[u] = pc[u]
                         \/ /\ u \in woken /\ pc[u] = "asleep"
                            /\ Wake(woken)[u] = "check"
  BY <1>2 DEF Wake, Resumed, Asleep
<1>5. t \notin WorkerThreads /\ \A u \in ClientThreads : u \notin woken
  BY <1>2, PoolsAssumption DEF Asleep
<1>6. kaam[t] \in Tasks /\ TaskQue \in Seq(Tasks) /\ pc[t] = "submit"
  BY DEF Submit, HInv, TypeOK, Handoff, Locals, Owning
<1>7. \/ TaskQue' = TaskQue /\ OutOfMemory
      \/ TaskQue' = Append(TaskQue, kaam[t])
  BY DEF Submit, Enqueued
<1> QED
  BY <1>3, <1>4, <1>5, <1>6, <1>7, AppendFacts DEF Threads

(* The signal on a task's cv wakes the one client thread that may wait for *)
(* it.                                                                     *)
LEMMA SignalDoneFacts ==
  ASSUME HInv, NEW w \in WorkerThreads, SignalDone(w)
  PROVE  /\ pc[w] = "signal" /\ pc'[w] = "check"
         /\ \A v \in WorkerThreads : v # w => pc'[v] = pc[v] /\ kaam'[v] = kaam[v]
         /\ \A t \in ClientThreads :
              /\ kaam'[t] = kaam[t]
              /\ pc'[t] = pc[t] \/ (pc[t] = "blocked" /\ pc'[t] = "await")
              /\ kaam[t] = kaam[w] => pc'[t] # "blocked"
<1>1. PICK woken \in Signalled(BlockedOn(kaam[w])) :
        pc' = [Wake(woken) EXCEPT ![w] = "check"]
  BY DEF SignalDone
<1>2. /\ pc[w] = "signal" /\ kaam' = [kaam EXCEPT ![w] = NoTask]
      /\ w \in Threads /\ w \notin ClientThreads
      /\ kaam \in [Threads -> Tasks \cup {NoTask}]
  BY PoolsAssumption DEF SignalDone, Threads, HInv, TypeOK
<1>3. \A u \in Threads : pc'[u] = IF u = w THEN "check" ELSE Wake(woken)[u]
  BY <1>1 DEF Wake
<1>4. woken \subseteq BlockedOn(kaam[w])
  BY <1>1, SignalledFacts
<1>5. \A u \in Threads :
        Wake(woken)[u] = IF u \in woken THEN "await" ELSE pc[u]
  BY <1>4 DEF Wake, Resumed, BlockedOn
<1>6. \A t \in ClientThreads :
        pc[t] = "blocked" /\ kaam[t] = kaam[w] => t \in woken
  <2> SUFFICES ASSUME NEW t \in ClientThreads, pc[t] = "blocked",
                      kaam[t] = kaam[w]
               PROVE  t \in woken
    OBVIOUS
  <2>1. PICK u \in BlockedOn(kaam[w]) : woken = {u}
    BY <1>1, SignalledFacts DEF BlockedOn
  <2> QED
    BY <2>1 DEF BlockedOn, HInv, Handoff, Owners, Owning
<1>7. \A v \in WorkerThreads : v \notin woken
  BY <1>4, PoolsAssumption DEF BlockedOn
<1>8. \A v \in WorkerThreads : v # w => pc'[v] = pc[v] /\ kaam'[v] = kaam[v]
  BY <1>2, <1>3, <1>5, <1>7 DEF Threads
<1>9. \A t \in ClientThreads :
        /\ kaam'[t] = kaam[t]
        /\ pc'[t] = pc[t] \/ (pc[t] = "blocked" /\ pc'[t] = "await")
        /\ kaam[t] = kaam[w] => pc'[t] # "blocked"
  <2> SUFFICES ASSUME NEW t \in ClientThreads
               PROVE  /\ kaam'[t] = kaam[t]
                      /\ pc'[t] = pc[t] \/ (pc[t] = "blocked" /\ pc'[t] = "await")
                      /\ kaam[t] = kaam[w] => pc'[t] # "blocked"
    OBVIOUS
  <2>1. t \in Threads /\ t # w
    BY <1>2 DEF Threads
  <2>2. kaam'[t] = kaam[t]
    BY <1>2, <2>1
  <2>3. pc'[t] = IF t \in woken THEN "await" ELSE pc[t]
    BY <1>3, <1>5, <2>1
  <2>4. t \in woken => pc[t] = "blocked"
    BY <1>4 DEF BlockedOn
  <2>5. CASE t \in woken
    BY <2>2, <2>3, <2>4, <2>5
  <2>6. CASE t \notin woken
    BY <1>6, <2>2, <2>3, <2>6
  <2> QED
    BY <2>5, <2>6
<1> QED
  BY <1>2, <1>3, <1>8, <1>9

-----------------------------------------------------------------------------
(* One holder for a connection.  Most steps leave it where it is.          *)
Seated == /\ UNCHANGED <<ClntQue, client_fd, Gahak, link>>
          /\ main' = "enqueue" <=> main = "enqueue"
          /\ \A t \in ClientThreads : Serving(t)' <=> Serving(t)

LEMMA SeatedSteps ==
  ASSUME HInv, Next, ~EnqueueClient, \A c \in Conns : ~Accept(c),
         \A t \in ClientThreads : ~DequeueClient(t) /\ ~HangUp(t)
  PROVE  Seated
<1>1. UNCHANGED <<ClntQue, client_fd, Gahak, link>>
  BY DEF Next, ServerStep, StopAccepting, JoinClients, JoinWorkers, MainStep,
         WakeClients, WakeWorkers, Broadcast, HandlerStop, WaitForWork,
         WakeSpuriously, ClientStep, WorkerStep, ClientAct, Authenticate,
         TakeCommand, RefuseCommand, Submit, AwaitResult, Respond, DequeueTask,
         Execute, MarkDone, SignalDone, mainVars
<1>2. main' = "enqueue" <=> main = "enqueue"
  BY DEF Next, ServerStep, StopAccepting, JoinClients, JoinWorkers, MainStep,
         WakeClients, WakeWorkers, Broadcast, HandlerStop, WaitForWork,
         WakeSpuriously, ClientStep, WorkerStep, ClientAct, Authenticate,
         TakeCommand, RefuseCommand, Submit, AwaitResult, Respond, DequeueTask,
         Execute, MarkDone, SignalDone, mainVars
<1>3. \A t \in ClientThreads : Serving(t)' <=> Serving(t)
  <2>1. CASE WaitingStep
    BY <2>1, WaitingStepFacts DEF HInv, Undisturbed, SameStage
  <2>2. ASSUME NEW t \in ClientThreads,
               Authenticate(t) \/ TakeCommand(t) \/ AwaitResult(t) \/ Respond(t)
        PROVE  \A u \in ClientThreads : Serving(u)' <=> Serving(u)
    BY <2>2, MovesFacts DEF Authenticate, TakeCommand, AwaitResult, Respond,
       ClientMoves, HInv, Serving, Owning, Threads
  <2>3. ASSUME NEW t \in ClientThreads, Submit(t)
        PROVE  \A u \in ClientThreads : Serving(u)' <=> Serving(u)
    BY <2>3, SubmitFacts DEF Serving, Owning
  <2>4. ASSUME NEW w \in WorkerThreads, DequeueTask(w) \/ Execute(w) \/ MarkDone(w)
        PROVE  \A u \in ClientThreads : Serving(u)' <=> Serving(u)
    BY <2>4, MovesFacts DEF DequeueTask, Execute, MarkDone, WorkerMoves, HInv,
       Serving, Owning, Threads
  <2>5. ASSUME NEW w \in WorkerThreads, SignalDone(w)
        PROVE  \A u \in ClientThreads : Serving(u)' <=> Serving(u)
    BY <2>5, SignalDoneFacts DEF Serving, Owning
  <2>6. ASSUME NEW t \in ClientThreads, RefuseCommand(t)
        PROVE  \A u \in ClientThreads : Serving(u)' <=> Serving(u)
    BY <2>6 DEF RefuseCommand, Serving, Owning
  <2> QED
    BY <2>1, <2>2, <2>3, <2>4, <2>5, <2>6
       DEF Next, ClientStep, ClientAct, WorkerStep, WaitingStep
<1> QED
  BY <1>1, <1>2, <1>3 DEF Seated

PInv == HInv /\ Placed /\ Linked

LEMMA SeatedInv ==
  ASSUME PInv, Seated
  PROVE  Placed' /\ Linked'
<1>1. \A c : /\ InQueue(c)' <=> InQueue(c)
             /\ WithMain(c)' <=> WithMain(c)
             /\ Served(c)' <=> Served(c)
  BY DEF Seated, InQueue, WithMain, Served
<1>2. Placed'
  BY <1>1 DEF PInv, Placed, Seated
<1>3. Linked'
  BY <1>1 DEF PInv, Linked, Seated
<1> QED
  BY <1>2, <1>3

LEMMA AcceptPlaced ==
  ASSUME PInv, NEW c \in Conns, Accept(c)
  PROVE  Placed' /\ Linked'
<1>1. /\ main = "accept" /\ main' = "enqueue" /\ client_fd' = c
      /\ link[c] = "new" /\ link' = [link EXCEPT ![c] = "open"]
      /\ UNCHANGED <<ClntQue, Gahak, pc>>
  BY DEF Accept
<1>2. \A d \in Conns : link'[d] = IF d = c THEN "open" ELSE link[d]
  BY <1>1 DEF PInv, HInv, TypeOK
<1>3. \A d \in Conns : /\ InQueue(d)' <=> InQueue(d)
                       /\ Served(d)' <=> Served(d)
                       /\ WithMain(d)' <=> d = c
                       /\ ~WithMain(d)
  BY <1>1 DEF InQueue, Served, WithMain, Serving, Owning
<1>4. ~InQueue(c) /\ ~Served(c)
  BY <1>1 DEF PInv, Linked
<1>5. Placed'
  BY <1>1, <1>3, <1>4 DEF PInv, Placed, Serving, Owning
<1>6. Linked'
  BY <1>2, <1>3 DEF PInv, Linked
<1> QED
  BY <1>5, <1>6

LEMMA EnqueueClientPlaced ==
  ASSUME PInv, EnqueueClient
  PROVE  Placed' /\ Linked'
<1> DEFINE n == Len(ClntQue)
<1>1. /\ main = "enqueue" /\ main' = "accept" /\ client_fd \in Conns
      /\ client_fd' = NoConn /\ UNCHANGED <<Gahak, link>>
      /\ ClntQue \in Seq(Conns)
  BY DEF EnqueueClient, PInv, HInv, TypeOK, Handoff, Locals
<1>2. \A t \in ClientThreads : Serving(t)' <=> Serving(t)
  BY WaitingStepFacts DEF WaitingStep, ServerStep, PInv, HInv, Undisturbed,
                          SameStage
<1>3. \/ ClntQue' = ClntQue /\ OutOfMemory
      \/ /\ n \in Nat /\ Len(ClntQue') = n + 1
         /\ \A i \in 1 .. n : ClntQue'[i] = ClntQue[i]
         /\ ClntQue'[n + 1] = client_fd
  <2>1. \/ ClntQue' = ClntQue /\ OutOfMemory
        \/ ClntQue' = Append(ClntQue, client_fd)
    BY DEF EnqueueClient, Enqueued
  <2> QED
    BY <1>1, <2>1, AppendFacts
<1>4. \A c \in Conns : /\ Served(c)' <=> Served(c)
                       /\ ~WithMain(c)'
                       /\ WithMain(c) <=> c = client_fd
                       /\ InQueue(c)' => InQueue(c) \/ c = client_fd
                       /\ InQueue(c) => InQueue(c)'
                       /\ c = client_fd /\ ~OutOfMemory => InQueue(c)'
  <2> SUFFICES ASSUME NEW c \in Conns
               PROVE  /\ InQueue(c)' => InQueue(c) \/ c = client_fd
                      /\ InQueue(c) => InQueue(c)'
                      /\ c = client_fd /\ ~OutOfMemory => InQueue(c)'
    BY <1>1, <1>2 DEF Served, WithMain
  <2> QED
    BY <1>1, <1>3 DEF InQueue
<1>5. ~InQueue(client_fd) /\ ~Served(client_fd)
  BY <1>1 DEF PInv, Placed, WithMain
<1>6. \A i, j \in 1 .. Len(ClntQue') : ClntQue'[i] = ClntQue'[j] => i = j
  BY <1>3, <1>5 DEF PInv, Placed, InQueue
<1>7. Placed'
  BY <1>1, <1>2, <1>4, <1>5, <1>6 DEF PInv, Placed
<1>8. Linked'
  BY <1>1, <1>4 DEF PInv, Linked
<1> QED
  BY <1>7, <1>8

LEMMA DequeueClientPlaced ==
  ASSUME PInv, NEW t \in ClientThreads, DequeueClient(t)
  PROVE  Placed' /\ Linked'
<1> DEFINE n == Len(ClntQue)
           c == Head(ClntQue)
<1>1. ClntQue \in Seq(Conns) /\ ClntQue # <<>>
  BY DEF DequeueClient, PInv, HInv, TypeOK
<1>2. /\ c \in Conns /\ c = ClntQue[1]
      /\ n \in Nat \ {0} /\ Len(ClntQue') = n - 1
      /\ \A i \in 1 .. n - 1 : ClntQue'[i] = ClntQue[i + 1]
  BY <1>1, TailFacts DEF DequeueClient, ClientDequeued
<1>3. /\ ClientMoves(t, "check", "auth")
      /\ UNCHANGED <<main, client_fd, link>>
      /\ Gahak' = [Gahak EXCEPT ![t] = c]
  BY MovesFacts DEF DequeueClient, PInv, HInv, Threads, mainVars
<1>4. \A u \in ClientThreads :
        /\ Gahak'[u] = IF u = t THEN c ELSE Gahak[u]
        /\ Serving(u)' <=> Serving(u) \/ u = t
        /\ ~Serving(t)
  BY <1>3 DEF PInv, HInv, TypeOK, ClientMoves, Serving, Owning
<1> HIDE DEF c
<1>5. InQueue(c) /\ ~Served(c)
  BY <1>2 DEF InQueue, PInv, Placed
<1>6. \A i \in 1 .. n - 1 : /\ i + 1 \in 1 .. n /\ 1 \in 1 .. n
                            /\ ClntQue'[i] # c
  BY <1>2 DEF PInv, Placed
<1>7. \A d \in Conns : /\ InQueue(d)' <=> InQueue(d) /\ d # c
                       /\ Served(d)' <=> Served(d) \/ d = c
                       /\ WithMain(d)' <=> WithMain(d)
  <2> SUFFICES ASSUME NEW d \in Conns
               PROVE  /\ InQueue(d)' <=> InQueue(d) /\ d # c
                      /\ Served(d)' <=> Served(d) \/ d = c
                      /\ WithMain(d)' <=> WithMain(d)
    OBVIOUS
  <2>1. InQueue(d)' => InQueue(d) /\ d # c
    BY <1>2, <1>6 DEF InQueue
  <2>2. ASSUME NEW i \in 1 .. n, ClntQue[i] = d, d # c
        PROVE  \E j \in 1 .. n - 1 : ClntQue'[j] = d
    <3>1. i - 1 \in 1 .. n - 1 /\ (i - 1) + 1 = i
      BY <1>2, <2>2
    <3>2. ClntQue'[i - 1] = ClntQue[i]
      BY <1>2, <3>1
    <3> QED
      BY <2>2, <3>1, <3>2
  <2>3. InQueue(d) /\ d # c => InQueue(d)'
    BY <1>2, <2>2 DEF InQueue
  <2>4. Served(d)' <=> Served(d) \/ d = c
    BY <1>4 DEF Served
  <2>5. WithMain(d)' <=> WithMain(d)
    BY <1>3 DEF WithMain
  <2> QED
    BY <2>1, <2>3, <2>4, <2>5
<1>8. \A i, j \in 1 .. n - 1 : ClntQue'[i] = ClntQue'[j] => i = j
  BY <1>2, <1>6 DEF PInv, Placed
<1>9. \A u, v \in ClientThreads :
        Serving(u)' /\ Serving(v)' /\ Gahak'[u] = Gahak'[v] => u = v
  BY <1>4, <1>5 DEF PInv, Placed, Served
<1>10. Placed'
  BY <1>2, <1>3, <1>4, <1>5, <1>7, <1>8, <1>9 DEF PInv, Placed
<1>11. Linked'
  BY <1>2, <1>3, <1>5, <1>7 DEF PInv, Linked
<1> QED
  BY <1>10, <1>11

LEMMA HangUpPlaced ==
  ASSUME PInv, NEW t \in ClientThreads, HangUp(t)
  PROVE  Placed' /\ Linked'
<1> DEFINE c == Gahak[t]
<1>1. /\ pc[t] \in {"auth", "session"} /\ pc' = [pc EXCEPT ![t] = "check"]
      /\ c \in Conns /\ link' = [link EXCEPT ![c] = "closed"]
      /\ Gahak' = [Gahak EXCEPT ![t] = NoConn]
      /\ UNCHANGED <<main, client_fd, ClntQue>>
  BY DEF HangUp, Closed, PInv, HInv, Handoff, Locals, Serving, mainVars
<1>2. /\ \A u \in ClientThreads :
           /\ Gahak'[u] = IF u = t THEN NoConn ELSE Gahak[u]
           /\ Serving(u)' <=> Serving(u) /\ u # t
      /\ Serving(t)
      /\ \A d \in Conns : link'[d] = IF d = c THEN "closed" ELSE link[d]
  BY <1>1 DEF PInv, HInv, TypeOK, Serving, Owning, Threads
<1>3. Served(c)
  BY <1>2 DEF Served
<1>4. \A d \in Conns : /\ InQueue(d)' <=> InQueue(d)
                       /\ WithMain(d)' <=> WithMain(d)
                       /\ Served(d)' <=> Served(d) /\ d # c
  <2>1. \A d \in Conns : Served(d)' <=> Served(d) /\ d # c
    BY <1>2 DEF Served, PInv, Placed
  <2> QED
    BY <1>1, <2>1 DEF InQueue, WithMain
<1>5. Placed'
  BY <1>1, <1>2, <1>4 DEF PInv, Placed
<1>6. Linked'
  BY <1>1, <1>2, <1>3, <1>4 DEF PInv, Linked, Placed
<1> QED
  BY <1>5, <1>6

LEMMA InitPInv == Init => PInv
<1> SUFFICES ASSUME Init PROVE PInv
  OBVIOUS
<1>1. HInv
  BY InitHInv
<1>2. Placed /\ Linked
  BY DEF Init, Placed, Linked, InQueue, WithMain, Served, Serving, Owning,
         Threads
<1> QED
  BY <1>1, <1>2 DEF PInv

LEMMA StepPInv == PInv /\ [Next]_vars => PInv'
<1> SUFFICES ASSUME PInv, [Next]_vars PROVE Placed' /\ Linked'
  BY StepHInv DEF PInv
<1>1. CASE UNCHANGED vars
  <2>1. Seated
    BY <1>1 DEF vars, mainVars, Seated, Serving, Owning
  <2> QED
    BY <2>1, SeatedInv
<1>2. CASE Next
  <2>1. CASE EnqueueClient
    BY <2>1, EnqueueClientPlaced
  <2>2. CASE \/ \E c \in Conns : Accept(c)
             \/ \E t \in ClientThreads : DequeueClient(t) \/ HangUp(t)
    BY <2>2, AcceptPlaced, DequeueClientPlaced, HangUpPlaced
  <2>3. CASE /\ ~EnqueueClient /\ \A c \in Conns : ~Accept(c)
             /\ \A t \in ClientThreads : ~DequeueClient(t) /\ ~HangUp(t)
    BY <1>2, <2>3, SeatedSteps, SeatedInv DEF PInv
  <2> QED
    BY <2>1, <2>2, <2>3
<1> QED
  BY <1>1, <1>2

(* A set any two elements of which are equal has at most one.              *)
LEMMA AtMostOne ==
  ASSUME NEW S, \A g, h \in S : g = h
  PROVE  Cardinality(S) <= 1
<1>1. CASE S = {}
  BY <1>1, FS_EmptySet
<1>2. ASSUME NEW h \in S
      PROVE  Cardinality(S) <= 1
  <2>1. S = {h}
    OBVIOUS
  <2>2. Cardinality({h}) = 1
    BY FS_Singleton
  <2> QED
    BY <2>1, <2>2
<1> QED
  BY <1>1, <1>2

LEMMA HoldersFacts ==
  ASSUME PInv, NEW c \in Conns
  PROVE  /\ Holders(c) # {} <=> InQueue(c) \/ WithMain(c) \/ Served(c)
         /\ \A g, h \in Holders(c) : g = h
<1>1. \A t \in ClientThreads : Gahak[t] = c => Serving(t)
  BY DataAssumption DEF PInv, Placed
<1>2. client_fd = c <=> WithMain(c)
  BY DataAssumption DEF PInv, Placed, WithMain
<1> DEFINE Queue  == {i \in 1 .. Len(ClntQue) : ClntQue[i] = c}
           Server == {t \in ClientThreads : Gahak[t] = c}
           Main   == {client_fd} \cap {c}
<1>3. /\ Queue # {} <=> InQueue(c)
      /\ Server # {} <=> Served(c)
      /\ Main # {} <=> WithMain(c)
  BY <1>1, <1>2 DEF InQueue, Served
<1>4. /\ \A i, j \in Queue : i = j
      /\ \A t, u \in Server : t = u
      /\ \A x, y \in Main : x = y
  BY <1>1 DEF PInv, Placed
<1>5. /\ Queue = {} \/ Server = {}
      /\ Main = {} \/ (Queue = {} /\ Server = {})
  BY <1>3 DEF PInv, Placed
<1>6. Holders(c) = {<<"queue", i>> : i \in Queue}
              \cup {<<"thread", t>> : t \in Server}
              \cup {<<"main", x>> : x \in Main}
  BY DEF Holders
<1> HIDE DEF Queue, Server, Main
<1>7. Holders(c) # {} <=> Queue # {} \/ Server # {} \/ Main # {}
  BY <1>6
<1>8. \A g, h \in Holders(c) : g = h
  BY <1>4, <1>5, <1>6
<1> QED
  BY <1>3, <1>7, <1>8

(* An accepted connection is with main, once in ClntQue or with one client *)
(* thread, and open exactly that long (unless queue_enqueue failed), for   *)
(* pools of any size, with SIGINT and spurious wake-ups anywhere.          *)
THEOREM SoleHolder == Spec => []OneHolder
<1>1. PInv => OneHolder
  <2> SUFFICES ASSUME PInv, NEW c \in Conns
               PROVE  /\ Cardinality(Holders(c)) <= 1
                      /\ Holders(c) # {} => link[c] = "open"
                      /\ link[c] = "open" /\ ~OutOfMemory => Holders(c) # {}
    BY DEF OneHolder
  <2>1. Cardinality(Holders(c)) <= 1
    BY HoldersFacts, AtMostOne
  <2> QED
    BY <2>1, HoldersFacts DEF PInv, Linked
<1> QED
  BY <1>1, InitPInv, StepPInv, PTL DEF Spec

-----------------------------------------------------------------------------
(* The steps that touch a task, in terms of what they do to it.            *)
SessionStep(t) == DequeueClient(t) \/ Authenticate(t) \/ HangUp(t)

LEMMA SessionFacts ==
  ASSUME TypeOK, NEW t \in ClientThreads, SessionStep(t)
  PROVE  /\ pc[t] \in {"check", "auth", "session"}
         /\ pc'[t] \in {"check", "auth", "session"}
         /\ \A u \in ClientThreads : u # t => pc'[u] = pc[u] /\ Gahak'[u] = Gahak[u]
         /\ \A w \in WorkerThreads : pc'[w] = pc[w]
         /\ UNCHANGED <<mainVars, TaskQue, kaam, taskVars, countVars>>
<1>1. PICK to \in {"check", "auth", "session"} :
        /\ pc' = [pc EXCEPT ![t] = to]
        /\ pc[t] \in {"check", "auth", "session"}
  BY DEF SessionStep, DequeueClient, Authenticate, HangUp, Goto
<1>2. /\ \A u \in ClientThreads : u # t => Gahak'[u] = Gahak[u]
      /\ UNCHANGED <<mainVars, TaskQue, kaam, taskVars, countVars>>
  BY DEF SessionStep, DequeueClient, Authenticate, HangUp, TypeOK
<1> QED
  BY <1>1, <1>2, PoolsAssumption DEF TypeOK, Threads

LEMMA TakeCommandFacts ==
  ASSUME HInv, NEW t \in ClientThreads, TakeCommand(t)
  PROVE  \E k \in Tasks :
           /\ ClientMoves(t, "session", "submit")
           /\ Gahak[t] \in Conns
           /\ conn[k] = NoConn /\ conn'[k] = Gahak[t]
           /\ \A j \in Tasks : j # k => done'[j] = done[j] /\ conn'[j] = conn[j]
           /\ ~done'[k]
           /\ kaam'[t] = k
           /\ \A u \in Threads : u # t => kaam'[u] = kaam[u]
           /\ \A u \in ClientThreads : Owning(u) => kaam[u] \in Tasks \ {k}
           /\ \A w \in WorkerThreads : Working(w) => kaam[w] \in Tasks \ {k}
           /\ sent'[Gahak[t]] = sent[Gahak[t]] + 1
           /\ \A c \in Conns : c # Gahak[t] => sent'[c] = sent[c]
           /\ UNCHANGED <<mainVars, TaskQue, Gahak, executed, answered, refused>>
<1>1. PICK k \in Tasks : /\ conn[k] = NoConn
                         /\ conn' = [conn EXCEPT ![k] = Gahak[t]]
                         /\ done' = Cleared(k)
                         /\ kaam' = [kaam EXCEPT ![t] = k]
  BY DEF TakeCommand, AllocateTask
<1>2. /\ ClientMoves(t, "session", "submit") /\ Gahak[t] \in Conns
      /\ UNCHANGED <<mainVars, TaskQue, Gahak, executed, answered, refused>>
      /\ sent' = [sent EXCEPT ![Gahak[t]] = @ + 1]
  BY MovesFacts DEF TakeCommand, Goto, HInv, Handoff, Locals, Serving, Threads
<1>3. /\ conn'[k] = Gahak[t] /\ ~done'[k] /\ kaam'[t] = k
      /\ \A j \in Tasks : j # k => done'[j] = done[j] /\ conn'[j] = conn[j]
      /\ \A u \in Threads : u # t => kaam'[u] = kaam[u]
  BY <1>1 DEF Cleared, HInv, TypeOK, Threads
<1>4. /\ sent'[Gahak[t]] = sent[Gahak[t]] + 1
      /\ \A c \in Conns : c # Gahak[t] => sent'[c] = sent[c]
  BY <1>2 DEF HInv, TypeOK
<1>5. \A u \in ClientThreads : Owning(u) => kaam[u] \in Tasks \ {k}
  BY <1>1, DataAssumption DEF HInv, Handoff, Owners, Locals, Serving
<1>6. \A w \in WorkerThreads : Working(w) => kaam[w] \in Tasks \ {k}
  BY <1>1, HeldTask, DataAssumption DEF HInv, Handoff, Locals
<1> QED
  BY <1>1, <1>2, <1>3, <1>4, <1>5, <1>6

(* A refused command allocates a task that is in nobody's hands.           *)
LEMMA RefuseCommandFacts ==
  ASSUME HInv, NEW t \in ClientThreads, RefuseCommand(t)
  PROVE  \E k \in Tasks :
           /\ pc[t] = "session"
           /\ \A j \in Tasks : j # k => done'[j] = done[j] /\ conn'[j] = conn[j]
           /\ refused' = refused \cup {k}
           /\ \A u \in ClientThreads : Owning(u) => kaam[u] \in Tasks \ {k}
           /\ \A w \in WorkerThreads : Working(w) => kaam[w] \in Tasks \ {k}
           /\ UNCHANGED <<mainVars, TaskQue, pc, Gahak, kaam, sent, executed,
                          answered>>
<1>1. PICK k \in Tasks : /\ conn[k] = NoConn
                         /\ conn' = [conn EXCEPT ![k] = Gahak[t]]
                         /\ done' = Cleared(k)
                         /\ refused' = refused \cup {k}
  BY DEF RefuseCommand, AllocateTask
<1>2. /\ pc[t] = "session"
      /\ UNCHANGED <<mainVars, TaskQue, pc, Gahak, kaam, sent, executed, answered>>
  BY DEF RefuseCommand
<1>3. \A j \in Tasks : j # k => done'[j] = done[j] /\ conn'[j] = conn[j]
  BY <1>1 DEF Cleared, HInv, TypeOK
<1>4. \A u \in ClientThreads : Owning(u) => kaam[u] \in Tasks \ {k}
  BY <1>1, DataAssumption DEF HInv, Handoff, Owners, Locals, Serving
<1>5. \A w \in WorkerThreads : Working(w) => kaam[w] \in Tasks \ {k}
  BY <1>1, HeldTask, DataAssumption DEF HInv, Handoff, Locals
<1> QED
  BY <1>1, <1>2, <1>3, <1>4, <1>5

LEMMA RespondFacts ==
  ASSUME HInv, NEW t \in ClientThreads, Respond(t)
  PROVE  /\ ClientMoves(t, "respond", "session")
         /\ Gahak[t] \in Conns /\ kaam[t] \in Tasks
         /\ \A u \in Threads : u # t => kaam'[u] = kaam[u]
         /\ conn'[kaam[t]] = NoConn
         /\ \A j \in Tasks : j # kaam[t] => conn'[j] = conn[j]
         /\ answered'[Gahak[t]] = answered[Gahak[t]] + 1
         /\ \A c \in Conns : c # Gahak[t] => answered'[c] = answered[c]
         /\ UNCHANGED <<mainVars, TaskQue, Gahak, done, sent, executed, refused>>
<1>1. /\ ClientMoves(t, "respond", "session") /\ Serving(t) /\ Owning(t)
      /\ answered' = [answered EXCEPT ![Gahak[t]] = @ + 1]
      /\ conn' = [conn EXCEPT ![kaam[t]] = NoConn]
      /\ kaam' = [kaam EXCEPT ![t] = NoTask]
      /\ UNCHANGED <<mainVars, TaskQue, Gahak, done, sent, executed, refused>>
  BY MovesFacts DEF Respond, Goto, HInv, Serving, Owning, Threads
<1>2. Gahak[t] \in Conns /\ kaam[t] \in Tasks
  BY <1>1 DEF HInv, Handoff, Locals
<1> QED
  BY <1>1, <1>2 DEF HInv, TypeOK

LEMMA DequeueTaskFacts ==
  ASSUME HInv, NEW w \in WorkerThreads, DequeueTask(w)
  PROVE  /\ WorkerMoves(w, "check", "execute")
         /\ kaam'[w] \in Tasks /\ Queued(kaam'[w])
         /\ \A u \in Threads : u # w => kaam'[u] = kaam[u]
         /\ \A k \in Tasks : Queued(k)' => Queued(k)
         /\ \A k \in Tasks : Queued(k) => Queued(k)' \/ k = kaam'[w]
         /\ UNCHANGED <<mainVars, Gahak, taskVars, countVars>>
<1> DEFINE n == Len(TaskQue)
<1>1. TaskQue \in Seq(Tasks) /\ TaskQue # <<>>
  BY DEF DequeueTask, HInv, TypeOK
<1>2. /\ Head(TaskQue) \in Tasks /\ Head(TaskQue) = TaskQue[1]
      /\ n \in Nat \ {0} /\ Len(TaskQue') = n - 1
      /\ \A i \in 1 .. n - 1 : TaskQue'[i] = TaskQue[i + 1]
  BY <1>1, TailFacts DEF DequeueTask, TaskDequeued
<1>3. /\ WorkerMoves(w, "check", "execute")
      /\ kaam'[w] = TaskQue[1] /\ kaam'[w] \in Tasks
      /\ \A u \in Threads : u # w => kaam'[u] = kaam[u]
      /\ UNCHANGED <<mainVars, Gahak, taskVars, countVars>>
  BY <1>2, MovesFacts DEF DequeueTask, HInv, TypeOK, Threads
<1>4. Queued(kaam'[w])
  <2>1. TaskQue[1] = kaam'[w] /\ 1 \in 1 .. n
    BY <1>2, <1>3
  <2> QED
    BY <2>1 DEF Queued
<1>5. \A k \in Tasks : Queued(k)' => Queued(k)
  <2>1. \A i \in 1 .. n - 1 : i + 1 \in 1 .. n
    BY <1>2
  <2> QED
    BY <1>2, <2>1 DEF Queued
<1>6. ASSUME NEW k \in Tasks, Queued(k), k # kaam'[w]
      PROVE  Queued(k)'
  <2>1. PICK i \in 1 .. n : TaskQue[i] = k
    BY <1>6 DEF Queued
  <2>2. i - 1 \in 1 .. n - 1 /\ (i - 1) + 1 = i
    BY <1>2, <1>3, <1>6, <2>1
  <2>3. TaskQue'[i - 1] = k /\ i - 1 \in 1 .. Len(TaskQue')
    BY <1>2, <2>1, <2>2
  <2> QED
    BY <2>3 DEF Queued
<1> QED
  BY <1>3, <1>4, <1>5, <1>6

LEMMA ExecuteFacts ==
  ASSUME HInv, NEW w \in WorkerThreads, Execute(w)
  PROVE  /\ WorkerMoves(w, "execute", "finish")
         /\ kaam[w] \in Tasks /\ conn[kaam[w]] \in Conns
         /\ executed'[conn[kaam[w]]] = executed[conn[kaam[w]]] + 1
         /\ \A c \in Conns : c # conn[kaam[w]] => executed'[c] = executed[c]
         /\ UNCHANGED <<mainVars, TaskQue, Gahak, kaam, taskVars, sent, answered,
                        refused>>
<1>1. /\ WorkerMoves(w, "execute", "finish") /\ Working(w)
      /\ executed' = [executed EXCEPT ![conn[kaam[w]]] = @ + 1]
      /\ UNCHANGED <<mainVars, TaskQue, Gahak, kaam, taskVars, sent, answered,
                        refused>>
  BY MovesFacts DEF Execute, Goto, HInv, Working, Threads
<1>2. kaam[w] \in Tasks /\ conn[kaam[w]] \in Conns
  BY <1>1, HeldTask DEF HInv, Handoff, Locals
<1> QED
  BY <1>1, <1>2 DEF HInv, TypeOK

LEMMA MarkDoneFacts ==
  ASSUME HInv, NEW w \in WorkerThreads, MarkDone(w)
  PROVE  /\ WorkerMoves(w, "finish", "signal") /\ kaam[w] \in Tasks
         /\ done'[kaam[w]]
         /\ \A k \in Tasks : k # kaam[w] => done'[k] = done[k]
         /\ UNCHANGED <<mainVars, TaskQue, Gahak, kaam, conn, countVars>>
<1>1. /\ WorkerMoves(w, "finish", "signal") /\ Working(w)
      /\ done' = [done EXCEPT ![kaam[w]] = TRUE]
      /\ UNCHANGED <<mainVars, TaskQue, Gahak, kaam, conn, countVars>>
  BY MovesFacts DEF MarkDone, Goto, HInv, Working, Threads
<1>2. kaam[w] \in Tasks
  BY <1>1 DEF HInv, Handoff, Locals
<1> QED
  BY <1>1, <1>2 DEF HInv, TypeOK

-----------------------------------------------------------------------------
(* No command is forgotten, and nothing is left at shutdown.               *)
KInv == HInv /\ DoneKept /\ Allocated /\ Joined /\ NoLostTask

LEMMA WaitingKept ==
  ASSUME KInv, Undisturbed
  PROVE  DoneKept' /\ Allocated' /\ NoLostTask'
<1>1. /\ UNCHANGED <<TaskQue, kaam, Gahak, conn, done, refused>>
      /\ \A t \in ClientThreads :
           /\ Owning(t)' <=> Owning(t)
           /\ Awaiting(t)' <=> Awaiting(t)
           /\ pc'[t] = "respond" => pc[t] = "respond"
           /\ pc[t] = "await" => pc'[t] = "await"
      /\ \A w \in WorkerThreads : /\ Working(w)' <=> Working(w)
                                  /\ pc'[w] = "signal" => pc[w] = "signal"
  BY DEF Undisturbed, SameStage, taskVars, countVars, Owning, Awaiting, Working
<1>2. DoneKept'
  BY <1>1 DEF KInv, DoneKept
<1>3. Allocated'
  BY <1>1 DEF KInv, Allocated
<1>4. NoLostTask'
  BY <1>1 DEF KInv, NoLostTask
<1> QED
  BY <1>2, <1>3, <1>4

LEMMA SessionKept ==
  ASSUME KInv, NEW t \in ClientThreads, SessionStep(t)
  PROVE  DoneKept' /\ Allocated' /\ NoLostTask'
<1>1. /\ UNCHANGED <<TaskQue, kaam, conn, done, refused>>
      /\ \A u \in ClientThreads :
           /\ Owning(u)' <=> Owning(u)
           /\ Awaiting(u)' <=> Awaiting(u)
           /\ pc'[u] = "respond" => pc[u] = "respond"
           /\ pc[u] = "await" => pc'[u] = "await"
      /\ \A w \in WorkerThreads : pc'[w] = pc[w]
  BY SessionFacts DEF taskVars, countVars, Owning, Awaiting, KInv, HInv
<1>2. DoneKept'
  BY <1>1 DEF KInv, DoneKept
<1>3. Allocated'
  BY <1>1 DEF KInv, Allocated
<1>4. NoLostTask'
  BY <1>1 DEF KInv, NoLostTask, Working
<1> QED
  BY <1>2, <1>3, <1>4

LEMMA TakeCommandKept ==
  ASSUME KInv, NEW t \in ClientThreads, TakeCommand(t)
  PROVE  DoneKept' /\ Allocated' /\ NoLostTask'
<1>1. PICK k \in Tasks :
        /\ ClientMoves(t, "session", "submit")
        /\ \A j \in Tasks : j # k => done'[j] = done[j] /\ conn'[j] = conn[j]
        /\ kaam'[t] = k
        /\ \A u \in Threads : u # t => kaam'[u] = kaam[u]
        /\ \A u \in ClientThreads : Owning(u) => kaam[u] \in Tasks \ {k}
        /\ \A w \in WorkerThreads : Working(w) => kaam[w] \in Tasks \ {k}
        /\ UNCHANGED <<TaskQue, refused>>
  BY TakeCommandFacts DEF KInv
<1>2. /\ \A u \in ClientThreads :
           /\ Owning(u)' <=> Owning(u) \/ u = t
           /\ Awaiting(u)' <=> Awaiting(u)
           /\ Awaiting(u) => Owning(u) /\ u # t
           /\ u # t => kaam'[u] = kaam[u] /\ pc'[u] = pc[u]
      /\ pc'[t] = "submit" /\ ~Owning(t) /\ kaam'[t] = k
      /\ \A w \in WorkerThreads : pc'[w] = pc[w] /\ kaam'[w] = kaam[w]
  BY <1>1, PoolsAssumption DEF ClientMoves, Owning, Awaiting, Threads
<1>3. DoneKept'
  BY <1>1, <1>2 DEF KInv, DoneKept, Owning, Working
<1>4. Allocated'
  BY <1>1, <1>2 DEF KInv, Allocated
<1>5. NoLostTask'
  <2> SUFFICES ASSUME NEW u \in ClientThreads, Awaiting(u), ~OutOfMemory
               PROVE  \/ \E i \in 1 .. Len(TaskQue) : TaskQue[i] = kaam[u]
                      \/ \E w \in WorkerThreads : Working(w) /\ kaam[w] = kaam[u]
                      \/ done'[kaam[u]] /\ pc[u] = "await"
    BY <1>1, <1>2 DEF NoLostTask, Working
  <2> QED
    BY <1>1, <1>2 DEF KInv, NoLostTask
<1> QED
  BY <1>3, <1>4, <1>5

LEMMA RefuseCommandKept ==
  ASSUME KInv, NEW t \in ClientThreads, RefuseCommand(t)
  PROVE  DoneKept' /\ Allocated' /\ NoLostTask'
<1>1. PICK k \in Tasks :
        /\ \A j \in Tasks : j # k => done'[j] = done[j] /\ conn'[j] = conn[j]
        /\ refused' = refused \cup {k}
        /\ \A u \in ClientThreads : Owning(u) => kaam[u] \in Tasks \ {k}
        /\ \A w \in WorkerThreads : Working(w) => kaam[w] \in Tasks \ {k}
        /\ UNCHANGED <<TaskQue, pc, kaam>>
  BY RefuseCommandFacts DEF KInv
<1>2. DoneKept'
  BY <1>1 DEF KInv, DoneKept, Owning, Working
<1>3. Allocated'
  BY <1>1 DEF KInv, Allocated, Owning
<1>4. NoLostTask'
  BY <1>1 DEF KInv, NoLostTask, Awaiting, Owning, Working
<1> QED
  BY <1>2, <1>3, <1>4

LEMMA SubmitKept ==
  ASSUME KInv, NEW t \in ClientThreads, Submit(t)
  PROVE  DoneKept' /\ Allocated' /\ NoLostTask'
<1>1. /\ pc[t] = "submit" /\ pc'[t] = "await"
      /\ \A u \in ClientThreads : u # t => pc'[u] = pc[u]
      /\ \A w \in WorkerThreads : \/ pc'[w] = pc[w]
                                  \/ pc[w] = "asleep" /\ pc'[w] = "check"
      /\ \/ TaskQue' = TaskQue /\ OutOfMemory
         \/ /\ Len(TaskQue) \in Nat /\ Len(TaskQue') = Len(TaskQue) + 1
            /\ \A i \in 1 .. Len(TaskQue) : TaskQue'[i] = TaskQue[i]
            /\ TaskQue'[Len(TaskQue) + 1] = kaam[t]
      /\ UNCHANGED <<kaam, conn, done, refused>>
  BY SubmitFacts DEF Submit, taskVars, countVars, KInv
<1>2. /\ \A u \in ClientThreads :
           /\ Owning(u)' <=> Owning(u)
           /\ Awaiting(u)' <=> Awaiting(u) \/ u = t
           /\ pc'[u] = "respond" => pc[u] = "respond"
      /\ \A w \in WorkerThreads : /\ Working(w)' <=> Working(w)
                                  /\ pc'[w] = "signal" => pc[w] = "signal"
  BY <1>1 DEF Owning, Awaiting, Working
<1>3. DoneKept'
  BY <1>1, <1>2 DEF KInv, DoneKept
<1>4. Allocated'
  BY <1>1, <1>2 DEF KInv, Allocated
<1>5. NoLostTask'
  <2> SUFFICES ASSUME NEW u \in ClientThreads, Awaiting(u) \/ u = t, ~OutOfMemory
               PROVE  \/ \E i \in 1 .. Len(TaskQue') : TaskQue'[i] = kaam[u]
                      \/ \E w \in WorkerThreads : Working(w) /\ kaam[w] = kaam[u]
                      \/ done[kaam[u]] /\ pc'[u] = "await"
    BY <1>1, <1>2 DEF NoLostTask
  <2>1. CASE u = t
    BY <1>1, <2>1
  <2>2. CASE u # t
    BY <1>1, <2>2 DEF KInv, NoLostTask
  <2> QED
    BY <2>1, <2>2
<1> QED
  BY <1>3, <1>4, <1>5

LEMMA AwaitKept ==
  ASSUME KInv, NEW t \in ClientThreads, AwaitResult(t)
  PROVE  DoneKept' /\ Allocated' /\ NoLostTask'
<1>1. PICK to \in {"respond", "blocked"} :
        /\ ClientMoves(t, "await", to)
        /\ to = "respond" <=> done[kaam[t]]
        /\ UNCHANGED <<TaskQue, kaam, conn, done, refused>>
  BY MovesFacts DEF AwaitResult, KInv, HInv, Threads, taskVars, countVars
<1>2. /\ \A u \in ClientThreads :
           /\ Owning(u)' <=> Owning(u)
           /\ Awaiting(u)' => Awaiting(u)
           /\ u # t => pc'[u] = pc[u]
      /\ pc'[t] = to /\ Awaiting(t)
      /\ \A w \in WorkerThreads : pc'[w] = pc[w]
  BY <1>1 DEF ClientMoves, Owning, Awaiting
<1>3. DoneKept'
  BY <1>1, <1>2 DEF KInv, DoneKept
<1>4. Allocated'
  BY <1>1, <1>2 DEF KInv, Allocated
<1>5. NoLostTask'
  <2> SUFFICES ASSUME NEW u \in ClientThreads, Awaiting(u)', ~OutOfMemory
               PROVE  \/ \E i \in 1 .. Len(TaskQue) : TaskQue[i] = kaam[u]
                      \/ \E w \in WorkerThreads : Working(w) /\ kaam[w] = kaam[u]
                      \/ done[kaam[u]] /\ pc'[u] = "await"
    BY <1>1, <1>2 DEF NoLostTask, Working
  <2>1. CASE u = t
    BY <1>1, <1>2, <2>1 DEF Awaiting, KInv, NoLostTask
  <2>2. CASE u # t
    BY <1>2, <2>2 DEF KInv, NoLostTask
  <2> QED
    BY <2>1, <2>2
<1> QED
  BY <1>3, <1>4, <1>5

LEMMA RespondKept ==
  ASSUME KInv, NEW t \in ClientThreads, Respond(t)
  PROVE  DoneKept' /\ Allocated' /\ NoLostTask'
<1>1. /\ ClientMoves(t, "respond", "session") /\ kaam[t] \in Tasks
      /\ \A u \in Threads : u # t => kaam'[u] = kaam[u]
      /\ conn'[kaam[t]] = NoConn
      /\ \A j \in Tasks : j # kaam[t] => conn'[j] = conn[j]
      /\ UNCHANGED <<TaskQue, done, refused>>
  BY RespondFacts DEF KInv
<1>2. /\ \A u \in ClientThreads :
           /\ Owning(u)' <=> Owning(u) /\ u # t
           /\ Awaiting(u)' <=> Awaiting(u)
           /\ Awaiting(u) => u # t
           /\ u # t => kaam'[u] = kaam[u] /\ pc'[u] = pc[u]
      /\ pc'[t] = "session"
      /\ \A w \in WorkerThreads : pc'[w] = pc[w] /\ kaam'[w] = kaam[w]
  BY <1>1, PoolsAssumption DEF ClientMoves, Owning, Awaiting, Threads
<1>3. DoneKept'
  BY <1>1, <1>2 DEF KInv, DoneKept
<1>4. Allocated'
  BY <1>1, <1>2 DEF KInv, Allocated
<1>5. NoLostTask'
  BY <1>1, <1>2 DEF KInv, NoLostTask, Working
<1> QED
  BY <1>3, <1>4, <1>5

LEMMA DequeueTaskKept ==
  ASSUME KInv, NEW w \in WorkerThreads, DequeueTask(w)
  PROVE  DoneKept' /\ Allocated' /\ NoLostTask'
<1>1. /\ WorkerMoves(w, "check", "execute")
      /\ \A u \in Threads : u # w => kaam'[u] = kaam[u]
      /\ \A k \in Tasks : Queued(k) => Queued(k)' \/ k = kaam'[w]
      /\ UNCHANGED <<conn, done, refused>>
  BY DequeueTaskFacts DEF KInv, taskVars, countVars
<1>2. /\ \A t \in ClientThreads : /\ pc'[t] = pc[t] /\ kaam'[t] = kaam[t]
                                  /\ Owning(t)' <=> Owning(t)
                                  /\ Awaiting(t)' <=> Awaiting(t)
      /\ \A v \in WorkerThreads :
           /\ Working(v)' <=> Working(v) \/ v = w
           /\ v # w => kaam'[v] = kaam[v] /\ pc'[v] = pc[v]
      /\ ~Working(w) /\ pc'[w] = "execute"
  BY <1>1, PoolsAssumption DEF WorkerMoves, Owning, Awaiting, Working, Threads
<1>3. DoneKept'
  BY <1>1, <1>2 DEF KInv, DoneKept
<1>4. Allocated'
  BY <1>1, <1>2 DEF KInv, Allocated
<1>5. NoLostTask'
  <2> SUFFICES ASSUME NEW t \in ClientThreads, Awaiting(t), ~OutOfMemory
               PROVE  \/ Queued(kaam[t])'
                      \/ \E v \in WorkerThreads : Working(v)' /\ kaam'[v] = kaam[t]
                      \/ done[kaam[t]] /\ pc[t] = "await"
    BY <1>1, <1>2 DEF NoLostTask, Queued
  <2>1. kaam[t] \in Tasks
    BY DEF Awaiting, KInv, HInv, Handoff, Locals, Owning
  <2>2. \/ Queued(kaam[t])
        \/ \E v \in WorkerThreads : Working(v) /\ kaam[v] = kaam[t]
        \/ done[kaam[t]] /\ pc[t] = "await"
    BY DEF KInv, NoLostTask, Queued
  <2> QED
    BY <1>1, <1>2, <2>1, <2>2
<1> QED
  BY <1>3, <1>4, <1>5

LEMMA ExecuteKept ==
  ASSUME KInv, NEW w \in WorkerThreads, Execute(w) \/ MarkDone(w)
  PROVE  DoneKept' /\ Allocated' /\ NoLostTask'
<1>1. /\ \/ WorkerMoves(w, "execute", "finish")
         \/ WorkerMoves(w, "finish", "signal") /\ done'[kaam[w]]
      /\ kaam[w] \in Tasks
      /\ \A k \in Tasks : done[k] => done'[k]
      /\ UNCHANGED <<TaskQue, kaam, conn, refused>>
  BY ExecuteFacts, MarkDoneFacts DEF KInv, taskVars, countVars
<1>2. /\ \A t \in ClientThreads : /\ pc'[t] = pc[t]
                                  /\ Owning(t)' <=> Owning(t)
                                  /\ Awaiting(t)' <=> Awaiting(t)
                                  /\ Owning(t) => kaam[t] \in Tasks
      /\ \A v \in WorkerThreads :
           /\ Working(v)' <=> Working(v)
           /\ Working(v) => kaam[v] \in Tasks
           /\ v # w => pc'[v] = pc[v]
      /\ pc'[w] = "signal" => done'[kaam[w]]
  BY <1>1 DEF WorkerMoves, Owning, Awaiting, Working, KInv, HInv, Handoff, Locals
<1>3. DoneKept'
  BY <1>1, <1>2 DEF KInv, DoneKept, Owning, Working
<1>4. Allocated'
  BY <1>1, <1>2 DEF KInv, Allocated
<1>5. NoLostTask'
  BY <1>1, <1>2 DEF KInv, NoLostTask, Awaiting, Owning
<1> QED
  BY <1>3, <1>4, <1>5

(* The worker lets go of a task that is done, and whose client thread is   *)
(* no longer blocked.                                                      *)
LEMMA SignalDoneKept ==
  ASSUME KInv, NEW w \in WorkerThreads, SignalDone(w)
  PROVE  DoneKept' /\ Allocated' /\ NoLostTask'
<1>1. /\ pc[w] = "signal" /\ pc'[w] = "check"
      /\ \A v \in WorkerThreads : v # w => pc'[v] = pc[v] /\ kaam'[v] = kaam[v]
      /\ \A t \in ClientThreads :
           /\ kaam'[t] = kaam[t]
           /\ pc'[t] = pc[t] \/ (pc[t] = "blocked" /\ pc'[t] = "await")
           /\ kaam[t] = kaam[w] => pc'[t] # "blocked"
      /\ UNCHANGED <<TaskQue, conn, done, refused>>
  BY SignalDoneFacts DEF KInv, SignalDone, taskVars, countVars
<1>2. \A t \in ClientThreads : /\ Owning(t)' <=> Owning(t)
                               /\ Awaiting(t)' <=> Awaiting(t)
                               /\ pc'[t] = "respond" => pc[t] = "respond"
                               /\ pc[t] = "await" => pc'[t] = "await"
  BY <1>1 DEF Owning, Awaiting
<1>3. DoneKept'
  BY <1>1, <1>2 DEF KInv, DoneKept
<1>4. Allocated'
  BY <1>1, <1>2 DEF KInv, Allocated
<1>5. NoLostTask'
  <2> SUFFICES ASSUME NEW t \in ClientThreads, Awaiting(t), ~OutOfMemory
               PROVE  \/ \E i \in 1 .. Len(TaskQue) : TaskQue[i] = kaam[t]
                      \/ \E v \in WorkerThreads : Working(v)' /\ kaam'[v] = kaam[t]
                      \/ done[kaam[t]] /\ pc'[t] = "await"
    BY <1>1, <1>2 DEF NoLostTask
  <2>1. CASE kaam[t] = kaam[w]
    BY <1>1, <2>1 DEF KInv, DoneKept, Awaiting
  <2>2. CASE kaam[t] # kaam[w]
    BY <1>1, <1>2, <2>2 DEF KInv, NoLostTask, Working
  <2> QED
    BY <2>1, <2>2
<1> QED
  BY <1>3, <1>4, <1>5

(* The steps of Next by what they do to the tasks.                         *)
LEMMA StepCases ==
  ASSUME Next
  PROVE  \/ WaitingStep
         \/ \E t \in ClientThreads :
              \/ SessionStep(t) \/ TakeCommand(t) \/ RefuseCommand(t)
              \/ Submit(t) \/ AwaitResult(t) \/ Respond(t)
         \/ \E w \in WorkerThreads : \/ DequeueTask(w) \/ Execute(w)
                                     \/ MarkDone(w) \/ SignalDone(w)
BY DEF Next, WaitingStep, ClientStep, ClientAct, WorkerStep, SessionStep

(* A client thread that has left handle_client stays out of it.            *)
LEMMA ExitedForGood ==
  ASSUME HInv, Next
  PROVE  \A t \in ClientThreads : pc[t] = "exited" => pc'[t] = "exited"
<1>1. CASE WaitingStep
  BY <1>1, WaitingStepFacts DEF HInv, Undisturbed
<1>2. ASSUME NEW u \in ClientThreads,
             \/ SessionStep(u) \/ TakeCommand(u) \/ RefuseCommand(u)
             \/ AwaitResult(u) \/ Respond(u)
      PROVE  \A t \in ClientThreads : pc[t] = "exited" => pc'[t] = "exited"
  BY <1>2, SessionFacts, MovesFacts
     DEF TakeCommand, RefuseCommand, AwaitResult, Respond, ClientMoves, HInv, Threads
<1>3. ASSUME NEW u \in ClientThreads, Submit(u)
      PROVE  \A t \in ClientThreads : pc[t] = "exited" => pc'[t] = "exited"
  BY <1>3, SubmitFacts
<1>4. ASSUME NEW w \in WorkerThreads, DequeueTask(w) \/ Execute(w) \/ MarkDone(w)
      PROVE  \A t \in ClientThreads : pc[t] = "exited" => pc'[t] = "exited"
  BY <1>4, MovesFacts DEF DequeueTask, Execute, MarkDone, WorkerMoves, HInv, Threads
<1>5. ASSUME NEW w \in WorkerThreads, SignalDone(w)
      PROVE  \A t \in ClientThreads : pc[t] = "exited" => pc'[t] = "exited"
  BY <1>5, SignalDoneFacts
<1> QED
  BY <1>1, <1>2, <1>3, <1>4, <1>5, StepCases

LEMMA JoinedInv ==
  ASSUME HInv, Joined, Next
  PROVE  Joined'
<1>1. main' \in {"join_workers", "done"} =>
        \/ main \in {"join_workers", "done"}
        \/ Exited(ClientThreads) /\ pc' = pc
  <2>1. CASE \/ EnqueueClient \/ StopAccepting \/ JoinClients \/ JoinWorkers
             \/ \E c \in Conns : Accept(c)
    BY <2>1 DEF EnqueueClient, StopAccepting, JoinClients, JoinWorkers, MainStep,
                Accept
  <2>2. CASE main' = main
    BY <2>2
  <2>3. \/ EnqueueClient \/ StopAccepting \/ JoinClients \/ JoinWorkers
        \/ \E c \in Conns : Accept(c)
        \/ main' = main
    BY DEF Next, ServerStep, WakeClients, WakeWorkers, Broadcast, HandlerStop,
           WaitForWork, WakeSpuriously, ClientStep, WorkerStep, ClientAct,
           DequeueClient, Authenticate, HangUp, TakeCommand, RefuseCommand,
           Submit, AwaitResult, Respond, DequeueTask, Execute, MarkDone, SignalDone, mainVars
  <2> QED
    BY <2>1, <2>2, <2>3
<1> QED
  BY <1>1, ExitedForGood DEF Joined, Exited

LEMMA InitKInv == Init => KInv
<1> SUFFICES ASSUME Init PROVE KInv
  OBVIOUS
<1>1. HInv
  BY InitHInv
<1>2. \A t \in Threads : pc[t] = "check"
  BY DEF Init
<1>3. DoneKept /\ Allocated /\ Joined /\ NoLostTask
  BY <1>2 DEF Init, DoneKept, Allocated, Joined, NoLostTask, Awaiting, Threads
<1> QED
  BY <1>1, <1>3 DEF KInv

LEMMA StepKInv == KInv /\ [Next]_vars => KInv'
<1> SUFFICES ASSUME KInv, [Next]_vars PROVE KInv'
  OBVIOUS
<1>1. HInv'
  BY StepHInv DEF KInv
<1>2. CASE UNCHANGED vars
  BY <1>1, <1>2 DEF vars, mainVars, taskVars, countVars, KInv, DoneKept,
                    Allocated, Joined, NoLostTask, Exited, Owning, Awaiting,
                    Working
<1>3. CASE Next
  <2>1. Joined'
    BY <1>3, JoinedInv DEF KInv
  <2>2. DoneKept' /\ Allocated' /\ NoLostTask'
    BY <1>3, StepCases, WaitingStepFacts, WaitingKept, SessionKept,
       TakeCommandKept, RefuseCommandKept, SubmitKept, AwaitKept, RespondKept,
       DequeueTaskKept, ExecuteKept, SignalDoneKept DEF KInv, HInv
  <2> QED
    BY <1>1, <2>1, <2>2 DEF KInv
<1> QED
  BY <1>2, <1>3

(* Unless memory ran out, a command that is waited for is in TaskQue, with *)
(* a worker, or done and its client thread woken: no interleaving of the   *)
(* pools leaves a client thread on the task's cv for nothing.              *)
THEOREM NothingForgotten == Spec => []NoLostTask
<1>1. KInv => NoLostTask
  BY DEF KInv
<1> QED
  BY <1>1, InitKInv, StepKInv, PTL DEF Spec

(* When main destroys the queues no task is queued, and none is still      *)
(* allocated but those of refused commands, wherever SIGINT found the pools*)
THEOREM CleanShutdown == Spec => []NothingLeftBehind
<1>1. KInv => NothingLeftBehind
  <2> SUFFICES ASSUME KInv, main = "done"
               PROVE  /\ TaskQue = <<>>
                      /\ \A k \in Tasks : conn[k] # NoConn => k \in refused
    BY DEF NothingLeftBehind
  <2>1. \A t \in ClientThreads : ~Owning(t) /\ ~Awaiting(t)
    BY DEF KInv, Joined, Exited, Owning, Awaiting
  <2>2. \A k \in Tasks : conn[k] # NoConn => k \in refused
    BY <2>1 DEF KInv, Allocated
  <2>3. TaskQue \in Seq(Tasks)
    BY DEF KInv, HInv, TypeOK
  <2>4. \A k \in Tasks : ~\E i \in 1 .. Len(TaskQue) : TaskQue[i] = k
    BY <2>1 DEF KInv, HInv, Handoff, NoUseAfterFree
  <2>5. TaskQue = <<>>
    <3>1. Len(TaskQue) \in Nat /\ \A i \in 1 .. Len(TaskQue) : TaskQue[i] \in Tasks
      BY <2>3
    <3>2. Len(TaskQue) = 0
      BY <2>4, <3>1
    <3> QED
      BY <2>3, <3>2
  <2> QED
    BY <2>2, <2>5
<1> QED
  BY <1>1, InitKInv, StepKInv, PTL DEF Spec

-----------------------------------------------------------------------------
(* The counts of a connection's commands.                                  *)
RInv == KInv /\ Placed /\ Linked /\ Turns

(* An owner has its connection to itself.                                  *)
LEMMA OwnerAlone ==
  ASSUME RInv, NEW t \in ClientThreads, Serving(t)
  PROVE  \A u \in ClientThreads : Owning(u) /\ u # t => Gahak[u] # Gahak[t]
BY DEF RInv, Placed, Serving

LEMMA TurnsKept ==
  ASSUME RInv,
         \A t \in ClientThreads :
           /\ Owning(t)' <=> Owning(t)
           /\ Owning(t) => Gahak'[t] = Gahak[t] /\ kaam'[t] = kaam[t],
         \A k \in Tasks :
           \/ Performed(k)' <=> Performed(k)
           \/ \A t \in ClientThreads : Owning(t) => kaam[t] # k,
         UNCHANGED <<sent, executed, answered>>
  PROVE  Turns'
<1>1. ASSUME NEW t \in ClientThreads, Owning(t)'
      PROVE  /\ sent'[Gahak'[t]] = answered'[Gahak'[t]] + 1
             /\ executed'[Gahak'[t]] = IF Performed(kaam[t])
                                       THEN sent'[Gahak'[t]]
                                       ELSE answered'[Gahak'[t]]
  BY <1>1 DEF RInv, Turns
<1>2. \A t \in ClientThreads :
        Owning(t)' => /\ kaam'[t] = kaam[t] /\ kaam[t] \in Tasks
                      /\ Performed(kaam[t]) <=> Performed(kaam[t])'
  <2> SUFFICES ASSUME NEW t \in ClientThreads, Owning(t)
               PROVE  /\ kaam'[t] = kaam[t] /\ kaam[t] \in Tasks
                      /\ Performed(kaam[t]) <=> Performed(kaam[t])'
    OBVIOUS
  <2>1. kaam'[t] = kaam[t] /\ kaam[t] \in Tasks
    BY DEF RInv, KInv, HInv, Handoff, Locals
  <2>2. PICK k \in Tasks : k = kaam[t] /\ k = kaam'[t]
    BY <2>1
  <2>3. Performed(k)' <=> Performed(kaam[t])'
    BY <2>2 DEF Performed
  <2> QED
    BY <2>1, <2>2, <2>3
<1>3. \A c \in Conns :
        (\A t \in ClientThreads : Owning(t)' => Gahak'[t] # c)
          => sent'[c] = executed'[c] /\ executed'[c] = answered'[c]
  BY DEF RInv, Turns
<1> QED
  BY <1>1, <1>2, <1>3 DEF Turns

(* Only four steps move a count or the owner of a task.                    *)
LEMMA TurnsQuietSteps ==
  ASSUME RInv,
         \/ WaitingStep
         \/ \E t \in ClientThreads : \/ SessionStep(t) \/ RefuseCommand(t)
                                     \/ Submit(t) \/ AwaitResult(t)
         \/ \E w \in WorkerThreads : DequeueTask(w) \/ MarkDone(w) \/ SignalDone(w)
  PROVE  Turns' /\ UNCHANGED <<sent, executed, answered>>
<1>1. CASE WaitingStep
  <2>1. Undisturbed
    BY <1>1, WaitingStepFacts DEF RInv, KInv, HInv
  <2>2. \A k \in Tasks : Performed(k)' <=> Performed(k)
    BY <2>1 DEF Undisturbed, SameStage, Performed, Working, taskVars
  <2> QED
    BY <2>1, <2>2, TurnsKept DEF Undisturbed, SameStage, countVars
<1>2. ASSUME NEW t \in ClientThreads, SessionStep(t)
      PROVE  Turns' /\ UNCHANGED <<sent, executed, answered>>
  <2>1. /\ pc[t] \in {"check", "auth", "session"}
        /\ pc'[t] \in {"check", "auth", "session"}
        /\ \A u \in ClientThreads : u # t => pc'[u] = pc[u] /\ Gahak'[u] = Gahak[u]
        /\ \A w \in WorkerThreads : pc'[w] = pc[w]
        /\ UNCHANGED <<kaam, done, sent, executed, answered>>
    BY <1>2, SessionFacts DEF RInv, KInv, HInv, taskVars, countVars
  <2>2. \A k \in Tasks : Performed(k)' <=> Performed(k)
    BY <2>1 DEF Performed
  <2> QED
    BY <2>1, <2>2, TurnsKept DEF Owning
<1>3. ASSUME NEW t \in ClientThreads, Submit(t)
      PROVE  Turns' /\ UNCHANGED <<sent, executed, answered>>
  <2>1. /\ pc[t] = "submit" /\ pc'[t] = "await"
        /\ \A u \in ClientThreads : u # t => pc'[u] = pc[u]
        /\ \A w \in WorkerThreads : \/ pc'[w] = pc[w]
                                    \/ pc[w] = "asleep" /\ pc'[w] = "check"
        /\ UNCHANGED <<kaam, Gahak, done, sent, executed, answered>>
    BY <1>3, SubmitFacts DEF Submit, RInv, KInv, taskVars, countVars
  <2>2. \A k \in Tasks : Performed(k)' <=> Performed(k)
    BY <2>1 DEF Performed
  <2> QED
    BY <2>1, <2>2, TurnsKept DEF Owning
<1>4. ASSUME NEW t \in ClientThreads, AwaitResult(t)
      PROVE  Turns' /\ UNCHANGED <<sent, executed, answered>>
  <2>1. PICK to \in {"respond", "blocked"} :
          /\ ClientMoves(t, "await", to)
          /\ UNCHANGED <<kaam, Gahak, done, sent, executed, answered>>
    BY <1>4, MovesFacts DEF AwaitResult, RInv, KInv, HInv, Threads, taskVars, countVars
  <2>2. \A k \in Tasks : Performed(k)' <=> Performed(k)
    BY <2>1 DEF Performed, ClientMoves
  <2> QED
    BY <2>1, <2>2, TurnsKept DEF Owning, ClientMoves
<1>5. ASSUME NEW w \in WorkerThreads, DequeueTask(w)
      PROVE  Turns' /\ UNCHANGED <<sent, executed, answered>>
  <2>1. /\ WorkerMoves(w, "check", "execute")
        /\ \A u \in Threads : u # w => kaam'[u] = kaam[u]
        /\ UNCHANGED <<Gahak, done, sent, executed, answered>>
    BY <1>5, DequeueTaskFacts DEF RInv, KInv, taskVars, countVars
  <2>2. \A k \in Tasks : Performed(k)' <=> Performed(k)
    BY <2>1 DEF Performed, WorkerMoves, Threads
  <2>3. \A t \in ClientThreads : /\ Owning(t)' <=> Owning(t)
                                 /\ kaam'[t] = kaam[t]
    BY <2>1, PoolsAssumption DEF Owning, WorkerMoves, Threads
  <2> QED
    BY <2>1, <2>2, <2>3, TurnsKept
<1>6. ASSUME NEW w \in WorkerThreads, MarkDone(w)
      PROVE  Turns' /\ UNCHANGED <<sent, executed, answered>>
  <2>1. /\ WorkerMoves(w, "finish", "signal") /\ kaam[w] \in Tasks
        /\ done'[kaam[w]]
        /\ \A k \in Tasks : k # kaam[w] => done'[k] = done[k]
        /\ UNCHANGED <<kaam, Gahak, sent, executed, answered>>
    BY <1>6, MarkDoneFacts DEF RInv, KInv, countVars
  <2>2. ASSUME NEW k \in Tasks
        PROVE  Performed(k)' <=> Performed(k)
    <3>1. CASE k = kaam[w]
      BY <2>1, <3>1 DEF Performed, WorkerMoves
    <3>2. CASE k # kaam[w]
      BY <2>1, <3>2 DEF Performed, WorkerMoves
    <3> QED
      BY <3>1, <3>2
  <2>3. \A t \in ClientThreads : Owning(t)' <=> Owning(t)
    BY <2>1 DEF Owning, WorkerMoves
  <2> QED
    BY <2>1, <2>2, <2>3, TurnsKept
<1>7. ASSUME NEW w \in WorkerThreads, SignalDone(w)
      PROVE  Turns' /\ UNCHANGED <<sent, executed, answered>>
  <2>1. /\ pc[w] = "signal" /\ pc'[w] = "check"
        /\ \A v \in WorkerThreads : v # w => pc'[v] = pc[v] /\ kaam'[v] = kaam[v]
        /\ \A t \in ClientThreads :
             /\ kaam'[t] = kaam[t]
             /\ pc'[t] = pc[t] \/ (pc[t] = "blocked" /\ pc'[t] = "await")
        /\ UNCHANGED <<Gahak, done, sent, executed, answered>>
    BY <1>7, SignalDoneFacts DEF SignalDone, RInv, KInv, taskVars, countVars
  <2>2. \A k \in Tasks : Performed(k)' <=> Performed(k)
    BY <2>1 DEF Performed
  <2>3. \A t \in ClientThreads : Owning(t)' <=> Owning(t)
    BY <2>1 DEF Owning
  <2> QED
    BY <2>1, <2>2, <2>3, TurnsKept
<1>8. ASSUME NEW t \in ClientThreads, RefuseCommand(t)
      PROVE  Turns' /\ UNCHANGED <<sent, executed, answered>>
  <2>1. PICK k \in Tasks :
          /\ \A j \in Tasks : j # k => done'[j] = done[j]
          /\ \A u \in ClientThreads : Owning(u) => kaam[u] # k
          /\ UNCHANGED <<pc, kaam, Gahak, sent, executed, answered>>
    BY <1>8, RefuseCommandFacts DEF RInv, KInv
  <2>2. \A j \in Tasks \ {k} : Performed(j)' <=> Performed(j)
    BY <2>1 DEF Performed
  <2>3. \A u \in ClientThreads : Owning(u)' <=> Owning(u)
    BY <2>1 DEF Owning
  <2> QED
    BY <2>1, <2>2, <2>3, TurnsKept
<1> QED
  BY <1>1, <1>2, <1>3, <1>4, <1>5, <1>6, <1>7, <1>8

(* A command is taken when the connection's last one has been answered.    *)
LEMMA TakeCommandTurns ==
  ASSUME RInv, NEW t \in ClientThreads, TakeCommand(t)
  PROVE  Turns' /\ CS!Take(Gahak[t]) /\ Gahak[t] \in Conns
<1> DEFINE c == Gahak[t]
<1>1. PICK k \in Tasks :
        /\ ClientMoves(t, "session", "submit") /\ c \in Conns
        /\ \A j \in Tasks : j # k => done'[j] = done[j]
        /\ ~done'[k] /\ kaam'[t] = k
        /\ \A u \in Threads : u # t => kaam'[u] = kaam[u]
        /\ \A u \in ClientThreads : Owning(u) => kaam[u] \in Tasks \ {k}
        /\ \A w \in WorkerThreads : Working(w) => kaam[w] \in Tasks \ {k}
        /\ sent'[c] = sent[c] + 1
        /\ \A d \in Conns : d # c => sent'[d] = sent[d]
        /\ UNCHANGED <<Gahak, executed, answered>>
  BY TakeCommandFacts DEF RInv, KInv
<1>2. Serving(t) /\ ~Owning(t) /\ Owning(t)'
  BY <1>1 DEF ClientMoves, Serving, Owning
<1>3. \A u \in ClientThreads : /\ Owning(u)' <=> Owning(u) \/ u = t
                               /\ u # t => kaam'[u] = kaam[u]
  BY <1>1 DEF ClientMoves, Owning, Threads
<1>4. \A u \in ClientThreads : Owning(u) => Gahak[u] # c
  BY <1>2, OwnerAlone
<1>5. sent[c] = executed[c] /\ executed[c] = answered[c]
  BY <1>1, <1>4 DEF RInv, Turns
<1>6. \A w \in WorkerThreads : pc'[w] = pc[w] /\ kaam'[w] = kaam[w]
  BY <1>1, PoolsAssumption DEF ClientMoves, Threads
<1>7. ~Performed(k)' /\ \A j \in Tasks \ {k} : Performed(j)' <=> Performed(j)
  BY <1>1, <1>6 DEF Performed, Working
<1>8. ASSUME NEW u \in ClientThreads, Owning(u)'
      PROVE  /\ sent'[Gahak'[u]] = answered'[Gahak'[u]] + 1
             /\ executed'[Gahak'[u]] = IF Performed(kaam[u])' THEN sent'[Gahak'[u]]
                                       ELSE answered'[Gahak'[u]]
  <2>1. CASE u = t
    <3>1. ~Performed(kaam[u])'
      BY <1>1, <1>7, <2>1 DEF Performed
    <3> QED
      BY <1>1, <1>5, <2>1, <3>1
  <2>2. CASE u # t
    <3>1. Owning(u) /\ kaam'[u] = kaam[u] /\ Gahak[u] \in Conns \ {c}
      BY <1>3, <1>4, <1>8, <2>2 DEF RInv, KInv, HInv, Handoff, Locals, Serving
    <3>2. PICK j \in Tasks \ {k} : j = kaam[u] /\ j = kaam'[u]
      BY <1>1, <3>1
    <3>3. Performed(kaam[u])' <=> Performed(kaam[u])
      BY <1>7, <3>2 DEF Performed
    <3>4. /\ sent[Gahak[u]] = answered[Gahak[u]] + 1
          /\ executed[Gahak[u]] = IF Performed(kaam[u]) THEN sent[Gahak[u]]
                                  ELSE answered[Gahak[u]]
      BY <3>1 DEF RInv, Turns
    <3> QED
      BY <1>1, <3>1, <3>3, <3>4
  <2> QED
    BY <2>1, <2>2
<1>9. ASSUME NEW d \in Conns, \A u \in ClientThreads : Owning(u)' => Gahak'[u] # d
      PROVE  sent'[d] = executed'[d] /\ executed'[d] = answered'[d]
  <2>1. d # c /\ \A u \in ClientThreads : Owning(u) => Gahak[u] # d
    BY <1>1, <1>3, <1>9
  <2> QED
    BY <1>1, <2>1 DEF RInv, Turns
<1>10. Turns'
  BY <1>8, <1>9 DEF Turns
<1> QED
  BY <1>1, <1>5, <1>10 DEF TakeCommand, CS!Take

(* A worker executes the command its connection's client thread waits for, *)
(* and which nobody has executed.                                          *)
LEMMA ExecuteTurns ==
  ASSUME RInv, NEW w \in WorkerThreads, Execute(w)
  PROVE  \E c \in Conns : Turns' /\ CS!Perform(c)
<1> DEFINE k == kaam[w]
<1>1. /\ WorkerMoves(w, "execute", "finish") /\ k \in Tasks
      /\ UNCHANGED <<Gahak, kaam, done, sent, answered>>
      /\ executed' = [executed EXCEPT ![conn[k]] = @ + 1]
  BY ExecuteFacts DEF Execute, RInv, KInv, taskVars
<1>2. PICK t \in ClientThreads :
        /\ Awaiting(t) /\ kaam[t] = k /\ Gahak[t] \in Conns /\ conn[k] = Gahak[t]
  BY <1>1, HeldTask DEF WorkerMoves, Working, RInv, KInv
<1> DEFINE c == Gahak[t]
<1>3. Owning(t) /\ Serving(t)
  BY <1>2 DEF Awaiting, Owning, Serving
<1>4. ~Performed(k)
  BY <1>1 DEF Performed, WorkerMoves, Working, RInv, KInv, HInv, Handoff,
              HandedOnce, NotYetDone
<1>5. executed[c] = answered[c] /\ sent[c] = answered[c] + 1 /\ answered[c] \in Nat
  BY <1>2, <1>3, <1>4 DEF RInv, Turns, KInv, HInv, TypeOK
<1>6. executed'[c] = sent[c] /\ \A d \in Conns \ {c} : executed'[d] = executed[d]
  BY <1>1, <1>2, <1>5 DEF RInv, KInv, HInv, TypeOK
<1>7. Performed(k)' /\ \A j \in Tasks \ {k} : Performed(j)' <=> Performed(j)
  BY <1>1 DEF Performed, WorkerMoves
<1>8. \A u \in ClientThreads : Owning(u)' <=> Owning(u)
  BY <1>1 DEF WorkerMoves, Owning
<1>9. ASSUME NEW u \in ClientThreads, Owning(u)'
      PROVE  /\ sent'[Gahak'[u]] = answered'[Gahak'[u]] + 1
             /\ executed'[Gahak'[u]] = IF Performed(kaam[u])' THEN sent'[Gahak'[u]]
                                       ELSE answered'[Gahak'[u]]
  <2>1. CASE u = t
    <3>1. Performed(kaam[u])'
      BY <1>1, <1>2, <1>7, <2>1 DEF Performed
    <3> QED
      BY <1>1, <1>5, <1>6, <2>1, <3>1
  <2>2. CASE u # t
    <3>1. Owning(u) /\ Gahak[u] \in Conns \ {c} /\ kaam[u] \in Tasks \ {k}
      BY <1>2, <1>3, <1>8, <1>9, <2>2, OwnerAlone
         DEF RInv, KInv, HInv, Handoff, Locals, Owners, Serving
    <3>2. PICK j \in Tasks \ {k} : j = kaam[u]
      BY <3>1
    <3>3. Performed(kaam[u])' <=> Performed(kaam[u])
      BY <1>1, <1>7, <3>2 DEF Performed
    <3>4. /\ sent[Gahak[u]] = answered[Gahak[u]] + 1
          /\ executed[Gahak[u]] = IF Performed(kaam[u]) THEN sent[Gahak[u]]
                                  ELSE answered[Gahak[u]]
      BY <3>1 DEF RInv, Turns
    <3> QED
      BY <1>1, <1>6, <3>1, <3>3, <3>4
  <2> QED
    BY <2>1, <2>2
<1>10. ASSUME NEW d \in Conns, \A u \in ClientThreads : Owning(u)' => Gahak'[u] # d
       PROVE  sent'[d] = executed'[d] /\ executed'[d] = answered'[d]
  <2>1. d # c /\ \A u \in ClientThreads : Owning(u) => Gahak[u] # d
    BY <1>1, <1>3, <1>8, <1>10
  <2> QED
    BY <1>1, <1>6, <2>1 DEF RInv, Turns
<1>11. Turns'
  BY <1>9, <1>10 DEF Turns
<1>12. CS!Perform(c)
  BY <1>1, <1>2, <1>5 DEF CS!Perform
<1> QED
  BY <1>2, <1>11, <1>12

(* The response goes out after the worker set done.                        *)
LEMMA RespondTurns ==
  ASSUME RInv, NEW t \in ClientThreads, Respond(t)
  PROVE  Turns' /\ CS!Answer(Gahak[t]) /\ Gahak[t] \in Conns
<1> DEFINE c == Gahak[t]
<1>1. /\ ClientMoves(t, "respond", "session") /\ c \in Conns
      /\ \A u \in Threads : u # t => kaam'[u] = kaam[u]
      /\ answered'[c] = answered[c] + 1
      /\ \A d \in Conns : d # c => answered'[d] = answered[d]
      /\ UNCHANGED <<Gahak, done, sent, executed>>
  BY RespondFacts DEF RInv, KInv
<1>2. Owning(t) /\ Serving(t) /\ done[kaam[t]]
  BY <1>1 DEF ClientMoves, Owning, Serving, RInv, KInv, DoneKept
<1>3. executed[c] = sent[c] /\ sent[c] = answered[c] + 1 /\ answered[c] \in Nat
  BY <1>1, <1>2 DEF Performed, RInv, Turns, KInv, HInv, TypeOK
<1>4. \A u \in ClientThreads : /\ Owning(u)' <=> Owning(u) /\ u # t
                               /\ u # t => kaam'[u] = kaam[u]
                               /\ Owning(u) /\ u # t => Gahak[u] # c
  BY <1>1, <1>2, OwnerAlone DEF ClientMoves, Owning, Threads
<1>5. \A j \in Tasks : Performed(j)' <=> Performed(j)
  BY <1>1, PoolsAssumption DEF Performed, ClientMoves, Threads
<1>6. ASSUME NEW u \in ClientThreads, Owning(u)'
      PROVE  /\ sent'[Gahak'[u]] = answered'[Gahak'[u]] + 1
             /\ executed'[Gahak'[u]] = IF Performed(kaam[u])' THEN sent'[Gahak'[u]]
                                       ELSE answered'[Gahak'[u]]
  <2>1. Owning(u) /\ kaam'[u] = kaam[u] /\ Gahak[u] \in Conns \ {c}
    BY <1>4, <1>6 DEF RInv, KInv, HInv, Handoff, Locals, Serving
  <2>2. PICK j \in Tasks : j = kaam[u] /\ j = kaam'[u]
    BY <2>1 DEF RInv, KInv, HInv, Handoff, Locals
  <2>3. Performed(kaam[u])' <=> Performed(kaam[u])
    BY <1>5, <2>2 DEF Performed
  <2>4. /\ sent[Gahak[u]] = answered[Gahak[u]] + 1
        /\ executed[Gahak[u]] = IF Performed(kaam[u]) THEN sent[Gahak[u]]
                                ELSE answered[Gahak[u]]
    BY <2>1 DEF RInv, Turns
  <2> QED
    BY <1>1, <2>1, <2>3, <2>4
<1>7. ASSUME NEW d \in Conns, \A u \in ClientThreads : Owning(u)' => Gahak'[u] # d
      PROVE  sent'[d] = executed'[d] /\ executed'[d] = answered'[d]
  <2>1. CASE d = c
    BY <1>1, <1>3, <2>1
  <2>2. CASE d # c
    <3>1. \A u \in ClientThreads : Owning(u) => Gahak[u] # d
      BY <1>1, <1>4, <1>7, <2>2
    <3> QED
      BY <1>1, <2>2, <3>1 DEF RInv, Turns
  <2> QED
    BY <2>1, <2>2
<1>8. Turns'
  BY <1>6, <1>7 DEF Turns
<1> QED
  BY <1>1, <1>3, <1>8 DEF Respond, CS!Answer

LEMMA InitRInv == Init => RInv
<1> SUFFICES ASSUME Init PROVE RInv
  OBVIOUS
<1>1. KInv /\ Placed /\ Linked
  BY InitKInv, InitPInv DEF PInv
<1>2. Turns
  BY DEF Init, Turns, Owning, Threads
<1> QED
  BY <1>1, <1>2 DEF RInv

(* Every step is one of CommandService, or changes none of its counts.     *)
LEMMA StepTurns ==
  ASSUME RInv, [Next]_vars
  PROVE  Turns' /\ [CS!ServiceNext]_(CS!serviceVars)
<1>1. CASE UNCHANGED vars
  <2>1. /\ UNCHANGED <<Gahak, kaam, countVars>>
        /\ \A t \in ClientThreads : Owning(t)' <=> Owning(t)
        /\ \A k \in Tasks : Performed(k)' <=> Performed(k)
    BY <1>1 DEF vars, taskVars, Owning, Performed
  <2> QED
    BY <2>1, TurnsKept DEF countVars, CS!serviceVars
<1>2. CASE Next
  <2>1. CASE \/ WaitingStep
             \/ \E t \in ClientThreads : \/ SessionStep(t) \/ RefuseCommand(t)
                                         \/ Submit(t) \/ AwaitResult(t)
             \/ \E w \in WorkerThreads : DequeueTask(w) \/ MarkDone(w) \/ SignalDone(w)
    BY <2>1, TurnsQuietSteps DEF CS!serviceVars
  <2>2. CASE \/ \E t \in ClientThreads : TakeCommand(t) \/ Respond(t)
             \/ \E w \in WorkerThreads : Execute(w)
    BY <2>2, TakeCommandTurns, RespondTurns, ExecuteTurns DEF CS!ServiceNext
  <2> QED
    BY <1>2, <2>1, <2>2, StepCases
<1> QED
  BY <1>1, <1>2

(* The pools implement the service: however threads, wake-ups, SIGINT and  *)
(* failing allocations interleave, the commands of a connection are taken  *)
(* one at a time, executed once each and answered after that.              *)
THEOREM Refinement == Spec => ImplementsCommandService
<1>1. Init => CS!ServiceInit
  BY DEF Init, CS!ServiceInit
<1>2. RInv /\ [Next]_vars => RInv'
  BY StepTurns, StepKInv, StepPInv DEF RInv, PInv, KInv
<1>3. RInv /\ [Next]_vars => [CS!ServiceNext]_(CS!serviceVars)
  BY StepTurns
<1> QED
  BY InitRInv, <1>1, <1>2, <1>3, PTL
     DEF Spec, ImplementsCommandService, CS!ServiceSpec
=============================================================================
