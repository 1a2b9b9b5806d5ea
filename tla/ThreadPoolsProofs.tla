------------------------- MODULE ThreadPoolsProofs -------------------------
EXTENDS ThreadPools, FiniteSetTheorems, TLAPS

Owning(t)  == pc[t] \in {"submit", "await", "blocked", "respond"}
Serving(t) == Owning(t) \/ pc[t] \in {"auth", "session"}

Queued(k)  == \E i \in 1 .. Len(TaskQue) : TaskQue[i] = k
InHands(k) == \E w \in WorkerThreads : Working(w) /\ kaam[w] = k

(* The local variables of a thread are set where its code uses them. *)
Locals == /\ main = "enqueue" => client_fd \in Conns
          /\ \A t \in ClientThreads : Serving(t) => Gahak[t] \in Conns
          /\ \A t \in ClientThreads : Owning(t)  => kaam[t] \in Tasks
          /\ \A w \in WorkerThreads : Working(w) => kaam[w] \in Tasks

(* A task in memory belongs to the client thread that allocated it. *)
Owners == /\ \A t \in ClientThreads : Owning(t) => conn[kaam[t]] = Gahak[t]
          /\ \A t, u \in ClientThreads :
               Owning(t) /\ Owning(u) /\ kaam[t] = kaam[u] => t = u

(* done is set after the task has left the queue, by the worker that then  *)
(* holds its mutex.                                                        *)
NotYetDone ==
  /\ \A t \in ClientThreads : pc[t] = "submit" => ~done[kaam[t]]
  /\ \A i \in 1 .. Len(TaskQue) : ~done[TaskQue[i]]
  /\ \A w \in WorkerThreads : pc[w] \in {"execute", "finish"} => ~done[kaam[w]]

Handoff == Locals /\ Owners /\ NoUseAfterFree /\ HandedOnce /\ NotYetDone

HInv == TypeOK /\ Handoff

-----------------------------------------------------------------------------
(* Queues are sequences; what the ends of one are. *)

LEMMA AppendFacts ==
  ASSUME NEW S, NEW q \in Seq(S), NEW x \in S
  PROVE  /\ Append(q, x) \in Seq(S)
         /\ Len(Append(q, x)) = Len(q) + 1 /\ Len(q) \in Nat
         /\ \A i \in 1 .. Len(q) : Append(q, x)[i] = q[i]
         /\ Append(q, x)[Len(q) + 1] = x
  OBVIOUS

LEMMA TailFacts ==
  ASSUME NEW S, NEW q \in Seq(S), q # <<>>
  PROVE  /\ Tail(q) \in Seq(S) /\ Head(q) \in S /\ Head(q) = q[1]
         /\ Len(q) \in Nat \ {0} /\ Len(Tail(q)) = Len(q) - 1
         /\ \A i \in 1 .. Len(q) - 1 : Tail(q)[i] = q[i + 1]
  OBVIOUS

LEMMA SignalledFacts ==
  ASSUME NEW waiting, NEW woken \in Signalled(waiting)
  PROVE  /\ woken \subseteq waiting
         /\ waiting # {} => \E t \in waiting : woken = {t}
  BY DEF Signalled

LEMMA AsleepFacts ==
  ASSUME NEW pool
  PROVE  \A t \in Asleep(pool) : pc[t] = "asleep"
  BY DEF Asleep

PcOK == /\ pc \in [Threads -> ClientPlaces \cup WorkerPlaces]
        /\ \A t \in ClientThreads : pc[t] \in ClientPlaces
        /\ \A w \in WorkerThreads : pc[w] \in WorkerPlaces

(* A step that leaves the tasks alone and no thread's stage changes. *)
SameStage ==
  /\ \A t \in ClientThreads : /\ Serving(t)' <=> Serving(t)
                              /\ Owning(t)' <=> Owning(t)
                              /\ Awaiting(t)' <=> Awaiting(t)
                              /\ pc'[t] = "submit" <=> pc[t] = "submit"
  /\ \A w \in WorkerThreads : Working(w) \/ Working(w)' => pc'[w] = pc[w]

LEMMA QuietHandoff ==
  ASSUME HInv, SameStage, UNCHANGED <<TaskQue, kaam, Gahak, taskVars>>,
         main' = "enqueue" => client_fd' \in Conns
  PROVE  Handoff'
<1> USE DEF HInv, Handoff, taskVars
<1>1. Locals'
  BY DEF Locals, SameStage, Working
<1>2. Owners'
  BY DEF Owners, SameStage
<1>3. NoUseAfterFree'
  BY DEF NoUseAfterFree, SameStage, Working
<1>4. HandedOnce'
  BY DEF HandedOnce, SameStage, Working
<1>5. NotYetDone'
  BY DEF NotYetDone, SameStage, Working
<1> QED
  BY <1>1, <1>2, <1>3, <1>4, <1>5

(* Waking threads moves nobody out of the stage it is in. *)
LEMMA WakeFacts ==
  ASSUME TypeOK, NEW woken,
         \A t \in Threads \cap woken : pc[t] \in {"asleep", "blocked"}
  PROVE  /\ Wake(woken) \in [Threads -> ClientPlaces \cup WorkerPlaces]
         /\ \A t \in Threads :
              \/ Wake(woken)[t] = pc[t]
              \/ pc[t] = "asleep"  /\ Wake(woken)[t] = "check"
              \/ pc[t] = "blocked" /\ Wake(woken)[t] = "await"
  BY DEF Wake, Resumed, TypeOK, ClientPlaces, WorkerPlaces

LEMMA WakeStage ==
  ASSUME TypeOK, NEW woken, pc' = Wake(woken),
         \A t \in Threads \cap woken : pc[t] \in {"asleep", "blocked"}
  PROVE  SameStage /\ PcOK'
<1>1. /\ pc' \in [Threads -> ClientPlaces \cup WorkerPlaces]
      /\ \A t \in Threads : \/ pc'[t] = pc[t]
                            \/ pc[t] = "asleep"  /\ pc'[t] = "check"
                            \/ pc[t] = "blocked" /\ pc'[t] = "await"
  BY WakeFacts
<1>2. \A w \in WorkerThreads : pc[w] # "blocked"
  BY DEF TypeOK, WorkerPlaces
<1> QED
  BY <1>1, <1>2 DEF PcOK, SameStage, Serving, Owning, Awaiting, Working,
                    TypeOK, Threads, ClientPlaces, WorkerPlaces

(* The steps of main and of the handler, and the waiting for work, do not  *)
(* touch a task.                                                           *)
LEMMA EnqueueClientInv == ASSUME HInv, EnqueueClient PROVE HInv'
<1>1. PICK woken \in SignalClients : pc' = Wake(woken)
  BY DEF EnqueueClient
<1>2. \A t \in Threads \cap woken : pc[t] \in {"asleep", "blocked"}
  BY <1>1, SignalledFacts DEF SignalClients, Asleep
<1>3. SameStage /\ PcOK'
  BY <1>1, <1>2, WakeStage DEF HInv
<1>4. client_fd \in Conns
  BY DEF EnqueueClient, HInv, Handoff, Locals
<1>5. ClntQue' \in Seq(Conns)
  <2>1. ClntQue \in Seq(Conns)
    BY DEF HInv, TypeOK
  <2>2. Append(ClntQue, client_fd) \in Seq(Conns)
    BY <1>4, <2>1, AppendFacts
  <2>3. ClntQue' = Append(ClntQue, client_fd) \/ ClntQue' = ClntQue
    BY DEF EnqueueClient, Enqueued
  <2> QED
    BY <2>1, <2>2, <2>3
<1>6. TypeOK'
  BY <1>3, <1>5 DEF PcOK, HInv, TypeOK, EnqueueClient, taskVars, countVars
<1>7. Handoff'
  BY <1>3, QuietHandoff DEF EnqueueClient
<1> QED
  BY <1>6, <1>7 DEF HInv

LEMMA BroadcastInv ==
  ASSUME HInv, WakeClients \/ WakeWorkers
  PROVE  HInv'
<1>1. PICK pool : /\ pc' = Wake(Asleep(pool))
                  /\ handler' \in {"wake_workers", "returned"}
                  /\ UNCHANGED <<main, client_fd, ServerRunning, ClntQue,
                                 TaskQue, Gahak, kaam, taskVars, link,
                                 countVars>>
  BY DEF WakeClients, WakeWorkers, Broadcast
<1>2. \A t \in Threads \cap Asleep(pool) : pc[t] \in {"asleep", "blocked"}
  BY DEF Asleep
<1>3. SameStage /\ PcOK'
  BY <1>1, <1>2, WakeStage DEF HInv
<1>4. TypeOK'
  BY <1>1, <1>3 DEF PcOK, HInv, TypeOK, taskVars, countVars
<1>5. Handoff'
  BY <1>1, <1>3, QuietHandoff DEF HInv, Handoff, Locals
<1> QED
  BY <1>4, <1>5 DEF HInv

LEMMA MainInv ==
  ASSUME HInv,
         StopAccepting \/ JoinClients \/ JoinWorkers \/ HandlerStop
           \/ \E c \in Conns : Accept(c)
  PROVE  HInv'
<1> USE DEF StopAccepting, JoinClients, JoinWorkers, MainStep, HandlerStop, Accept
<1>1. UNCHANGED <<ClntQue, TaskQue, pc, Gahak, kaam, taskVars, countVars>>
  OBVIOUS
<1>2. SameStage
  BY <1>1 DEF SameStage, Serving, Owning, Awaiting, Working
<1>3. main' = "enqueue" => client_fd' \in Conns
  BY DEF HInv, Handoff, Locals
<1>4. TypeOK'
  BY <1>1 DEF HInv, TypeOK, taskVars, countVars
<1>5. Handoff'
  BY <1>1, <1>2, <1>3, QuietHandoff
<1> QED
  BY <1>4, <1>5 DEF HInv

LEMMA WaitInv ==
  ASSUME HInv, NEW t \in Threads,
         \/ WaitForWork(t, ClientThreads, ClntQue)
         \/ WaitForWork(t, WorkerThreads, TaskQue)
         \/ WakeSpuriously(t)
  PROVE  HInv'
<1>1. UNCHANGED <<mainVars, ClntQue, TaskQue, Gahak, kaam, taskVars, link,
                  countVars>>
  BY DEF WaitForWork, WakeSpuriously
<1>2. SameStage /\ PcOK'
  <2>1. CASE WakeSpuriously(t)
    BY <2>1, WakeStage DEF WakeSpuriously, HInv
  <2>2. CASE ~WakeSpuriously(t)
    <3>1. PICK from \in {"check", "sleep"}, to \in {"sleep", "asleep", "exited"} :
            pc[t] = from /\ pc' = [pc EXCEPT ![t] = to]
      BY <2>2 DEF WaitForWork, FindEmpty, Sleep, Leave, Goto
    <3> QED
      BY <3>1 DEF PcOK, SameStage, Serving, Owning, Awaiting, Working, HInv,
                  TypeOK, Threads, ClientPlaces, WorkerPlaces
  <2> QED
    BY <2>1, <2>2
<1>3. TypeOK'
  BY <1>1, <1>2 DEF PcOK, HInv, TypeOK, mainVars, taskVars, countVars
<1>4. Handoff'
  BY <1>1, <1>2, QuietHandoff DEF HInv, Handoff, Locals, mainVars
<1> QED
  BY <1>3, <1>4 DEF HInv

(* A client thread takes, greets or drops a client: no task is involved.   *)
LEMMA SessionInv ==
  ASSUME HInv, NEW t \in ClientThreads,
         DequeueClient(t) \/ Authenticate(t) \/ HangUp(t)
  PROVE  HInv'
<1> USE DEF Goto
<1>1. PICK to \in {"auth", "session", "check"} :
        /\ pc' = [pc EXCEPT ![t] = to]
        /\ pc[t] \in {"check", "auth", "session"}
        /\ Serving(t)' => Gahak'[t] \in Conns
        /\ \A u \in ClientThreads \ {t} : Gahak'[u] = Gahak[u]
        /\ Gahak' \in [ClientThreads -> Conns \cup {NoConn}]
        /\ ClntQue' \in Seq(Conns)
        /\ link' \in [Conns -> {"new", "open", "closed"}]
        /\ UNCHANGED <<mainVars, TaskQue, kaam, taskVars, countVars>>
  <2>1. CASE DequeueClient(t)
    <3>1. ClntQue \in Seq(Conns) /\ ClntQue # <<>>
      BY <2>1 DEF DequeueClient, ClientDequeued, HInv, TypeOK
    <3>2. Tail(ClntQue) \in Seq(Conns) /\ Head(ClntQue) \in Conns
      BY <3>1, TailFacts
    <3> QED
      BY <2>1, <3>2 DEF DequeueClient, ClientDequeued, HInv, TypeOK
  <2>2. CASE Authenticate(t)
    BY <2>2 DEF Authenticate, HInv, TypeOK, Handoff, Locals, Serving
  <2>3. CASE HangUp(t)
    BY <2>3 DEF HangUp, Closed, HInv, TypeOK, Serving, Owning, Threads
  <2> QED
    BY <2>1, <2>2, <2>3
<1>2. TypeOK'
  <2>1. PcOK'
    BY <1>1, PoolsAssumption
       DEF PcOK, HInv, TypeOK, Threads, ClientPlaces, WorkerPlaces
  <2> QED
    BY <1>1, <2>1 DEF PcOK, HInv, TypeOK, mainVars, taskVars, countVars
<1>3. \A u \in Threads : pc'[u] = IF u = t THEN to ELSE pc[u]
  BY <1>1 DEF HInv, TypeOK
<1>4. /\ ~Owning(t) /\ ~Owning(t)' /\ ~Awaiting(t) /\ ~Awaiting(t)'
      /\ pc'[t] # "submit"
  BY <1>1, <1>3 DEF Owning, Awaiting, Threads
<1>5. \A u \in ClientThreads : /\ Owning(u)' <=> Owning(u)
                               /\ Awaiting(u)' <=> Awaiting(u)
                               /\ u # t => (Serving(u)' <=> Serving(u))
  BY <1>3, <1>4 DEF Serving, Owning, Awaiting, Threads
<1>6. \A w \in WorkerThreads : pc'[w] = pc[w]
  BY <1>3, PoolsAssumption DEF Threads
<1>7. Locals'
  BY <1>1, <1>5, <1>6 DEF HInv, Handoff, Locals, Working, mainVars
<1>8. Owners'
  BY <1>1, <1>4, <1>5 DEF HInv, Handoff, Owners, taskVars
<1>9. NoUseAfterFree'
  BY <1>1, <1>5, <1>6 DEF HInv, Handoff, NoUseAfterFree, Working
<1>10. HandedOnce'
  BY <1>1, <1>6 DEF HInv, Handoff, HandedOnce, Working
<1>11. NotYetDone'
  BY <1>1, <1>3, <1>4, <1>6 DEF HInv, Handoff, NotYetDone, Threads, taskVars
<1> QED
  BY <1>2, <1>7, <1>8, <1>9, <1>10, <1>11 DEF HInv, Handoff

(* malloc returned memory no client thread owns. *)
LEMMA TakeCommandInv ==
  ASSUME HInv, NEW t \in ClientThreads, TakeCommand(t)
  PROVE  HInv'
<1> USE DEF Goto
<1>1. PICK k \in Tasks : /\ conn[k] = NoConn
                         /\ conn' = [conn EXCEPT ![k] = Gahak[t]]
                         /\ done' = Cleared(k)
                         /\ kaam' = [kaam EXCEPT ![t] = k]
  BY DEF TakeCommand, AllocateTask
<1>2. /\ pc[t] = "session" /\ pc' = [pc EXCEPT ![t] = "submit"]
      /\ Gahak[t] \in Conns
      /\ UNCHANGED <<mainVars, ClntQue, TaskQue, Gahak, link, executed, answered,
                     refused>>
      /\ sent' = [sent EXCEPT ![Gahak[t]] = @ + 1]
  BY DEF TakeCommand, HInv, Handoff, Locals, Serving
<1>3. TypeOK'
  <2>1. done' \in [Tasks -> BOOLEAN]
    BY <1>1, Zenon DEF Cleared, HInv, TypeOK
  <2>2. PcOK'
    BY <1>2 DEF PcOK, HInv, TypeOK, Threads, ClientPlaces, WorkerPlaces
  <2>3. sent' \in [Conns -> Nat]
    BY <1>2 DEF HInv, TypeOK
  <2>4. /\ conn' \in [Tasks -> Conns \cup {NoConn}]
        /\ kaam' \in [Threads -> Tasks \cup {NoTask}]
    BY <1>1, <1>2 DEF HInv, TypeOK
  <2> QED
    BY <1>2, <2>1, <2>2, <2>3, <2>4 DEF PcOK, HInv, TypeOK, mainVars
<1>4. /\ \A u \in Threads : /\ pc'[u] = IF u = t THEN "submit" ELSE pc[u]
                            /\ kaam'[u] = IF u = t THEN k ELSE kaam[u]
      /\ \A j \in Tasks : /\ conn'[j] = IF j = k THEN Gahak[t] ELSE conn[j]
                          /\ j # k => done'[j] = done[j]
      /\ ~done'[k]
  BY <1>1, <1>2 DEF Cleared, HInv, TypeOK
<1>5. \A u \in ClientThreads : Owning(u) => kaam[u] # k
  BY <1>1, DataAssumption DEF HInv, Handoff, Owners, Locals, Serving
<1>6. ~Queued(k) /\ ~InHands(k)
  BY <1>5 DEF HInv, Handoff, NoUseAfterFree, Queued, InHands, Owning, Awaiting
<1>7. \A w \in WorkerThreads : pc'[w] = pc[w] /\ kaam'[w] = kaam[w]
  BY <1>4, PoolsAssumption DEF Threads
<1>8. \A u \in ClientThreads :
        /\ Owning(u)' <=> Owning(u) \/ u = t
        /\ Awaiting(u)' <=> Awaiting(u)
        /\ Serving(u)' <=> Serving(u)
        /\ Awaiting(u) => kaam'[u] = kaam[u]
  BY <1>2, <1>4 DEF Owning, Awaiting, Serving, Threads
<1>9. Locals'
  BY <1>2, <1>4, <1>7, <1>8 DEF HInv, Handoff, Locals, Working, Threads, mainVars
<1>10. Owners'
  BY <1>2, <1>4, <1>5, <1>8 DEF HInv, Handoff, Owners, Locals, Threads
<1>11. NoUseAfterFree'
  BY <1>2, <1>7, <1>8 DEF HInv, Handoff, NoUseAfterFree, Working
<1>12. HandedOnce'
  BY <1>2, <1>7 DEF HInv, Handoff, HandedOnce, Working
<1>13. NotYetDone'
  <2>1. \A i \in 1 .. Len(TaskQue) : TaskQue[i] \in Tasks /\ TaskQue[i] # k
    BY <1>6 DEF Queued, HInv, TypeOK
  <2>2. \A w \in WorkerThreads : pc[w] \in {"execute", "finish"}
                                => kaam[w] \in Tasks /\ kaam[w] # k
    BY <1>6 DEF InHands, Working, HInv, Handoff, Locals
  <2>3. \A u \in ClientThreads : pc[u] = "submit"
                                => kaam[u] \in Tasks /\ kaam[u] # k
    BY <1>5 DEF Owning, HInv, Handoff, Locals
  <2> QED
    BY <1>2, <1>4, <1>7, <2>1, <2>2, <2>3 DEF HInv, Handoff, NotYetDone, Threads
<1> QED
  BY <1>3, <1>9, <1>10, <1>11, <1>12, <1>13 DEF HInv, Handoff

(* Nor does anybody own the task of a command that is refused.             *)
LEMMA RefuseCommandInv ==
  ASSUME HInv, NEW t \in ClientThreads, RefuseCommand(t)
  PROVE  HInv'
<1>1. PICK k \in Tasks : /\ conn[k] = NoConn
                         /\ conn' = [conn EXCEPT ![k] = Gahak[t]]
                         /\ done' = Cleared(k)
                         /\ refused' = refused \cup {k}
  BY DEF RefuseCommand, AllocateTask
<1>2. /\ Gahak[t] \in Conns
      /\ UNCHANGED <<mainVars, ClntQue, TaskQue, pc, Gahak, kaam, link, sent,
                     executed, answered>>
  BY DEF RefuseCommand, HInv, Handoff, Locals, Serving
<1>3. TypeOK'
  <2>1. done' \in [Tasks -> BOOLEAN]
    BY <1>1, Zenon DEF Cleared, HInv, TypeOK
  <2>2. conn' \in [Tasks -> Conns \cup {NoConn}]
    BY <1>1, <1>2 DEF HInv, TypeOK
  <2>3. refused' \subseteq Tasks
    BY <1>1 DEF HInv, TypeOK
  <2> QED
    BY <1>2, <2>1, <2>2, <2>3 DEF HInv, TypeOK, mainVars
<1>4. \A j \in Tasks \ {k} : conn'[j] = conn[j] /\ done'[j] = done[j]
  BY <1>1 DEF Cleared, HInv, TypeOK
<1>5. ~done'[k]
  BY <1>1 DEF Cleared, HInv, TypeOK
<1>6. \A u \in ClientThreads : Owning(u) => kaam[u] \in Tasks \ {k}
  BY <1>1, DataAssumption DEF HInv, Handoff, Owners, Locals, Serving
<1>7. Locals' /\ NoUseAfterFree' /\ HandedOnce'
  BY <1>2 DEF HInv, Handoff, Locals, Serving, Owning, Working, mainVars,
              NoUseAfterFree, Awaiting, HandedOnce
<1>8. Owners'
  BY <1>2, <1>4, <1>6 DEF HInv, Handoff, Owners, Owning
<1>9. NotYetDone'
  <2>1. \A j \in Tasks : done'[j] => done[j]
    BY <1>4, <1>5
  <2>2. /\ \A i \in 1 .. Len(TaskQue) : TaskQue[i] \in Tasks
        /\ \A w \in WorkerThreads : Working(w) => kaam[w] \in Tasks
        /\ \A u \in ClientThreads : pc[u] = "submit" => kaam[u] \in Tasks
    BY DEF HInv, TypeOK, Handoff, Locals, Owning
  <2> QED
    BY <1>2, <2>1, <2>2 DEF HInv, Handoff, NotYetDone, Working
<1> QED
  BY <1>3, <1>7, <1>8, <1>9 DEF HInv, Handoff

(* The task enters the queue (or, with no memory for a node, is forgotten).*)
LEMMA SubmitInv ==
  ASSUME HInv, NEW t \in ClientThreads, Submit(t)
  PROVE  HInv'
<1> DEFINE k == kaam[t]
<1>1. PICK woken \in SignalWorkers : pc' = [Wake(woken) EXCEPT ![t] = "await"]
  BY DEF Submit
<1>2. /\ pc[t] = "submit" /\ k \in Tasks /\ TaskQue \in Seq(Tasks)
      /\ Owning(t) /\ ~Awaiting(t) /\ ~done[k]
      /\ UNCHANGED <<mainVars, ClntQue, Gahak, kaam, taskVars, link, countVars>>
  BY DEF Submit, HInv, TypeOK, Handoff, Locals, Owning, Awaiting, NotYetDone
<1>3. \A u \in Threads \cap woken : pc[u] \in {"asleep", "blocked"}
  BY <1>1, SignalledFacts DEF SignalWorkers, Asleep
<1>4. /\ Wake(woken) \in [Threads -> ClientPlaces \cup WorkerPlaces]
      /\ \A u \in Threads : \/ Wake(woken)[u] = pc[u]
                            \/ pc[u] = "asleep"  /\ Wake(woken)[u] = "check"
                            \/ pc[u] = "blocked" /\ Wake(woken)[u] = "await"
  BY <1>3, WakeFacts DEF HInv
<1>5. /\ pc'[t] = "await"
      /\ \A u \in Threads \ {t} : \/ pc'[u] = pc[u]
                                  \/ pc[u] = "asleep"  /\ pc'[u] = "check"
                                  \/ pc[u] = "blocked" /\ pc'[u] = "await"
  BY <1>1, <1>4 DEF Threads
<1>6. t \notin WorkerThreads /\ \A w \in WorkerThreads : pc[w] # "blocked"
  BY PoolsAssumption DEF HInv, TypeOK, WorkerPlaces
<1>7. /\ \A u \in ClientThreads : /\ Serving(u)' <=> Serving(u)
                                  /\ Owning(u)' <=> Owning(u)
                                  /\ Awaiting(u)' <=> Awaiting(u) \/ u = t
                                  /\ pc'[u] = "submit" => pc[u] = "submit"
      /\ \A w \in WorkerThreads : Working(w) \/ Working(w)' => pc'[w] = pc[w]
  BY <1>2, <1>5, <1>6 DEF Serving, Owning, Awaiting, Working, Threads
<1>8. \/ TaskQue' = TaskQue
      \/ /\ TaskQue' = Append(TaskQue, k)
         /\ TaskQue' \in Seq(Tasks)
         /\ Len(TaskQue') = Len(TaskQue) + 1 /\ Len(TaskQue) \in Nat
         /\ \A i \in 1 .. Len(TaskQue) : TaskQue'[i] = TaskQue[i]
         /\ TaskQue'[Len(TaskQue) + 1] = k
  <2>1. /\ Append(TaskQue, k) \in Seq(Tasks)
        /\ Len(Append(TaskQue, k)) = Len(TaskQue) + 1 /\ Len(TaskQue) \in Nat
        /\ \A i \in 1 .. Len(TaskQue) : Append(TaskQue, k)[i] = TaskQue[i]
        /\ Append(TaskQue, k)[Len(TaskQue) + 1] = k
    BY <1>2, AppendFacts
  <2> QED
    BY <2>1 DEF Submit, Enqueued
<1>9. ~Queued(k) /\ ~InHands(k)
  BY <1>2 DEF HInv, Handoff, NoUseAfterFree, Owners, Queued, InHands, Owning,
              Awaiting
<1>10. TypeOK'
  <2>1. PcOK'
    BY <1>1, <1>4, <1>5, <1>6
       DEF PcOK, HInv, TypeOK, Threads, ClientPlaces, WorkerPlaces
  <2> QED
    BY <1>2, <1>8, <2>1 DEF PcOK, HInv, TypeOK, mainVars, taskVars, countVars
<1>11. Locals'
  BY <1>2, <1>7 DEF HInv, Handoff, Locals, Working, mainVars
<1>12. Owners'
  BY <1>2, <1>7 DEF HInv, Handoff, Owners, taskVars
<1>13. NoUseAfterFree'
  <2> SUFFICES ASSUME NEW j \in Tasks, Queued(j)' \/ InHands(j)'
               PROVE  \E u \in ClientThreads : Awaiting(u)' /\ kaam[u] = j
    BY <1>2 DEF NoUseAfterFree, Queued, InHands
  <2>1. Queued(j) \/ InHands(j) \/ j = k
    BY <1>2, <1>7, <1>8 DEF Queued, InHands, Working
  <2> QED
    BY <1>7, <2>1 DEF HInv, Handoff, NoUseAfterFree, Queued, InHands
<1>14. HandedOnce'
  <2>1. \A i, j \in 1 .. Len(TaskQue') : TaskQue'[i] = TaskQue'[j] => i = j
    BY <1>8, <1>9 DEF HInv, Handoff, HandedOnce, Queued
  <2>2. \A i \in 1 .. Len(TaskQue') :
          ~\E w \in WorkerThreads : Working(w) /\ kaam[w] = TaskQue'[i]
    BY <1>8, <1>9 DEF HInv, Handoff, HandedOnce, InHands
  <2> QED
    BY <1>2, <1>7, <2>1, <2>2 DEF HInv, Handoff, HandedOnce, Working
<1>15. NotYetDone'
  <2>1. \A i \in 1 .. Len(TaskQue') : ~done[TaskQue'[i]]
    BY <1>2, <1>8 DEF HInv, Handoff, NotYetDone
  <2> QED
    BY <1>2, <1>7, <2>1 DEF HInv, Handoff, NotYetDone, Working, taskVars
<1> QED
  BY <1>10, <1>11, <1>12, <1>13, <1>14, <1>15 DEF HInv, Handoff

(* A client thread that finds done set finds its task out of the queue,    *)
(* and with no worker: one that had set done still would hold m.           *)
LEMMA AwaitInv ==
  ASSUME HInv, NEW t \in ClientThreads, AwaitResult(t)
  PROVE  HInv'
<1> USE DEF Goto
<1>1. PICK to \in {"respond", "blocked"} :
        /\ pc[t] = "await" /\ pc' = [pc EXCEPT ![t] = to]
        /\ to = "respond" => done[kaam[t]]
        /\ MutexFree(kaam[t])
        /\ UNCHANGED <<mainVars, ClntQue, TaskQue, Gahak, kaam, taskVars, link,
                       countVars>>
  BY DEF AwaitResult
<1>2. /\ \A u \in Threads : pc'[u] = IF u = t THEN to ELSE pc[u]
      /\ \A w \in WorkerThreads : pc'[w] = pc[w]
  BY <1>1, PoolsAssumption DEF HInv, TypeOK, Threads
<1>3. \A u \in ClientThreads :
        /\ Serving(u)' <=> Serving(u)
        /\ Owning(u)' <=> Owning(u)
        /\ Awaiting(u)' <=> Awaiting(u) /\ ~(u = t /\ to = "respond")
        /\ pc'[u] = "submit" <=> pc[u] = "submit"
  BY <1>1, <1>2 DEF Serving, Owning, Awaiting, Threads
<1>4. TypeOK'
  <2>1. PcOK'
    BY <1>1, PoolsAssumption
       DEF PcOK, HInv, TypeOK, Threads, ClientPlaces, WorkerPlaces
  <2> QED
    BY <1>1, <2>1 DEF PcOK, HInv, TypeOK, mainVars, taskVars, countVars
<1>5. Locals' /\ Owners'
  BY <1>1, <1>2, <1>3 DEF HInv, Handoff, Locals, Owners, Working, mainVars,
                          taskVars
<1>6. HandedOnce' /\ NotYetDone'
  BY <1>1, <1>2, <1>3 DEF HInv, Handoff, HandedOnce, NotYetDone, Working, taskVars
<1>7. NoUseAfterFree'
  <2> SUFFICES ASSUME NEW j \in Tasks, Queued(j) \/ InHands(j)
               PROVE  \E u \in ClientThreads : Awaiting(u)' /\ kaam[u] = j
    BY <1>1, <1>2 DEF NoUseAfterFree, Queued, InHands, Working
  <2>1. PICK u \in ClientThreads : Awaiting(u) /\ kaam[u] = j
    BY DEF HInv, Handoff, NoUseAfterFree, Queued, InHands
  <2>2. CASE u = t /\ to = "respond"
    <3>1. done[j]
      BY <1>1, <2>1, <2>2
    <3>2. ~Queued(j)
      BY <3>1 DEF Queued, HInv, Handoff, NotYetDone
    <3>3. ~InHands(j)
      BY <1>1, <2>1, <2>2, <3>1
         DEF InHands, Working, MutexFree, HInv, Handoff, NotYetDone
    <3> QED
      BY <3>2, <3>3
  <2>3. CASE ~(u = t /\ to = "respond")
    BY <1>3, <2>1, <2>3
  <2> QED
    BY <2>2, <2>3
<1> QED
  BY <1>4, <1>5, <1>6, <1>7 DEF HInv, Handoff

LEMMA RespondInv ==
  ASSUME HInv, NEW t \in ClientThreads, Respond(t)
  PROVE  HInv'
<1> USE DEF Goto
<1> DEFINE k == kaam[t]
<1>1. /\ pc[t] = "respond" /\ pc' = [pc EXCEPT ![t] = "session"]
      /\ k \in Tasks /\ Owning(t) /\ Serving(t) /\ ~Awaiting(t)
      /\ conn' = [conn EXCEPT ![k] = NoConn]
      /\ kaam' = [kaam EXCEPT ![t] = NoTask]
      /\ answered' = [answered EXCEPT ![Gahak[t]] = @ + 1]
      /\ UNCHANGED <<mainVars, ClntQue, TaskQue, Gahak, done, link, sent,
                     executed, refused>>
  BY DEF Respond, HInv, Handoff, Locals, Owning, Serving, Awaiting
<1>2. /\ \A u \in Threads : pc'[u] = IF u = t THEN "session" ELSE pc[u]
      /\ \A u \in Threads \ {t} : kaam'[u] = kaam[u]
      /\ \A w \in WorkerThreads : pc'[w] = pc[w] /\ kaam'[w] = kaam[w]
      /\ \A j \in Tasks \ {k} : conn'[j] = conn[j]
  BY <1>1, PoolsAssumption DEF HInv, TypeOK, Threads
<1>3. \A u \in ClientThreads :
        /\ Serving(u)' <=> Serving(u)
        /\ Owning(u)' <=> Owning(u) /\ u # t
        /\ Awaiting(u)' <=> Awaiting(u)
        /\ pc'[u] = "submit" <=> pc[u] = "submit"
        /\ u # t => kaam'[u] = kaam[u]
  BY <1>1, <1>2 DEF Serving, Owning, Awaiting, Threads
<1>4. TypeOK'
  <2>1. PcOK'
    BY <1>1, PoolsAssumption
       DEF PcOK, HInv, TypeOK, Threads, ClientPlaces, WorkerPlaces
  <2>2. /\ conn' \in [Tasks -> Conns \cup {NoConn}]
        /\ kaam' \in [Threads -> Tasks \cup {NoTask}]
    BY <1>1 DEF HInv, TypeOK
  <2>3. answered' \in [Conns -> Nat]
    BY <1>1 DEF HInv, TypeOK, Handoff, Locals
  <2> QED
    BY <1>1, <2>1, <2>2, <2>3 DEF PcOK, HInv, TypeOK, mainVars
<1>5. Locals'
  BY <1>1, <1>2, <1>3 DEF HInv, Handoff, Locals, Working, mainVars
<1>6. Owners'
  <2>1. \A u \in ClientThreads : Owning(u)' => kaam[u] \in Tasks \ {k}
    BY <1>1, <1>3 DEF HInv, Handoff, Owners, Locals
  <2> QED
    BY <1>1, <1>2, <1>3, <2>1 DEF HInv, Handoff, Owners
<1>7. NoUseAfterFree'
  BY <1>1, <1>2, <1>3 DEF HInv, Handoff, NoUseAfterFree, Working
<1>8. HandedOnce'
  BY <1>1, <1>2 DEF HInv, Handoff, HandedOnce, Working
<1>9. NotYetDone'
  BY <1>1, <1>2, <1>3 DEF HInv, Handoff, NotYetDone
<1> QED
  BY <1>4, <1>5, <1>6, <1>7, <1>8, <1>9 DEF HInv, Handoff

LEMMA DequeueTaskInv ==
  ASSUME HInv, NEW w \in WorkerThreads, DequeueTask(w)
  PROVE  HInv'
<1> USE DEF Goto
<1> DEFINE k == Head(TaskQue)
           n == Len(TaskQue)
<1>1. TaskQue \in Seq(Tasks) /\ TaskQue # <<>>
  BY DEF DequeueTask, HInv, TypeOK
<1>2. /\ TaskQue' \in Seq(Tasks) /\ k \in Tasks /\ k = TaskQue[1]
      /\ n \in Nat \ {0} /\ Len(TaskQue') = n - 1
      /\ \A i \in 1 .. n - 1 : TaskQue'[i] = TaskQue[i + 1]
  BY <1>1, TailFacts DEF DequeueTask, TaskDequeued
<1>3. /\ pc[w] = "check" /\ pc' = [pc EXCEPT ![w] = "execute"]
      /\ kaam' = [kaam EXCEPT ![w] = k]
      /\ UNCHANGED <<mainVars, ClntQue, Gahak, taskVars, link, countVars>>
  BY DEF DequeueTask
<1>4. /\ \A u \in Threads : /\ pc'[u] = IF u = w THEN "execute" ELSE pc[u]
                            /\ kaam'[u] = IF u = w THEN k ELSE kaam[u]
      /\ w \in Threads /\ w \notin ClientThreads
  BY <1>3, PoolsAssumption DEF HInv, TypeOK, Threads
<1>5. /\ \A u \in ClientThreads : /\ pc'[u] = pc[u] /\ kaam'[u] = kaam[u]
                                  /\ Serving(u)' <=> Serving(u)
                                  /\ Owning(u)' <=> Owning(u)
                                  /\ Awaiting(u)' <=> Awaiting(u)
      /\ \A v \in WorkerThreads : /\ Working(v)' <=> Working(v) \/ v = w
                                  /\ v # w => /\ kaam'[v] = kaam[v]
                                              /\ pc'[v] = pc[v]
      /\ ~Working(w) /\ kaam'[w] = k
  BY <1>3, <1>4 DEF Serving, Owning, Awaiting, Working, Threads
<1>6. TypeOK'
  <2>1. PcOK'
    BY <1>3, <1>4 DEF PcOK, HInv, TypeOK, Threads, ClientPlaces, WorkerPlaces
  <2>2. kaam' \in [Threads -> Tasks \cup {NoTask}]
    BY <1>2, <1>3 DEF HInv, TypeOK
  <2> QED
    BY <1>2, <1>3, <2>1, <2>2 DEF PcOK, HInv, TypeOK, mainVars, taskVars, countVars
<1>7. Locals' /\ Owners'
  BY <1>2, <1>3, <1>5 DEF HInv, Handoff, Locals, Owners, mainVars, taskVars
<1>8. \A i \in 1 .. n - 1 : i + 1 \in 1 .. n /\ 1 \in 1 .. n
  BY <1>2
<1>9. NoUseAfterFree'
  <2> SUFFICES ASSUME NEW j \in Tasks, Queued(j)' \/ InHands(j)'
               PROVE  \E u \in ClientThreads : Awaiting(u)' /\ kaam'[u] = j
    BY DEF NoUseAfterFree, Queued, InHands
  <2>1. Queued(j) \/ InHands(j)
    BY <1>2, <1>5, <1>8 DEF Queued, InHands
  <2> QED
    BY <1>5, <2>1 DEF HInv, Handoff, NoUseAfterFree, Queued, InHands
<1>10. HandedOnce'
  <2>1. \A i, j \in 1 .. n - 1 : TaskQue'[i] = TaskQue'[j] => i = j
    BY <1>2, <1>8 DEF HInv, Handoff, HandedOnce
  <2>2. \A i \in 1 .. n - 1 : TaskQue'[i] # k
    BY <1>2, <1>8 DEF HInv, Handoff, HandedOnce
  <2>3. \A v \in WorkerThreads : Working(v) => kaam[v] # k
    BY <1>2 DEF HInv, Handoff, HandedOnce
  <2>4. \A i \in 1 .. n - 1 :
          ~\E v \in WorkerThreads : Working(v) /\ kaam[v] = TaskQue'[i]
    BY <1>2, <1>8 DEF HInv, Handoff, HandedOnce
  <2>5. \A u, v \in WorkerThreads :
          Working(u)' /\ Working(v)' /\ kaam'[u] = kaam'[v] => u = v
    BY <1>5, <2>3 DEF HInv, Handoff, HandedOnce
  <2>6. \A i \in 1 .. n - 1 :
          ~\E v \in WorkerThreads : Working(v)' /\ kaam'[v] = TaskQue'[i]
    BY <1>5, <2>2, <2>4
  <2> QED
    BY <1>2, <2>1, <2>5, <2>6 DEF HandedOnce
<1>11. NotYetDone'
  <2>1. ~done[k] /\ \A i \in 1 .. n - 1 : ~done[TaskQue'[i]]
    BY <1>2, <1>8 DEF HInv, Handoff, NotYetDone
  <2> QED
    BY <1>2, <1>3, <1>5, <2>1 DEF HInv, Handoff, NotYetDone, Working, taskVars
<1> QED
  BY <1>6, <1>7, <1>9, <1>10, <1>11 DEF HInv, Handoff

(* A worker's task is one that a client thread waits for. *)
LEMMA HeldTask ==
  ASSUME HInv, NEW w \in WorkerThreads, Working(w)
  PROVE  \E t \in ClientThreads : /\ Awaiting(t) /\ kaam[t] = kaam[w]
                                  /\ Gahak[t] \in Conns
                                  /\ conn[kaam[w]] = Gahak[t]
<1>1. PICK t \in ClientThreads : Awaiting(t) /\ kaam[t] = kaam[w]
  BY DEF HInv, Handoff, NoUseAfterFree, Locals
<1> QED
  BY <1>1 DEF HInv, Handoff, Owners, Locals, Owning, Serving, Awaiting

(* execute_task changes nothing the handoff depends on. *)
LEMMA ExecuteInv ==
  ASSUME HInv, NEW w \in WorkerThreads, Execute(w)
  PROVE  HInv'
<1> USE DEF Goto
<1> DEFINE k == kaam[w]
<1>1. /\ pc[w] = "execute" /\ pc' = [pc EXCEPT ![w] = "finish"]
      /\ k \in Tasks
      /\ executed' = [executed EXCEPT ![conn[k]] = @ + 1]
      /\ UNCHANGED <<mainVars, ClntQue, TaskQue, Gahak, kaam, taskVars, link,
                     sent, answered, refused>>
  BY DEF Execute, HInv, Handoff, Locals, Working
<1>2. /\ w \in Threads /\ w \notin ClientThreads
      /\ \A u \in Threads : pc'[u] = IF u = w THEN "finish" ELSE pc[u]
  BY <1>1, PoolsAssumption DEF HInv, TypeOK, Threads
<1>3. /\ \A u \in ClientThreads : pc'[u] = pc[u]
      /\ \A v \in WorkerThreads :
           /\ Working(v)' <=> Working(v)
           /\ pc'[v] \in {"execute", "finish"} => pc[v] \in {"execute", "finish"}
  BY <1>1, <1>2 DEF Working, Threads
<1>4. TypeOK'
  <2>1. PcOK'
    BY <1>1, <1>2 DEF PcOK, HInv, TypeOK, Threads, ClientPlaces, WorkerPlaces
  <2>2. executed' \in [Conns -> Nat]
    <3>1. conn[k] \in Conns
      BY <1>1, HeldTask DEF Working
    <3>2. executed[conn[k]] + 1 \in Nat
      BY <3>1 DEF HInv, TypeOK
    <3> QED
      BY <1>1, <3>2 DEF HInv, TypeOK
  <2> QED
    BY <1>1, <2>1, <2>2 DEF PcOK, HInv, TypeOK, mainVars, taskVars
<1>5. Locals' /\ Owners'
  BY <1>1, <1>3 DEF HInv, Handoff, Locals, Owners, Serving, Owning, mainVars,
                    taskVars
<1>6. NoUseAfterFree' /\ HandedOnce'
  BY <1>1, <1>3 DEF HInv, Handoff, NoUseAfterFree, HandedOnce, Awaiting
<1>7. NotYetDone'
  BY <1>1, <1>3 DEF HInv, Handoff, NotYetDone, taskVars
<1> QED
  BY <1>4, <1>5, <1>6, <1>7 DEF HInv, Handoff

(* The task whose done is set is neither queued nor with another worker,   *)
(* and its client thread is past submitting it.                            *)
LEMMA MarkDoneInv ==
  ASSUME HInv, NEW w \in WorkerThreads, MarkDone(w)
  PROVE  HInv'
<1> USE DEF Goto
<1> DEFINE k == kaam[w]
<1>1. /\ pc[w] = "finish" /\ pc' = [pc EXCEPT ![w] = "signal"]
      /\ k \in Tasks /\ Working(w)
      /\ done' = [done EXCEPT ![k] = TRUE]
      /\ UNCHANGED <<mainVars, ClntQue, TaskQue, Gahak, kaam, conn, link,
                     countVars>>
  BY DEF MarkDone, HInv, Handoff, Locals, Working
<1>2. /\ w \in Threads /\ w \notin ClientThreads
      /\ \A u \in Threads : pc'[u] = IF u = w THEN "signal" ELSE pc[u]
      /\ \A j \in Tasks \ {k} : done'[j] = done[j]
  BY <1>1, PoolsAssumption DEF HInv, TypeOK, Threads
<1>3. /\ \A u \in ClientThreads : pc'[u] = pc[u]
      /\ \A v \in WorkerThreads :
           /\ Working(v)' <=> Working(v)
           /\ pc'[v] \in {"execute", "finish"}
                => pc[v] \in {"execute", "finish"} /\ v # w
  BY <1>1, <1>2 DEF Working, Threads
<1>4. TypeOK'
  <2>1. PcOK'
    BY <1>1, <1>2 DEF PcOK, HInv, TypeOK, Threads, ClientPlaces, WorkerPlaces
  <2>2. done' \in [Tasks -> BOOLEAN]
    BY <1>1, Zenon DEF HInv, TypeOK
  <2> QED
    BY <1>1, <2>1, <2>2 DEF PcOK, HInv, TypeOK, mainVars, countVars
<1>5. Locals' /\ Owners'
  BY <1>1, <1>3 DEF HInv, Handoff, Locals, Owners, Serving, Owning, mainVars
<1>6. NoUseAfterFree' /\ HandedOnce'
  BY <1>1, <1>3 DEF HInv, Handoff, NoUseAfterFree, HandedOnce, Awaiting
<1>7. NotYetDone'
  <2>1. \A i \in 1 .. Len(TaskQue) : TaskQue[i] \in Tasks \ {k}
    BY <1>1 DEF HInv, TypeOK, Handoff, HandedOnce
  <2>2. \A v \in WorkerThreads : Working(v) /\ v # w => kaam[v] \in Tasks \ {k}
    BY <1>1 DEF HInv, Handoff, Locals, HandedOnce
  <2>3. \A u \in ClientThreads : pc[u] = "submit" => kaam[u] \in Tasks \ {k}
    <3>1. PICK t \in ClientThreads : Awaiting(t) /\ kaam[t] = k
      BY <1>1 DEF HInv, Handoff, NoUseAfterFree
    <3> QED
      BY <3>1 DEF HInv, Handoff, Owners, Locals, Owning, Awaiting
  <2> QED
    BY <1>1, <1>2, <1>3, <2>1, <2>2, <2>3
       DEF HInv, Handoff, NotYetDone, Working
<1> QED
  BY <1>4, <1>5, <1>6, <1>7 DEF HInv, Handoff

(* With the signal and the unlock the worker lets go of the task. *)
LEMMA SignalDoneInv ==
  ASSUME HInv, NEW w \in WorkerThreads, SignalDone(w)
  PROVE  HInv'
<1>1. PICK woken \in Signalled(BlockedOn(kaam[w])) :
        pc' = [Wake(woken) EXCEPT ![w] = "check"]
  BY DEF SignalDone
<1>2. /\ pc[w] = "signal" /\ kaam' = [kaam EXCEPT ![w] = NoTask]
      /\ UNCHANGED <<mainVars, ClntQue, TaskQue, Gahak, taskVars, link, countVars>>
  BY DEF SignalDone
<1>3. \A u \in Threads \cap woken : pc[u] \in {"asleep", "blocked"}
  BY <1>1, SignalledFacts DEF BlockedOn
<1>4. /\ Wake(woken) \in [Threads -> ClientPlaces \cup WorkerPlaces]
      /\ \A u \in Threads :
           \/ Wake(woken)[u] = pc[u]
           \/ pc[u] = "asleep"  /\ Wake(woken)[u] = "check"
           \/ pc[u] = "blocked" /\ Wake(woken)[u] = "await"
  BY <1>3, WakeFacts DEF HInv
<1>5. /\ pc'[w] = "check" /\ w \notin ClientThreads
      /\ \A u \in Threads \ {w} :
           /\ kaam'[u] = kaam[u]
           /\ \/ pc'[u] = pc[u]
              \/ pc[u] = "asleep"  /\ pc'[u] = "check"
              \/ pc[u] = "blocked" /\ pc'[u] = "await"
  BY <1>1, <1>2, <1>4, PoolsAssumption DEF HInv, TypeOK, Threads
<1>6. \A v \in WorkerThreads : pc[v] # "blocked"
  BY DEF HInv, TypeOK, WorkerPlaces
<1>7. /\ \A u \in ClientThreads :
           /\ Serving(u)' <=> Serving(u)
           /\ Owning(u)' <=> Owning(u)
           /\ Awaiting(u)' <=> Awaiting(u)
           /\ pc'[u] = "submit" => pc[u] = "submit"
           /\ kaam'[u] = kaam[u]
      /\ \A v \in WorkerThreads :
           Working(v)' => Working(v) /\ pc'[v] = pc[v] /\ kaam'[v] = kaam[v]
  BY <1>5, <1>6 DEF Serving, Owning, Awaiting, Working, Threads
<1>8. TypeOK'
  <2>1. PcOK'
    BY <1>1, <1>4, <1>5, <1>6
       DEF PcOK, HInv, TypeOK, Threads, ClientPlaces, WorkerPlaces
  <2>2. kaam' \in [Threads -> Tasks \cup {NoTask}]
    BY <1>2 DEF HInv, TypeOK
  <2> QED
    BY <1>2, <2>1, <2>2 DEF PcOK, HInv, TypeOK, mainVars, taskVars, countVars
<1>9. Locals' /\ Owners'
  BY <1>2, <1>7 DEF HInv, Handoff, Locals, Owners, mainVars, taskVars
<1>10. NoUseAfterFree' /\ HandedOnce'
  BY <1>2, <1>7 DEF HInv, Handoff, NoUseAfterFree, HandedOnce
<1>11. NotYetDone'
  BY <1>2, <1>7 DEF HInv, Handoff, NotYetDone, Working, taskVars
<1> QED
  BY <1>8, <1>9, <1>10, <1>11 DEF HInv, Handoff

-----------------------------------------------------------------------------
LEMMA InitHInv == Init => HInv
<1> SUFFICES ASSUME Init PROVE HInv
  OBVIOUS
<1>1. TypeOK
  BY DEF Init, TypeOK, ClientPlaces, WorkerPlaces, Threads
<1>2. \A t \in Threads : pc[t] = "check"
  BY DEF Init
<1>3. Len(TaskQue) = 0
  BY DEF Init
<1> QED
  BY <1>1, <1>2, <1>3
     DEF HInv, Handoff, Locals, Owners, NoUseAfterFree, HandedOnce, NotYetDone,
         Owning, Serving, Working, Threads, Init

LEMMA StepHInv == HInv /\ [Next]_vars => HInv'
<1> SUFFICES ASSUME HInv, [Next]_vars PROVE HInv'
  OBVIOUS
<1>1. CASE UNCHANGED vars
  BY <1>1 DEF vars, mainVars, taskVars, countVars, HInv, TypeOK, Handoff, Locals,
              Owners, NoUseAfterFree, HandedOnce, NotYetDone, Owning, Serving,
              Working, Awaiting
<1>2. CASE ServerStep \/ HandlerStop \/ \E c \in Conns : Accept(c)
  BY <1>2, EnqueueClientInv, BroadcastInv, MainInv DEF ServerStep
<1>3. ASSUME NEW t \in ClientThreads, ClientStep(t) \/ ClientAct(t)
      PROVE  HInv'
  BY <1>3, WaitInv, SessionInv, TakeCommandInv, RefuseCommandInv, SubmitInv,
     AwaitInv, RespondInv
     DEF ClientStep, ClientAct, Threads
<1>4. ASSUME NEW w \in WorkerThreads, WorkerStep(w)
      PROVE  HInv'
  BY <1>4, WaitInv, DequeueTaskInv, ExecuteInv, MarkDoneInv, SignalDoneInv
     DEF WorkerStep, Threads
<1>5. ASSUME NEW t \in Threads, WakeSpuriously(t)
      PROVE  HInv'
  BY <1>5, WaitInv
<1> QED
  BY <1>1, <1>2, <1>3, <1>4, <1>5 DEF Next

(* A task is in one place between TakeCommand and the free, and done only  *)
(* after its worker executed it: the invariant the theorems below rest on. *)
THEOREM HandoffInvariant == Spec => []HInv
<1> QED
  BY InitHInv, StepHInv, PTL DEF Spec

(* Every variable keeps its type, for pools, task memory and workloads of  *)
(* any size, with or without SIGINT and failing allocations.               *)
THEOREM TypeCorrect == Spec => []TypeOK
<1>1. HInv => TypeOK
  BY DEF HInv
<1> QED
  BY <1>1, HandoffInvariant, PTL

(* No task is freed while the queue or a worker can still reach it.        *)
THEOREM TasksSafe == Spec => []NoUseAfterFree
<1>1. HInv => NoUseAfterFree
  BY DEF HInv, Handoff
<1> QED
  BY <1>1, HandoffInvariant, PTL

(* No task is queued twice, with two workers, or queued while a worker has *)
(* it: every command is handed to one worker, once.                        *)
THEOREM OneWorkerPerTask == Spec => []HandedOnce
<1>1. HInv => HandedOnce
  BY DEF HInv, Handoff
<1> QED
  BY <1>1, HandoffInvariant, PTL

-----------------------------------------------------------------------------
(* No lost wake-up.  Balanced says of one pool, its program counters p and *)
(* the length n of its queue what WorkConserving says of both.             *)
Balanced(p, pool, n) ==
  {t \in pool : p[t] = "asleep"} # {}
    => n <= Cardinality({t \in pool : p[t] = "check"})

(* Nothing can be enqueued between finding the queue empty and waiting.    *)
EmptyWhileHeld == /\ ~Free(ClientThreads) => ClntQue = <<>>
                  /\ ~Free(WorkerThreads) => TaskQue = <<>>

WInv == HInv /\ WorkConserving /\ EmptyWhileHeld

(* Waking threads, or letting one come back for work, keeps the balance.   *)
LEMMA BalancedQuiet ==
  ASSUME NEW p, NEW r, NEW pool, IsFiniteSet(pool), NEW n \in Nat,
         Balanced(p, pool, n),
         \A t \in pool : /\ r[t] = "asleep" => p[t] = "asleep"
                         /\ p[t] = "check" => r[t] = "check"
  PROVE  Balanced(r, pool, n)
<1> DEFINE A == {t \in pool : p[t] = "check"}
           B == {t \in pool : r[t] = "check"}
<1>1. A \subseteq B /\ IsFiniteSet(B)
  BY FS_Subset
<1>2. IsFiniteSet(A) /\ Cardinality(A) <= Cardinality(B)
  BY <1>1, FS_Subset
<1>3. Cardinality(A) \in Nat /\ Cardinality(B) \in Nat
  BY <1>1, <1>2, FS_CardinalityType
<1> QED
  BY <1>2, <1>3 DEF Balanced

(* A signal makes up for the entry it announces. *)
LEMMA BalancedSignal ==
  ASSUME NEW p, NEW r, NEW pool, IsFiniteSet(pool), NEW n \in Nat,
         Balanced(p, pool, n),
         \A t \in pool : /\ r[t] = "asleep" => p[t] = "asleep"
                         /\ p[t] = "check" => r[t] = "check",
         \/ \A t \in pool : p[t] # "asleep"
         \/ \E t \in pool : p[t] = "asleep" /\ r[t] = "check"
  PROVE  Balanced(r, pool, n + 1)
<1> DEFINE A == {t \in pool : p[t] = "check"}
           B == {t \in pool : r[t] = "check"}
<1>1. CASE \A t \in pool : p[t] # "asleep"
  BY <1>1 DEF Balanced
<1>2. ASSUME NEW u \in pool, p[u] = "asleep", r[u] = "check"
      PROVE  Balanced(r, pool, n + 1)
  <2>1. IsFiniteSet(A) /\ IsFiniteSet(B)
    BY FS_Subset
  <2>2. u \notin A /\ A \cup {u} \subseteq B
    BY <1>2
  <2>3. IsFiniteSet(A \cup {u}) /\ Cardinality(A \cup {u}) = Cardinality(A) + 1
    BY <2>1, <2>2, FS_AddElement
  <2>4. Cardinality(A \cup {u}) <= Cardinality(B)
    BY <2>1, <2>2, FS_Subset
  <2>5. Cardinality(A) \in Nat /\ Cardinality(B) \in Nat
    BY <2>1, FS_CardinalityType
  <2>6. n <= Cardinality(A)
    BY <1>2 DEF Balanced
  <2> HIDE DEF A, B
  <2>7. n + 1 <= Cardinality(B)
    BY <2>3, <2>4, <2>5, <2>6
  <2> QED
    BY <2>7 DEF Balanced, B
<1> QED
  BY <1>1, <1>2

(* The thread that takes an entry was awake. *)
LEMMA BalancedDequeue ==
  ASSUME NEW p, NEW r, NEW pool, IsFiniteSet(pool), NEW n \in Nat \ {0},
         Balanced(p, pool, n), NEW u \in pool,
         p[u] = "check", r[u] \notin {"check", "asleep"},
         \A t \in pool \ {u} : r[t] = p[t]
  PROVE  Balanced(r, pool, n - 1)
<1> DEFINE A == {t \in pool : p[t] = "check"}
           B == {t \in pool : r[t] = "check"}
<1>1. IsFiniteSet(A)
  BY FS_Subset
<1>2. u \in A /\ B = A \ {u}
  OBVIOUS
<1>3. Cardinality(B) = Cardinality(A) - 1
  BY <1>1, <1>2, FS_RemoveElement
<1>4. Cardinality(A) \in Nat
  BY <1>1, FS_CardinalityType
<1>5. {t \in pool : r[t] = "asleep"} # {} => n <= Cardinality(A)
  BY DEF Balanced
<1> HIDE DEF A, B
<1>6. {t \in pool : r[t] = "asleep"} # {} => n - 1 <= Cardinality(B)
  BY <1>3, <1>4, <1>5
<1> QED
  BY <1>6 DEF Balanced, B

LEMMA BalancedEmpty ==
  ASSUME NEW r, NEW pool, IsFiniteSet(pool)
  PROVE  Balanced(r, pool, 0)
<1>1. IsFiniteSet({t \in pool : r[t] = "check"})
  BY FS_Subset
<1>2. Cardinality({t \in pool : r[t] = "check"}) \in Nat
  BY <1>1, FS_CardinalityType
<1> QED
  BY <1>2 DEF Balanced

LEMMA BothBalanced ==
  /\ WorkConserving <=> /\ Balanced(pc, ClientThreads, Len(ClntQue))
                        /\ Balanced(pc, WorkerThreads, Len(TaskQue))
  /\ WorkConserving' <=> /\ Balanced(pc', ClientThreads, Len(ClntQue'))
                         /\ Balanced(pc', WorkerThreads, Len(TaskQue'))
  BY DEF WorkConserving, Balanced, Asleep, Awake

(* A step leaves a pool at rest if it puts none of its threads to sleep    *)
(* and takes none away from checking the queue.                            *)
AtRest(pool) == \A t \in pool : /\ pc'[t] = "asleep" => pc[t] = "asleep"
                                /\ pc[t] = "check" => pc'[t] = "check"
                                /\ pc'[t] = "sleep" => pc[t] = "sleep"

LEMMA RestInv ==
  ASSUME WInv, AtRest(ClientThreads), AtRest(WorkerThreads),
         UNCHANGED <<ClntQue, TaskQue>>
  PROVE  WorkConserving' /\ EmptyWhileHeld'
<1>1. Len(ClntQue) \in Nat /\ Len(TaskQue) \in Nat
  BY DEF WInv, HInv, TypeOK
<1>2. Balanced(pc', ClientThreads, Len(ClntQue))
  BY <1>1, BothBalanced, BalancedQuiet, PoolsAssumption DEF WInv, AtRest
<1>3. Balanced(pc', WorkerThreads, Len(TaskQue))
  BY <1>1, BothBalanced, BalancedQuiet, PoolsAssumption DEF WInv, AtRest
<1>4. EmptyWhileHeld'
  BY DEF WInv, AtRest, EmptyWhileHeld, Free
<1> QED
  BY <1>2, <1>3, <1>4, BothBalanced

LEMMA RestSteps ==
  ASSUME WInv,
         \/ StopAccepting \/ JoinClients \/ JoinWorkers \/ HandlerStop
         \/ WakeClients \/ WakeWorkers
         \/ \E c \in Conns : Accept(c)
         \/ \E t \in Threads : WakeSpuriously(t)
         \/ \E t \in ClientThreads : ClientAct(t) \/ AwaitResult(t) \/ Respond(t)
         \/ \E w \in WorkerThreads : Execute(w) \/ MarkDone(w) \/ SignalDone(w)
  PROVE  WorkConserving' /\ EmptyWhileHeld'
<1> USE DEF Goto
<1>1. TypeOK
  BY DEF WInv, HInv
<1>2. UNCHANGED <<ClntQue, TaskQue>>
  BY DEF StopAccepting, JoinClients, JoinWorkers, MainStep, HandlerStop,
         WakeClients, WakeWorkers, Broadcast, Accept, WakeSpuriously, ClientAct,
         Authenticate, HangUp, TakeCommand, RefuseCommand, AwaitResult, Respond,
         Execute,
         MarkDone, SignalDone
<1>3. \A t \in Threads : /\ pc'[t] = "asleep" => pc[t] = "asleep"
                         /\ pc[t] = "check" => pc'[t] = "check"
                         /\ pc'[t] = "sleep" => pc[t] = "sleep"
  <2>1. CASE StopAccepting \/ JoinClients \/ JoinWorkers \/ HandlerStop
               \/ \E c \in Conns : Accept(c)
    BY <2>1 DEF StopAccepting, JoinClients, JoinWorkers, MainStep, HandlerStop,
                Accept
  <2>2. CASE WakeClients \/ WakeWorkers \/ \E t \in Threads : WakeSpuriously(t)
    <3>1. CASE WakeClients \/ WakeWorkers
      <4>1. PICK pool : pc' = Wake(Asleep(pool))
        BY <3>1 DEF WakeClients, WakeWorkers, Broadcast
      <4> QED
        BY <1>1, <4>1, WakeFacts DEF Asleep
    <3>2. ASSUME NEW t \in Threads, WakeSpuriously(t)
          PROVE  \A u \in Threads : /\ pc'[u] = "asleep" => pc[u] = "asleep"
                                    /\ pc[u] = "check" => pc'[u] = "check"
                                    /\ pc'[u] = "sleep" => pc[u] = "sleep"
      BY <1>1, <3>2, WakeFacts DEF WakeSpuriously
    <3> QED
      BY <2>2, <3>1, <3>2
  <2>3. CASE \/ \E t \in ClientThreads : ClientAct(t) \/ AwaitResult(t) \/ Respond(t)
             \/ \E w \in WorkerThreads : Execute(w) \/ MarkDone(w)
    <3>1. \/ pc' = pc
          \/ \E t \in Threads,
                to \in {"session", "check", "submit", "respond", "blocked",
                       "finish", "signal"} :
               /\ pc[t] \in {"auth", "session", "await", "respond", "execute",
                             "finish"}
               /\ pc' = [pc EXCEPT ![t] = to]
      BY <2>3 DEF ClientAct, Authenticate, HangUp, TakeCommand, RefuseCommand,
                  AwaitResult, Respond, Execute, MarkDone, Threads
    <3> QED
      BY <1>1, <3>1 DEF TypeOK
  <2>4. ASSUME NEW w \in WorkerThreads, SignalDone(w)
        PROVE  \A t \in Threads : /\ pc'[t] = "asleep" => pc[t] = "asleep"
                                  /\ pc[t] = "check" => pc'[t] = "check"
                                  /\ pc'[t] = "sleep" => pc[t] = "sleep"
    <3>1. PICK woken \in Signalled(BlockedOn(kaam[w])) :
            pc' = [Wake(woken) EXCEPT ![w] = "check"]
      BY <2>4 DEF SignalDone
    <3>2. \A u \in Threads \cap woken : pc[u] \in {"asleep", "blocked"}
      BY <3>1, SignalledFacts DEF BlockedOn
    <3> QED
      BY <1>1, <3>1, <3>2, WakeFacts
  <2> QED
    BY <2>1, <2>2, <2>3, <2>4
<1> QED
  BY <1>2, <1>3, RestInv DEF AtRest, Threads

(* Both producers signal after enqueueing, with the queue's mutex.         *)
LEMMA EnqueueBalanced ==
  ASSUME WInv, EnqueueClient \/ \E t \in ClientThreads : Submit(t)
  PROVE  WorkConserving' /\ EmptyWhileHeld'
<1>1. /\ TypeOK /\ Len(ClntQue) \in Nat /\ Len(TaskQue) \in Nat
      /\ IsFiniteSet(ClientThreads) /\ IsFiniteSet(WorkerThreads)
  BY PoolsAssumption DEF WInv, HInv, TypeOK
<1>2. CASE EnqueueClient
  <2>1. PICK woken \in Signalled(Asleep(ClientThreads)) : pc' = Wake(woken)
    BY <1>2 DEF EnqueueClient, SignalClients
  <2>2. \A u \in Threads \cap woken : pc[u] \in {"asleep", "blocked"}
    BY <2>1, SignalledFacts DEF Asleep
  <2>3. /\ \A u \in Threads : /\ pc'[u] = "asleep" => pc[u] = "asleep"
                              /\ pc[u] = "check" => pc'[u] = "check"
                              /\ pc'[u] = "sleep" => pc[u] = "sleep"
        /\ \/ \A u \in ClientThreads : pc[u] # "asleep"
           \/ \E u \in ClientThreads : pc[u] = "asleep" /\ pc'[u] = "check"
    <3>1. \A u \in woken \cap Threads : pc'[u] = Resumed(u)
      BY <2>1 DEF Wake
    <3> QED
      BY <1>1, <2>1, <2>2, <3>1, WakeFacts, SignalledFacts
         DEF Asleep, Resumed, Threads
  <2>4. /\ Balanced(pc', ClientThreads, Len(ClntQue) + 1)
        /\ Balanced(pc', ClientThreads, Len(ClntQue))
        /\ Balanced(pc', WorkerThreads, Len(TaskQue))
    BY <1>1, <2>3, BothBalanced, BalancedSignal, BalancedQuiet DEF WInv, Threads
  <2>5. Len(ClntQue') \in {Len(ClntQue), Len(ClntQue) + 1} /\ TaskQue' = TaskQue
    BY <1>2, <1>1, AppendFacts DEF EnqueueClient, Enqueued, WInv, HInv, Handoff,
                              Locals, TypeOK
  <2>6. EmptyWhileHeld'
    BY <1>2, <2>3, <2>5 DEF EnqueueClient, WInv, EmptyWhileHeld, Free, Threads
  <2> QED
    BY <2>4, <2>5, <2>6, BothBalanced
<1>3. ASSUME NEW t \in ClientThreads, Submit(t)
      PROVE  WorkConserving' /\ EmptyWhileHeld'
  <2>1. PICK woken \in Signalled(Asleep(WorkerThreads)) :
          pc' = [Wake(woken) EXCEPT ![t] = "await"]
    BY <1>3 DEF Submit, SignalWorkers
  <2>2. \A u \in Threads \cap woken : pc[u] \in {"asleep", "blocked"}
    BY <2>1, SignalledFacts DEF Asleep
  <2>3. t \notin WorkerThreads /\ pc[t] = "submit"
    BY <1>3, PoolsAssumption DEF Submit
  <2>4. /\ \A u \in Threads : /\ pc'[u] = "asleep" => pc[u] = "asleep"
                              /\ pc[u] = "check" => pc'[u] = "check"
                              /\ pc'[u] = "sleep" => pc[u] = "sleep"
        /\ \/ \A u \in WorkerThreads : pc[u] # "asleep"
           \/ \E u \in WorkerThreads : pc[u] = "asleep" /\ pc'[u] = "check"
    <3>1. /\ \A u \in (woken \cap Threads) \ {t} : pc'[u] = Resumed(u)
          /\ \A u \in Threads \ {t} : pc'[u] = Wake(woken)[u]
          /\ pc'[t] = "await"
      BY <1>1, <2>1, <2>2, WakeFacts DEF Wake, Threads
    <3>2. \A u \in Threads : /\ pc'[u] = "asleep" => pc[u] = "asleep"
                             /\ pc[u] = "check" => pc'[u] = "check"
                             /\ pc'[u] = "sleep" => pc[u] = "sleep"
      BY <1>1, <2>2, <2>3, <3>1, WakeFacts
    <3>3. ASSUME NEW u \in WorkerThreads, pc[u] = "asleep"
          PROVE  \E v \in WorkerThreads : pc[v] = "asleep" /\ pc'[v] = "check"
      <4>1. PICK v \in Asleep(WorkerThreads) : woken = {v}
        BY <2>1, <3>3, SignalledFacts DEF Asleep
      <4>2. v # t /\ v \in Threads /\ pc[v] = "asleep"
        BY <2>3, <4>1 DEF Asleep, Threads
      <4> QED
        BY <3>1, <4>1, <4>2 DEF Asleep, Resumed
    <3> QED
      BY <3>2, <3>3
  <2>5. /\ Balanced(pc', WorkerThreads, Len(TaskQue) + 1)
        /\ Balanced(pc', WorkerThreads, Len(TaskQue))
        /\ Balanced(pc', ClientThreads, Len(ClntQue))
    BY <1>1, <2>4, BothBalanced, BalancedSignal, BalancedQuiet DEF WInv, Threads
  <2>6. Len(TaskQue') \in {Len(TaskQue), Len(TaskQue) + 1} /\ ClntQue' = ClntQue
    <3>1. kaam[t] \in Tasks /\ TaskQue \in Seq(Tasks)
      BY <2>3 DEF WInv, HInv, Handoff, Locals, Owning, TypeOK
    <3>2. Len(Append(TaskQue, kaam[t])) = Len(TaskQue) + 1
      BY <3>1, AppendFacts
    <3> QED
      BY <1>3, <3>2 DEF Submit, Enqueued
  <2>7. EmptyWhileHeld'
    BY <1>3, <2>4, <2>6 DEF Submit, WInv, EmptyWhileHeld, Free, Threads
  <2> QED
    BY <2>5, <2>6, <2>7, BothBalanced
<1> QED
  BY <1>2, <1>3

LEMMA DequeueBalanced ==
  ASSUME WInv,
         \/ \E t \in ClientThreads : DequeueClient(t)
         \/ \E w \in WorkerThreads : DequeueTask(w)
  PROVE  WorkConserving' /\ EmptyWhileHeld'
<1> USE DEF Goto
<1>1. /\ TypeOK /\ Len(ClntQue) \in Nat /\ Len(TaskQue) \in Nat
      /\ IsFiniteSet(ClientThreads) /\ IsFiniteSet(WorkerThreads)
  BY PoolsAssumption DEF WInv, HInv, TypeOK
<1>2. ASSUME NEW t \in ClientThreads, DequeueClient(t)
      PROVE  WorkConserving' /\ EmptyWhileHeld'
  <2>1. /\ pc[t] = "check" /\ pc'[t] = "auth" /\ t \notin WorkerThreads
        /\ \A u \in Threads \ {t} : pc'[u] = pc[u]
    BY <1>1, <1>2, PoolsAssumption DEF DequeueClient, TypeOK, Threads
  <2>2. /\ Len(ClntQue) \in Nat \ {0} /\ Len(ClntQue') = Len(ClntQue) - 1
        /\ TaskQue' = TaskQue
    BY <1>1, <1>2, TailFacts DEF DequeueClient, ClientDequeued, TypeOK
  <2>3. /\ Balanced(pc', ClientThreads, Len(ClntQue) - 1)
        /\ Balanced(pc', WorkerThreads, Len(TaskQue))
    BY <1>1, <2>1, <2>2, BothBalanced, BalancedDequeue, BalancedQuiet
       DEF WInv, Threads
  <2>4. EmptyWhileHeld'
    BY <1>2, <2>1, <2>2 DEF DequeueClient, ClientDequeued, WInv, EmptyWhileHeld, Free, Threads
  <2> QED
    BY <2>2, <2>3, <2>4, BothBalanced
<1>3. ASSUME NEW w \in WorkerThreads, DequeueTask(w)
      PROVE  WorkConserving' /\ EmptyWhileHeld'
  <2>1. /\ pc[w] = "check" /\ pc'[w] = "execute" /\ w \notin ClientThreads
        /\ \A u \in Threads \ {w} : pc'[u] = pc[u]
    BY <1>1, <1>3, PoolsAssumption DEF DequeueTask, TypeOK, Threads
  <2>2. /\ Len(TaskQue) \in Nat \ {0} /\ Len(TaskQue') = Len(TaskQue) - 1
        /\ ClntQue' = ClntQue
    BY <1>1, <1>3, TailFacts DEF DequeueTask, TaskDequeued, TypeOK
  <2>3. /\ Balanced(pc', WorkerThreads, Len(TaskQue) - 1)
        /\ Balanced(pc', ClientThreads, Len(ClntQue))
    BY <1>1, <2>1, <2>2, BothBalanced, BalancedDequeue, BalancedQuiet
       DEF WInv, Threads
  <2>4. EmptyWhileHeld'
    BY <1>3, <2>1, <2>2 DEF DequeueTask, WInv, EmptyWhileHeld, Free, Threads
  <2> QED
    BY <2>2, <2>3, <2>4, BothBalanced
<1> QED
  BY <1>2, <1>3

(* A thread gets to wait, or to leave, only while its queue is empty.      *)
LEMMA WaitOnEmpty ==
  ASSUME TypeOK, NEW pool, NEW que, NEW t \in pool, pool \subseteq Threads,
         ~Free(pool) => que = <<>>, WaitForWork(t, pool, que)
  PROVE  /\ que = <<>>
         /\ UNCHANGED <<ClntQue, TaskQue>>
         /\ \A u \in Threads \ {t} : pc'[u] = pc[u]
  BY DEF WaitForWork, FindEmpty, Sleep, Leave, Goto, Free, TypeOK

LEMMA WaitBalanced ==
  ASSUME WInv,
         \/ \E t \in ClientThreads : WaitForWork(t, ClientThreads, ClntQue)
         \/ \E w \in WorkerThreads : WaitForWork(w, WorkerThreads, TaskQue)
  PROVE  WorkConserving' /\ EmptyWhileHeld'
<1>1. /\ TypeOK /\ Len(ClntQue) \in Nat /\ Len(TaskQue) \in Nat
      /\ IsFiniteSet(ClientThreads) /\ IsFiniteSet(WorkerThreads)
      /\ ClientThreads \subseteq Threads /\ WorkerThreads \subseteq Threads
  BY PoolsAssumption DEF WInv, HInv, TypeOK, Threads
<1>2. ASSUME NEW t \in ClientThreads, WaitForWork(t, ClientThreads, ClntQue)
      PROVE  WorkConserving' /\ EmptyWhileHeld'
  <2>1. /\ ClntQue = <<>> /\ UNCHANGED <<ClntQue, TaskQue>>
        /\ \A u \in WorkerThreads : pc'[u] = pc[u]
    BY <1>1, <1>2, WaitOnEmpty, PoolsAssumption DEF WInv, EmptyWhileHeld
  <2>2. /\ Balanced(pc', ClientThreads, Len(ClntQue'))
        /\ Balanced(pc', WorkerThreads, Len(TaskQue'))
    BY <1>1, <2>1, BothBalanced, BalancedEmpty, BalancedQuiet DEF WInv
  <2> QED
    BY <2>1, <2>2, BothBalanced DEF WInv, EmptyWhileHeld, Free
<1>3. ASSUME NEW w \in WorkerThreads, WaitForWork(w, WorkerThreads, TaskQue)
      PROVE  WorkConserving' /\ EmptyWhileHeld'
  <2>1. /\ TaskQue = <<>> /\ UNCHANGED <<ClntQue, TaskQue>>
        /\ \A u \in ClientThreads : pc'[u] = pc[u]
    BY <1>1, <1>3, WaitOnEmpty, PoolsAssumption DEF WInv, EmptyWhileHeld
  <2>2. /\ Balanced(pc', ClientThreads, Len(ClntQue'))
        /\ Balanced(pc', WorkerThreads, Len(TaskQue'))
    BY <1>1, <2>1, BothBalanced, BalancedEmpty, BalancedQuiet DEF WInv
  <2> QED
    BY <2>1, <2>2, BothBalanced DEF WInv, EmptyWhileHeld, Free
<1> QED
  BY <1>2, <1>3

(* No wake-up is lost, for pools of any size and any number of commands:   *)
(* while a thread of a pool sleeps there is a woken one for every entry of *)
(* its queue, because both ends of a queue keep its mutex and a producer   *)
(* signals before it unlocks.                                              *)
THEOREM NoLostWakeup == Spec => []WorkConserving
<1>1. Init => WInv
  <2> SUFFICES ASSUME Init PROVE WInv
    OBVIOUS
  <2>1. HInv
    BY InitHInv
  <2>2. \A t \in Threads : pc[t] = "check"
    BY DEF Init
  <2>3. WorkConserving /\ EmptyWhileHeld
    BY <2>2 DEF Init, WorkConserving, Asleep, EmptyWhileHeld, Threads
  <2> QED
    BY <2>1, <2>3 DEF WInv
<1>2. WInv /\ [Next]_vars => WInv'
  <2> SUFFICES ASSUME WInv, [Next]_vars PROVE WorkConserving' /\ EmptyWhileHeld'
    BY StepHInv DEF WInv
  <2>1. CASE UNCHANGED vars
    BY <2>1 DEF WInv, vars, WorkConserving, EmptyWhileHeld, Asleep, Awake, Free
  <2>2. CASE Next
    BY <2>2, RestSteps, EnqueueBalanced, DequeueBalanced, WaitBalanced
       DEF Next, ServerStep, ClientStep, WorkerStep
  <2> QED
    BY <2>1, <2>2
<1>3. WInv => WorkConserving
  BY DEF WInv
<1> QED
  BY <1>1, <1>2, <1>3, PTL DEF Spec
=============================================================================
