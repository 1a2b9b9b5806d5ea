--------------------------- MODULE CommandService ---------------------------
(***************************************************************************)
(* What the two thread pools promise a connected client, without threads,  *)
(* queues, mutexes or tasks: the commands of a connection are taken one at *)
(* a time, each is executed once, and the answer to a command is sent      *)
(* after that command, and no later one, was executed.  ThreadPools        *)
(* implements this module.                                                 *)
(***************************************************************************)
EXTENDS Naturals

CONSTANT Conns               \* the connections

VARIABLES sent,              \* how many commands of each connection were taken,
          executed,          \*   executed
          answered           \*   and answered

serviceVars == <<sent, executed, answered>>

ServiceInit == /\ sent     = [c \in Conns |-> 0]
               /\ executed = [c \in Conns |-> 0]
               /\ answered = [c \in Conns |-> 0]

Take(c) == /\ sent[c] = answered[c]
           /\ sent' = [sent EXCEPT ![c] = @ + 1]
           /\ UNCHANGED <<executed, answered>>

Perform(c) == /\ executed[c] < sent[c]
              /\ executed' = [executed EXCEPT ![c] = @ + 1]
              /\ UNCHANGED <<sent, answered>>

Answer(c) == /\ answered[c] < executed[c]
             /\ answered' = [answered EXCEPT ![c] = @ + 1]
             /\ UNCHANGED <<sent, executed>>

ServiceNext == \E c \in Conns : Take(c) \/ Perform(c) \/ Answer(c)

ServiceSpec == ServiceInit /\ [][ServiceNext]_serviceVars
=============================================================================
