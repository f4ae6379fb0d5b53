-------------------------------- MODULE Node --------------------------------
(***************************************************************************)
(* The life of the process: run_node initializes the node, starts it and   *)
(* waits for a signal; Start brings up the network, the RPC server and the *)
(* background threads; Stop, called by the signal handler on the main      *)
(* thread wherever that is, or by the destructor at the end, takes them    *)
(* down.  One signal arrives.  The tasks reach into the network layer,     *)
(* which throws when it is not initialized, and an exception ends the      *)
(* process.                                                                *)
(***************************************************************************)
EXTENDS NetworkLayer

CONSTANT Bootstrap   \* the peers of bootstrap_peers

VARIABLES main,               \* where the main thread is
          signal,             \* g_shutdown_requested
          running,            \* running_
          shutdown_requested, \* shutdown_requested_
          is_validator,       \* is_validator_
          rpc,                \* whether the RPC server runs
          task                \* where each background thread is

nodeVars == <<main, signal, running, shutdown_requested, is_validator, rpc, task>>

Tasks == {"prune", "maintain", "propose"}

NodeInit ==
    /\ main = "initialize" /\ signal = FALSE
    /\ running = FALSE /\ shutdown_requested = FALSE
    /\ is_validator = FALSE /\ rpc = FALSE
    /\ task = [t \in Tasks |-> "none"]

\* Initialize, step by step: a step that fails ends the process.  Opening the
\* database fails when its directory cannot be made.
InitializeStorage ==
    /\ main = "initialize"
    /\ main' \in {"components", "exit"}
    /\ UNCHANGED <<networkVars, signal, running, shutdown_requested, is_validator, rpc, task>>
\* No genesis block is in a database that was just made (LoadOrCreateGenesis
\* puts none there), so there is none to refuse.
InitializeComponents ==
    /\ main = "components"
    /\ main' = "keys"
    /\ UNCHANGED <<networkVars, signal, running, shutdown_requested, is_validator, rpc, task>>
\* Only in validator mode: two key files are read and the validator is
\* registered, and each may fail.
LoadValidatorKeys ==
    /\ main = "keys"
    /\ \/ main' = "start" /\ is_validator' \in BOOLEAN
       \/ main' = "exit" /\ UNCHANGED is_validator
    /\ UNCHANGED <<networkVars, signal, running, shutdown_requested, rpc, task>>

\* Start, step by step.
StartNetwork ==
    /\ main = "start"
    /\ \E listens \in BOOLEAN :
          /\ Initialize(listens)
          /\ main' = IF listens THEN "connect" ELSE "exit"
    /\ UNCHANGED <<signal, running, shutdown_requested, is_validator, rpc, task>>
StartConnect ==
    /\ main = "connect"
    /\ \E dialled \in SUBSET Bootstrap : ConnectToPeers(dialled)
    /\ main' = "rpc"
    /\ UNCHANGED <<signal, running, shutdown_requested, is_validator, rpc, task>>
\* RegisterNetworkHandlers and the RPC server.
StartRpc ==
    /\ main = "rpc"
    /\ rpc' = TRUE /\ main' = "tasks"
    /\ UNCHANGED <<networkVars, signal, running, shutdown_requested, is_validator, task>>
StartBackgroundTasks ==
    /\ main = "tasks"
    /\ task' = [t \in Tasks |-> IF t = "propose" /\ ~is_validator THEN "none" ELSE "top"]
    /\ main' = "started"
    /\ UNCHANGED <<networkVars, signal, running, shutdown_requested, is_validator, rpc>>
StartDone ==
    /\ main = "started"
    /\ running' = TRUE /\ main' = "wait"
    /\ UNCHANGED <<networkVars, signal, shutdown_requested, is_validator, rpc, task>>

\* The loop of every task: the flag, a sleep, the flag again, the work.
TaskTop(t) ==
    /\ task[t] = "top"
    /\ task' = [task EXCEPT ![t] = IF shutdown_requested THEN "done" ELSE "asleep"]
    /\ UNCHANGED <<networkVars, main, signal, running, shutdown_requested, is_validator, rpc>>
TaskWakes(t) ==
    /\ task[t] = "asleep"
    /\ task' = [task EXCEPT ![t] = IF shutdown_requested THEN "done" ELSE "work"]
    /\ UNCHANGED <<networkVars, main, signal, running, shutdown_requested, is_validator, rpc>>
\* The mempool is pruned, or the connections are maintained.
MempoolPruningTask ==
    /\ task["prune"] = "work"
    /\ task' = [task EXCEPT !["prune"] = "top"]
    /\ UNCHANGED <<networkVars, main, signal, running, shutdown_requested, is_validator, rpc>>
ConnectionMaintenanceTask ==
    /\ task["maintain"] = "work"
    /\ MaintainConnections
    /\ task' = [task EXCEPT !["maintain"] = "top"]
    /\ UNCHANGED <<main, signal, running, shutdown_requested, is_validator, rpc>>
\* Without a leader, as a follower or when the engine proposes nothing the
\* task starts over; a block that was proposed is stored and broadcast.
ProposeBlock ==
    /\ task["propose"] = "work"
    /\ \E proposed \in BOOLEAN : task' = [task EXCEPT !["propose"] = IF proposed THEN "broadcast" ELSE "top"]
    /\ UNCHANGED <<networkVars, main, signal, running, shutdown_requested, is_validator, rpc>>
BroadcastBlock ==
    /\ task["propose"] = "broadcast"
    /\ \E m \in Messages : Broadcast(m)
    /\ task' = [task EXCEPT !["propose"] = "top"]
    /\ UNCHANGED <<main, signal, running, shutdown_requested, is_validator, rpc>>

\* The signal handler: sets the flag and calls Stop, which returns at once
\* unless the node is running.
Signal ==
    /\ ~signal /\ main # "exit"
    /\ signal' = TRUE
    /\ shutdown_requested' = (shutdown_requested \/ running)
    /\ main' = IF running THEN "join" ELSE main
    /\ UNCHANGED <<networkVars, running, is_validator, rpc, task>>
\* Mutant: the destructor does not stop the node.
ReturnsUnstopped ==
    /\ main = "wait" /\ signal
    /\ main' = "exit"
    /\ UNCHANGED <<networkVars, signal, running, shutdown_requested, is_validator, rpc, task>>
\* run_node sees the flag and returns; the destructor of the node, called at
\* exit, stops it if it is still running.
MainReturns ==
    /\ main = "wait" /\ signal
    /\ shutdown_requested' = (shutdown_requested \/ running)
    /\ main' = IF running THEN "join" ELSE "exit"
    /\ UNCHANGED <<networkVars, signal, running, is_validator, rpc, task>>

\* StopBackgroundTasks returns when every thread has ended.
AllJoined == \A t \in Tasks : task[t] \in {"none", "done"}
\* Mutant: Stop does not wait for the threads.
StopUnjoined ==
    /\ main = "join"
    /\ main' = "stopRpc"
    /\ UNCHANGED <<networkVars, signal, running, shutdown_requested, is_validator, rpc, task>>
StopBackgroundTasks ==
    /\ main = "join" /\ AllJoined
    /\ main' = "stopRpc"
    /\ task' = [t \in Tasks |-> "none"]
    /\ UNCHANGED <<networkVars, signal, running, shutdown_requested, is_validator, rpc>>
StopRpc ==
    /\ main = "stopRpc"
    /\ rpc' = FALSE /\ main' = "stopNetwork"
    /\ UNCHANGED <<networkVars, signal, running, shutdown_requested, is_validator, task>>
StopNetwork ==
    /\ main = "stopNetwork"
    /\ Shutdown
    /\ running' = FALSE /\ main' = "wait"
    /\ UNCHANGED <<signal, shutdown_requested, is_validator, rpc, task>>

MainThread ==
    \/ InitializeStorage \/ InitializeComponents \/ LoadValidatorKeys
    \/ StartNetwork \/ StartConnect \/ StartRpc \/ StartBackgroundTasks \/ StartDone
    \/ MainReturns \/ StopBackgroundTasks \/ StopRpc \/ StopNetwork
Work == MempoolPruningTask \/ ConnectionMaintenanceTask \/ ProposeBlock \/ BroadcastBlock
Task(t) == TaskTop(t) \/ TaskWakes(t)

NodeNext ==
    \/ MainThread \/ Signal
    \/ Work \/ \E t \in Tasks : Task(t)

\* The system runs every thread that can run; a task that may work is never
\* stopped from it by another one.
NodeFairness ==
    /\ WF_nodeVars(MainThread)
    /\ \A t \in Tasks : WF_nodeVars(Task(t))
    /\ WF_nodeVars(MempoolPruningTask) /\ WF_nodeVars(ConnectionMaintenanceTask)
    /\ WF_nodeVars(ProposeBlock) /\ WF_nodeVars(BroadcastBlock)

NodeSpec == NodeInit /\ NetworkInit /\ [][NodeNext]_<<networkVars, nodeVars>> /\ NodeFairness

-----------------------------------------------------------------------------
(* Properties.                                                             *)

\* No background task ever finds the network layer down, whenever the signal
\* arrives: a broadcast would throw and end the process.
TasksFindNetwork ==
    (\E t \in Tasks : task[t] \in {"top", "asleep", "work", "broadcast"}) => initialized

\* A signal, even one that arrives while the node is starting, ends the
\* process with the threads joined, the RPC server stopped and the network
\* down.
SignalEndsNode ==
    signal ~> (main = "exit" /\ ~running /\ ~rpc /\ ~initialized /\ AllJoined)
=============================================================================
