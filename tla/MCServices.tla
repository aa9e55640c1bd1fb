----------------------------- MODULE MCServices ------------------------------
(***************************************************************************)
(* What surrounds the link, side by side: the telemetry of the MCU, the    *)
(* link's initialisation and end, the environment of the ports to          *)
(* operating systems and rpmsg_queue.  They share no variable: `part' says *)
(* which of them this behaviour is about, and the others stay as they      *)
(* begin.                                                                  *)
(***************************************************************************)
EXTENDS Telemetry, LinkLifecycle, RtosEnv, RpmsgQueue

\* A call that does not wait, one that waits, and RL_BLOCK.
MCTimeouts == {0, 2, TickMod - 1}

\* Every task waits for its own link; or two of them for both links.
MCTasks == {"a", "b", "c"}
OwnLink == [t \in MCTasks |-> {t}]
BothLinks == [t \in MCTasks |-> IF t = "c" THEN {} ELSE {"a", "b"}]
FreeRTOS(fails) == [initial |-> 0, binary |-> TRUE, clears |-> TRUE,
                    mayFail |-> fails, waits |-> OwnLink]
ThreadX == [initial |-> 0, binary |-> FALSE, clears |-> FALSE,
            mayFail |-> FALSE, waits |-> BothLinks]
MCPorts == {FreeRTOS(FALSE), FreeRTOS(TRUE), ThreadX}

\* Two tasks read one queue, a third another.
MCReads == [t \in {"t1", "t2", "t3"} |-> IF t = "t3" THEN 2 ELSE 1]

VARIABLE part

vars == <<part, teleVars, lifeVars, port, rtosVars, queueVars>>

\* A part that begins in one of several ways, when it is not looked at.
TeleRest == TeleInit /\ timeout = 0
LifeRest == LifeInit /\ ~a2b_status
EnvRest == EnvInit /\ port = ThreadX

\* The order in which the master filled the ring: buffers differ in nothing else.
FirstFill == CHOOSE r \in Bijection(Slots, Buffers) : TRUE

Init == /\ part \in {"telemetry", "lifecycle", "environment", "queue"}
        /\ IF part = "telemetry" THEN TeleInit ELSE TeleRest
        /\ IF part = "lifecycle" THEN LifeInit ELSE LifeRest
        /\ IF part = "environment" THEN EnvInit ELSE EnvRest
        /\ QueueInit /\ used_ring = FirstFill

Next == /\ UNCHANGED part
        /\ \/ /\ part = "telemetry" /\ TeleNext
              /\ UNCHANGED <<lifeVars, port, rtosVars, queueVars>>
           \/ /\ part = "lifecycle" /\ LifeNext
              /\ UNCHANGED <<teleVars, port, rtosVars, queueVars>>
           \/ /\ part = "environment" /\ EnvNext
              /\ UNCHANGED <<teleVars, lifeVars, queueVars>>
           \/ /\ part = "queue" /\ QueueNext
              /\ UNCHANGED <<teleVars, lifeVars, port, rtosVars>>

\* The fairness of each component, for the part that runs; a part that rests
\* takes no step.
TeleFair == /\ WF_teleVars(part = "telemetry" /\ SendNext)
            /\ WF_teleVars(part = "telemetry" /\ HandlerNext)
EnvFair == \A t \in Tasks : WF_rtosVars(part = "environment" /\ Step(t))
QueueFair == /\ WF_queueVars(part = "queue" /\ RxCallback)
             /\ \A t \in Readers : WF_queueVars(part = "queue" /\ Reader(t))

Spec == Init /\ [][Next]_vars /\ TeleFair /\ EnvFair /\ QueueFair

\* Telemetry keeps flowing, when it is looked at, and a send that is refused
\* is refused on time: see Flows and OnTime.
TelemetryFlows == (part = "telemetry" => Flows) /\ OnTime

\* The type invariants of telemetry and environment; for the environment, whose
\* objects are deleted and created again, with nobody about to use a dead one.
ServicesTypeOK == TeleTypeOK /\ EnvTypeOK /\ HandlesLive

\* The tasks proceed: an initialisation returns, a task that waits for a link
\* that is up goes on, and the master gets the queues' buffers back.
TasksProceed == InitReturns /\ LinkSeen /\ QueueFlows
=============================================================================
