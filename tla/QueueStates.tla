---------------------------- MODULE QueueStates ----------------------------
(***************************************************************************)
(* The life of a queue item and of the drama task it runs: the states both *)
(* rows store, and the whitelist of moves every service checks before it   *)
(* writes a new state (domain/queue/state_machine.py).                     *)
(***************************************************************************)

QueueState ==
    {"WAITING_TIME", "QUEUED", "CLAIMED", "RUNNING", "RETRY_WAIT", "PAUSED",
     "MANUAL_REVIEW", "FAILED", "DRY_RUN", "COMPLETED", "CANCELLED"}

\* A queue row that was never inserted, and one that a delete removed.
NoRowState == {"ABSENT", "GONE"}

TaskStatus ==
    {"WAITING_TIME", "READY", "RUNNING", "COMPLETED", "MANUAL_REVIEW", "FAILED",
     "DRY_RUN", "LINK_EXTRACTED", "LINK_READY", "CANCELLED"}

\* The legal moves of the state machine.
Successors ==
    [WAITING_TIME  |-> {"QUEUED"},
     QUEUED        |-> {"CLAIMED", "PAUSED", "CANCELLED"},
     CLAIMED       |-> {"RUNNING", "QUEUED", "PAUSED", "MANUAL_REVIEW",
                        "COMPLETED", "CANCELLED"},
     RUNNING       |-> {"COMPLETED", "DRY_RUN", "RETRY_WAIT", "PAUSED",
                        "MANUAL_REVIEW", "FAILED", "CANCELLED", "QUEUED"},
     RETRY_WAIT    |-> {"QUEUED", "MANUAL_REVIEW"},
     PAUSED        |-> {"QUEUED", "RUNNING", "CANCELLED"},
     MANUAL_REVIEW |-> {"QUEUED", "CANCELLED"},
     FAILED        |-> {"QUEUED"},
     COMPLETED     |-> {},
     CANCELLED     |-> {},
     DRY_RUN       |-> {}]

CanTransition(current, target) == target \in Successors[current]

\* The states the API and the scheduler treat as "no active item any more".
Terminal == {"COMPLETED", "CANCELLED", "DRY_RUN"}
Active   == QueueState \ Terminal

\* Rows a worker has taken.
Taken == {"CLAIMED", "RUNNING"}

\* Rows that wait for somebody to send them back to the queue.
Retryable == {"MANUAL_REVIEW", "FAILED", "RETRY_WAIT"}

\* The task statuses that go with an execution's result.
StatusFor ==
    [MANUAL_REVIEW |-> {"MANUAL_REVIEW"},
     FAILED        |-> {"FAILED"},
     DRY_RUN       |-> {"DRY_RUN"},
     COMPLETED     |-> {"COMPLETED", "LINK_EXTRACTED", "LINK_READY"}]

\* The states an execution ends in.
Result == DOMAIN StatusFor
=============================================================================
