------------------------------- MODULE MCLogService -------------------------------
(* The tasks that use the log service, with the priorities of task_scheduler.h. *)
EXTENDS LogService

CONSTANTS wdog, logger, recovery, monitor, simTask

MCPriority == [t \in Tasks |-> CASE t = wdog     -> 10
                                 [] t = logger   -> 9
                                 [] t = recovery -> 8
                                 [] t = monitor  -> 3
                                 [] t = simTask  -> 1]
=============================================================================
