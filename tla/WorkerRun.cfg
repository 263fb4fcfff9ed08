\* Both workers, an on_fatal_error handler, one cancel and one caller of
\* shutdown(), with run() called by a task or by async with.
CONSTANTS
    ActivityTasks = {t1, t2}
    WorkflowTasks = {t1}
    Callers = {c1}
    HasActivities = TRUE
    HasWorkflows = TRUE
    HasHandler = TRUE
    MaxCancels = 1
SPECIFICATION FairSpec
CHECK_DEADLOCK FALSE
INVARIANTS TypeOK ShutdownMeansStopped PollsEnded EarlyFailureRaised ErrorLeavesContext
PROPERTY ShutdownCallsReturn
