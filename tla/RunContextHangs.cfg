\* A failed validation inside async with.
CONSTANTS
    ActivityTasks = {t1}
    WorkflowTasks = {t1}
    Callers = {c1}
    HasActivities = FALSE
    HasWorkflows = TRUE
    HasHandler = FALSE
    MaxCancels = 0
SPECIFICATION FairSpec
CHECK_DEADLOCK FALSE
PROPERTY ContextExits
