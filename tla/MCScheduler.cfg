SPECIFICATION FairSpec
CONSTANTS
    MaxTasks = 2
    Interval = 1
    Loops = {l1, l2}
    Runners = {r}
    Controllers = {a, b}
    None = None
INVARIANTS
    RunningIsServed
PROPERTIES
    StoppedLoopsEnd
    DueTaskRuns
