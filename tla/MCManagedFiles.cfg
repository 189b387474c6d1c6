SPECIFICATION MCSpec
CONSTANTS
    sessions = sessions
    skills = skills
    ucu = ucu
    other = other
    Preparers = {g1, g2}
    Private = {sessions}
    SharedEntries = {skills}
    Plugins = {ucu, other}
    Required = ucu
    Versions = {1, 2}
    None = None
    Own = Own
    MaxChanges = 1
    MaxKills = 1
PROPERTIES
    UsableWhenUndisturbed
    FailsForCause
    FilesAreKept
    ReadyAtLast
CHECK_DEADLOCK FALSE
