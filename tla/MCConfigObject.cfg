SPECIFICATION ConfigSpec
CONSTANTS
    Index <- MCIndex
    Entries <- MCEntries
    Options <- MCOptions
    MaxEntries = 4
    MaxCodeSize = 2
INVARIANTS ByNameWins ScopesIsolated InnermostScopeWins ClassOverridesReach
CHECK_DEADLOCK FALSE
