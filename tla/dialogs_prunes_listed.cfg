CONSTANTS
    Chats = {me, c1, c2}
    Self = me
    Undecodable = {}
    Undated = {}
    BatchSize = 2
    MaxPages = 2
    ArchivePages = 1
    Budgets <- MCBudgets
SPECIFICATION Spec
CHECK_DEADLOCK FALSE
PROPERTY ListedSurvives
