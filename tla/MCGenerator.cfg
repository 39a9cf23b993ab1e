SPECIFICATION MCSpec
SYMMETRY Symmetry
CONSTANTS
    e1 = e1
    e2 = e2
    e3 = e3
    g = g
    t = t
    n = n
    dx = dx
    dy = dy
    Ids = {e1, e2, e3}
    Names = {g, t, n}
    Data = {dx, dy}
    Files <- MCFiles
    Batches = {b1, b2}
    Procs = {p1, p2}
    Root = e1
    None = None
    Unborn = Unborn
    Dead = Dead
    NoBatch = NoBatch
    Budgets <- MCBudgets
    GrantSets <- MCGrantSets
    Logs <- MCLogs
    Portfolio <- MCPortfolio
    TaskSets <- MCTaskSets
    Clocks <- MCClocks
    MaxHeatmapCells = 2
    Team <- MCTeam
    LeadDays = 3
    SendHour = 8
    MaxTasksPerBucket = 1
    Configs <- MCConfigs
    FiscalYears <- MCYears
    DueRules <- MCDueRules
    PaymentRules <- MCPaymentRules
    Templates = {s1, s2}
    Rules <- MCRules
    FiscalOf <- MCFiscalOf
    Year = 2025
INVARIANTS OrderExists StartsCoexist ViewsFollowGrants CalendarsHold ReportsAgree
PROPERTIES OnlyWhatWasShown NoDoubles ScopeHeld StartsAsPlanned
CHECK_DEADLOCK FALSE
