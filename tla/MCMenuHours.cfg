SPECIFICATION Spec
CHECK_DEADLOCK FALSE
CONSTANTS
    DayLen = 8
    WeekLen = 2
    LastCallWindow = 2
    DaysAhead = 3
    OrderableSteps = 4
    Products <- MCProducts
    Depts = {"kitchen", "bar"}
    Zones = {"beach"}
    Staff <- MCStaff
    Morning = 2
    BusyFor = 2
    AlertLead = 1
    KnownCategories <- MCCategories
    CloseChoices <- MCCloseChoices
    BusyChoices = {0, 10}
    HoursForms <- MCHoursForms
    SpecialForms <- MCSpecialForms
    MenuForms <- MCMenuForms
    InitialSetups <- MCInitialSetups
    LastTick = 27
    MaxEdits = 1
    MaxRestarts = 1
INVARIANTS
    TypeOK
    
    UntilIsKept
    AlertOncePerCutoff
    BestDeal
    PreviewIsTrue
    WarningsTrue
PROPERTY
    EveryStopAnnounced
