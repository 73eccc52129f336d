SPECIFICATION ReportsSpec
CONSTANTS
    StoreSetting <- StoreValues
    TiesSetting <- TiesValues
    AgendaSetting <- AgendaValues
INVARIANTS StoreIsSound AgendaIsSound CopyFollows SignalsAreSound PagesAreWhole
PROPERTIES NotHiddenByBackfill VerdictIsFinal
CHECK_DEADLOCK FALSE
