SPECIFICATION MCSpec
CONSTANTS
    Docs = {d1, d2}
    Attached = {d1}
    Requests = {q1, q2, q3}
    NoOne = NoOne
    MaxFaults = 1
    Aliases <- MCAliases
    Keys <- MCKeys
    TabNames <- MCTabNames
    Accented <- MCAccented
    Foreign <- MCForeign
    Size <- MCSize
    Numerals <- MCNumerals
    Limits <- MCLimits
    Uploads <- MCUploads
    Missing = Missing
    WrittenCells <- MCWrittenCells
    Imports <- MCImports
INVARIANTS VersionsStand NothingUnfindable FilesReadWhole ValuesReadAsMeant PreviewIsEffect
PROPERTIES SettledUntouched EverybodyAnswered
CHECK_DEADLOCK FALSE
