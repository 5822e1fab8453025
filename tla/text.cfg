\* Crashes of every kind on every architecture, with what the application adds and
\* a memory that refers to itself, and a second crash at every place of the report.
SPECIFICATION MCSpec
CONSTANTS
    null = null
    None = null
    MaxStackDepth = 4
    ThreadCount = 2
    FileBuffer = 12
    Word = 1073741824
    SearchDepth = 4
    StringBuffer = 500
    FixDepth = 20
    memory <- MCMemory
    Demangled <- MCDemangled
    Scenarios <- MCScenarios
    Style = "partially_symbolicated"
INVARIANTS ReportsReadAsMeant DiagnosisMatchesCause AppleNamesThread DirectReadsAreSafe TextsSurvive FilesAreWhole BacktracesAreTrue SystemIsTold ContainersAreTrue
CHECK_DEADLOCK FALSE
