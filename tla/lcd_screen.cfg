SPECIFICATION LcdSpec
CONSTANTS
    LcdCols = 2
    Texts <- MCTexts
    Timings <- MCTimings
INVARIANT PanelInStep
