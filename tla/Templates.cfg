SPECIFICATION Spec

CONSTANTS
    Paths <- ThePaths
    Names <- TheNames
    ValidNames = {"base", "one", "two"}
    Versions <- TheVersions
    Outside = Outside
    Libraries <- TheLibraries
    Edits <- TheEdits
    Selections <- TheSelections

INVARIANTS
    TypeOK
    LastWins
    AcceptedIsAvailable
    RendersTheList
    LinksLeadSomewhere

\* Every rendering ends, and nothing is left to do.
CHECK_DEADLOCK FALSE
