SPECIFICATION Spec
CONSTANTS
    Days = {"2024-01-01", "2024-05-16", "2024-05-17", "2024-12-31", "2025-05-12"}
    NoDay = "none"
    Calendar <- MCCalendar
    Menu <- MCMenu
    Limit = 4
    Attempts = 2
INVARIANT TypeOK
INVARIANT ReportIsOfChannel
INVARIANT WeeksAreWeeks
\* A reported or failed scrape is over.
CHECK_DEADLOCK FALSE
