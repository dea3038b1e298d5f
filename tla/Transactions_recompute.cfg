SPECIFICATION RecomputeFairSpec
CONSTANTS
    Trade = {t1}
    Hint = {"", "EUR"}
    RecomputeClaimable = FALSE
PROPERTY RecomputeRuns
