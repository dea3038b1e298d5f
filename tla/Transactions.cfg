SPECIFICATION TransactionsFairSpec
CONSTANTS
    Trade = {t1}
    Hint = {""}
    RecomputeClaimable = TRUE
INVARIANT ValueMatchesCurrency
PROPERTIES EditKept 
