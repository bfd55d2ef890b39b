CONSTANTS
    Tokens = {t1, t2, t3, t4, t5}
    BatchSize = 2
SPECIFICATION Spec
INVARIANTS TypeOK PosIsInverse QuietRoundCoversAll BatchHasNoRepeats
