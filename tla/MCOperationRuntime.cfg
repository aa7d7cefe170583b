\* Two jobs with two charges each, of nothing or a byte, and two drainers.
CONSTANTS
    j1 = j1
    j2 = j2
    c1 = c1
    c2 = c2
    c3 = c3
    c4 = c4
    Jobs = {j1, j2}
    Charges = {c1, c2, c3, c4}
    JobOf <- TwoEach
    Drainers = {d1, d2}
    Amounts = {0, 1}
    MaxSlots = 2
    MaxBytes = 3
    MaxWork = 2
SPECIFICATION RuntimeSpec
INVARIANTS CountersExact ChargesUnderSlots DrainedForGood
PROPERTIES EveryDrainEnds
CHECK_DEADLOCK FALSE
