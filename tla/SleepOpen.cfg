SPECIFICATION FairSpec
CONSTANTS
  Procs = {p, q}
  Preempt = TRUE
  Signals = {"fatal", "shared"}
  Nobody = Nobody
  ReadsToEnd = FALSE
INVARIANTS RefsExact FlagHasHolder NoLostWakeup
PROPERTIES KilledLeaves LeftAloneGetsIn
