SPECIFICATION FairSpec
CONSTANTS
  Procs = {p, q}
  Preempt = FALSE
  Signals = {"shared"}
  Nobody = Nobody
  ReadsToEnd = TRUE
PROPERTY SignalsInterrupt
