SPECIFICATION Spec
CONSTANTS
  Procs = {p, q, r}
  Preempt = FALSE
  Signals = {"fatal", "shared"}
  Nobody = Nobody
  ReadsToEnd = TRUE
SYMMETRY Alike
INVARIANTS OneHolder
PROPERTY EndAfterMessage
