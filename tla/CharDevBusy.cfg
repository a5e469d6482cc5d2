SPECIFICATION PortSpec
CONSTANTS
  Tasks = {p, q}
  NoFile = NoFile
  BufLen = 3
  Letters = {1, 2}
  Greeting <- Hello
  Full = FALSE
  Bytes = {1, 2}
  NoByte = NoByte
INVARIANT ReadyForNext
