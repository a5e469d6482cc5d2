------------------------------ MODULE PortDev ------------------------------
(***************************************************************************)
(* What module4.c and module5_fops.c do with the parallel port once it is  *)
(* open: module4_write sends a byte and then records it, module4_read      *)
(* returns the recorded one; module5_ioctl sends patterns and returns the  *)
(* value recorded last.  Neither has a lock: tasks that share an open file *)
(* can be in module4_write together.  Bytes are members of Bytes.          *)
(***************************************************************************)
EXTENDS CharDev

CONSTANTS Bytes, NoByte

ASSUME BytesAssumption == Bytes \subseteq 0..255 /\ NoByte \notin 0..255

VARIABLES port,      \* what the port's data lines carry
          lastbyte,  \* module4_lastbytewritten, module5_lastbytewritten
          writing,   \* writing[t]: the byte t has sent and not recorded yet
          fresh      \* history: nothing was sent since the device was opened last

portVars == <<vars, port, lastbyte, writing, fresh>>

PortDrivers == {"module4", "module5"}

PortInit ==
  /\ Init
  /\ port = 0
  /\ lastbyte = 0
  /\ writing = [t \in Tasks |-> NoByte]
  /\ fresh = TRUE

\* Variant: open leaves the byte of the last user
ClearedNot == UNCHANGED lastbyte

\* module4_open, module5_open
Cleared == lastbyte' = 0

\* The last step of open
PortOpen(t) ==
  /\ Open(t)
  /\ IF setting.driver \in PortDrivers THEN Cleared /\ fresh' = TRUE
                                       ELSE UNCHANGED <<lastbyte, fresh>>
  /\ UNCHANGED <<port, writing>>

\* In the driver's code with the device open
Inside(t, driver) ==
  /\ loaded /\ setting.driver = driver
  /\ file[t] # NoFile /\ pc[t] = "user" /\ writing[t] = NoByte

outb(ch) == port' = ch /\ fresh' = FALSE

\* module4_write sends the last byte of the buffer, and records it
SendByte(t, ch) ==
  /\ Inside(t, "module4")
  /\ outb(ch)
  /\ writing' = [writing EXCEPT ![t] = ch]
  /\ UNCHANGED <<vars, lastbyte>>

RecordByte(t) ==
  /\ writing[t] # NoByte
  /\ lastbyte' = writing[t]
  /\ writing' = [writing EXCEPT ![t] = NoByte]
  /\ UNCHANGED <<vars, port, fresh>>

\* val | 0x80 in a byte
Lit(val) == 128 + (val % 128)

\* MODULE5_IOCRESET has no argument, so that err is not set: the test of it may
\* return -EFAULT, and then nothing happens.  The glyphs are all 0.
Ioctl(t) ==
  /\ Inside(t, "module5")
  /\ \E ch \in {Lit(0)} \cup {Lit(val) : val \in Bytes} : outb(ch)
  /\ UNCHANGED <<vars, lastbyte, writing>>

\* Steps of CharDev other than Open; a task in module4_write is nowhere else
OtherStep ==
  /\ \/ LoadBuffers
     \/ LockStep /\ UNCHANGED <<Message, Message_Ptr>>
     \/ \E t \in Tasks : FileOp(t)
  /\ \A t \in Tasks : writing[t] # NoByte => pc'[t] = pc[t] /\ file'[t] = file[t]
  /\ UNCHANGED <<port, lastbyte, writing, fresh>>

PortNext ==
  \/ OtherStep
  \/ \E t \in Tasks :
       \/ PortOpen(t)
       \/ \E ch \in Bytes : SendByte(t, ch)
       \/ RecordByte(t)
       \/ Ioctl(t)

PortSpec == PortInit /\ [][PortNext]_portVars

-----------------------------------------------------------------------------
\* What module4_read returns to a program that has the device to itself is the
\* byte that is on the port, if it has sent one, and 0 before: nothing of the
\* program that had the device before shows.  Two opens at once, or two tasks
\* that share the file, can leave another byte recorded than the one on the port.
ReadsOwnByte ==
  setting.driver = "module4" /\ setting.serial /\ ~setting.forks =>
    \A t \in Tasks :
      file[t] # NoFile /\ writing[t] = NoByte => lastbyte = IF fresh THEN 0 ELSE port
=============================================================================
