------------------------------ MODULE CharDev ------------------------------
(***************************************************************************)
(* The message of charexample/chardev.c, which programs write, read and    *)
(* set by ioctl, and of lkm3_char/chardev.c, which open writes.  Both are  *)
(* an array of BufLen characters and a pointer at which reading goes on.   *)
(*                                                                         *)
(* File operations are those of a task that has the device to itself: one  *)
(* operation is one step.  Characters are members of Letters; 0 is NUL.    *)
(* The pointer stops at BufLen, where what it would read is not the        *)
(* driver's.                                                               *)
(***************************************************************************)
EXTENDS ExclusiveOpen, Sequences

CONSTANTS BufLen,
          Letters,
          Greeting,  \* what lkm3's sprintf writes
          Full       \* programs also write messages that fill the buffer

ASSUME MessageAssumption ==
  /\ BufLen \in Nat \ {0}
  /\ 0 \notin Letters
  /\ Greeting \in Seq(Letters) /\ Len(Greeting) < BufLen
  /\ Full \in BOOLEAN

VARIABLES Message, Message_Ptr

vars == <<lockVars, Message, Message_Ptr>>

Buf == 0..(BufLen - 1)

Least(a, b) == IF a <= b THEN a ELSE b

\* What programs pass
Texts == UNION {[1..n -> Letters] : n \in 0..(IF Full THEN BufLen + 1 ELSE BufLen - 1)}

\* The characters of the buffer before the first NUL
TextLength(buffer) ==
  CHOOSE n \in 0..BufLen : /\ \A i \in Buf : i < n => buffer[i] # 0
                           /\ n < BufLen => buffer[n] = 0

Text(buffer) == [i \in 1..TextLength(buffer) |-> buffer[i - 1]]

\* The first n characters of a terminated text, over what the buffer holds
Copied(buffer, text, n) ==
  [i \in Buf |-> IF i >= n THEN buffer[i] ELSE IF i < Len(text) THEN text[i + 1] ELSE 0]

\* The task has the device's only open file, and nobody is in open or release
Alone(t) ==
  /\ loaded
  /\ file[t] # NoFile /\ pc[t] = "user"
  /\ \A u \in Tasks \ {t} : file[u] = NoFile /\ pc[u] \in {"user", "test"}

-----------------------------------------------------------------------------
Init ==
  /\ LockInit
  /\ Message = [i \in Buf |-> 0]
  /\ Message_Ptr = 0

\* device_open of char_dev rewinds, that of chardev writes its message; the
\* buffers start from zero when the module is loaded
Open(t) ==
  /\ OpenDone(t)
  /\ CASE setting.driver = "char_dev" -> Message_Ptr' = 0 /\ UNCHANGED Message
       [] setting.driver = "chardev"  -> /\ Message_Ptr' = 0
                                         /\ Message' = Copied(Message, Greeting, Len(Greeting) + 1)
       [] OTHER -> UNCHANGED <<Message, Message_Ptr>>

LoadBuffers ==
  /\ Load
  /\ Message' = [i \in Buf |-> 0]
  /\ Message_Ptr' = 0

\* device_read: up to length characters, or to the end of the message
Read(t, length) ==
  /\ setting.driver \in {"char_dev", "chardev"} /\ Alone(t)
  /\ Message_Ptr < BufLen /\ Message[Message_Ptr] # 0
  /\ \E n \in 0..length :
       /\ \A i \in Message_Ptr..(Message_Ptr + n - 1) : i \in Buf => Message[i] # 0
       /\ n < length /\ Message_Ptr + n \in Buf => Message[Message_Ptr + n] = 0
       /\ Message_Ptr' = Least(Message_Ptr + n, BufLen)
  /\ UNCHANGED <<lockVars, Message>>

\* Variant: the pointer stays where the last reader left it
PutOver(text, n) ==
  /\ Message' = Copied(Message, text, Least(n, BufLen))
  /\ UNCHANGED Message_Ptr

\* device_write, of n characters
Put(text, n) ==
  /\ Message' = Copied(Message, text, Least(n, BufLen))
  /\ Message_Ptr' = 0

Write(t, text) ==
  /\ setting.driver = "char_dev" /\ Alone(t)
  /\ Put(text, Len(text))
  /\ UNCHANGED lockVars

\* Variant: the loop that looks at each character once
SetLengthOnce(text) == Least(Len(text), BufLen)

\* The length IOCTL_SET_MSG finds: the first character is fetched twice, so that
\* the NUL is counted too, unless it is the first
SetLength(text) == IF text = <<>> THEN 0 ELSE Least(Len(text) + 1, BufLen)

\* device_ioctl, IOCTL_SET_MSG
SetMsg(t, text) ==
  /\ setting.driver = "char_dev" /\ Alone(t)
  /\ Put(text, SetLength(text))
  /\ UNCHANGED lockVars

\* device_ioctl, IOCTL_GET_MSG: a read of 99 characters
GetMsg(t) ==
  /\ setting.driver = "char_dev"
  /\ Read(t, BufLen + 1)

FileOp(t) ==
  \/ \E length \in 1..BufLen : Read(t, length)
  \/ GetMsg(t)
  \/ \E text \in Texts : Write(t, text) \/ SetMsg(t, text)

Next ==
  \/ LoadBuffers
  \/ LockStep /\ UNCHANGED <<Message, Message_Ptr>>
  \/ \E t \in Tasks : Open(t) \/ FileOp(t)

Spec == Init /\ [][Next]_vars

-----------------------------------------------------------------------------
TypeOK ==
  /\ LockTypeOK
  /\ Message \in [Buf -> Letters \cup {0}]
  /\ Message_Ptr \in 0..BufLen

\* However programs write, set and read, reading stops inside the buffer, and
\* never after the message's end
ReadsInside ==
  ~Full => /\ \E i \in Buf : Message_Ptr <= i /\ Message[i] = 0
           /\ \A i \in Buf : i < Message_Ptr => Message[i] # 0

\* IOCTL_SET_MSG makes the text the device's message: nothing of a longer one is
\* left behind it.  The empty text is not set
SetMsgSets ==
  [][\A t \in Tasks, text \in Texts :
       SetMsg(t, text) /\ text # <<>> /\ Len(text) < BufLen => Text(Message') = text]_vars
=============================================================================
