\* Boot messages, some too long for the buffer, then the handlers of IRQ 12
\* and int 0x80.
CONSTANTS
  SIZE = 11
  Character <- MCCharacter
  BootCalls <- MCBoot
  SyscallCalls <- MCSyscall
  MouseCalls <- MCMouse
  MaxCalls = 2
  MaxInterrupts = 2
SPECIFICATION Spec
INVARIANT MessagesWhole
INVARIANT WithinReach
INVARIANT SendsBeginning
PROPERTY PrintsReturn
CHECK_DEADLOCK FALSE
