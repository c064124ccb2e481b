------------------------------- MODULE Serial -------------------------------
(***************************************************************************)
(* The serial console (Kernel/src/Core/serial.c) and who uses it.  All     *)
(* messages are formatted in one static buffer, then sent from it one      *)
(* character at a time.  kmain prints while it boots; after init_idt       *)
(* (Core/Interrupts/idt.c) the handlers of the mouse (IRQ 12) and of       *)
(* int 0x80 print.  Nothing but the type of their gates keeps one handler  *)
(* from running, and printing, in the middle of the other.                 *)
(*                                                                         *)
(* A character is a one-letter string.  A format is a sequence of          *)
(* characters, its arguments a sequence of values: integers for d and x,   *)
(* a character for c, a sequence of characters for s.  The null pointer,   *)
(* for which vkformat takes "(null)", is given as that sequence.           *)
(*                                                                         *)
(* The bytes behind buf that a long text reaches are taken to be nobody's. *)
(* That is up to the linker: ptr is declared next to buf.                  *)
(*                                                                         *)
(* The UART is external: a transmit register, and the divisor latch that   *)
(* takes its place while DLAB is set.  So is the delivery of IRQ 12, which *)
(* the kernel itself never enables; the UART's own IRQ 4 is taken to be    *)
(* masked, whatever the loader left in its interrupt enable register.      *)
(*                                                                         *)
(* A definition that stands directly before the one it is a variation of,  *)
(* and is used nowhere, is a mutant: the bug a property has to notice.     *)
(***************************************************************************)
EXTENDS Integers, Sequences, SequencesExt, FiniteSetsExt

CONSTANTS
  SIZE,          \* of buf (1024 in the code)
  Character,     \* the characters, without NUL
  BootCalls,     \* calls [fmt, args, to] kmain may make
  SyscallCalls,  \* the calls, in order, of syscall_dispatcher
  MouseCalls,    \* the possible sequences of calls of mouse_handler
  MaxCalls,      \* calls of kmain (a bound)
  MaxInterrupts  \* interrupts (a bound)

Calls == BootCalls \union Range(SyscallCalls) \union UNION {Range(c) : c \in MouseCalls}

NUL == "NUL"
HexDigits == <<"0", "1", "2", "3", "4", "5", "6", "7",
               "8", "9", "a", "b", "c", "d", "e", "f">>
ASSUME CharactersAssumption ==
  NUL \notin Character /\ "-" \in Character /\ HexDigits \in Seq(Character)

\* The conversions that take an argument, and the arguments they take: a
\* string, a character, an int, an unsigned int.
TakesArg(conv) == conv \in {"s", "c", "d", "x"}
Suits(conv, arg) ==
  CASE conv = "s" -> arg \in Seq(Character)
    [] conv = "c" -> arg \in Character
    [] conv = "d" -> arg \in Int /\ arg >= -2147483647 - 1 /\ arg <= 2147483647
    [] OTHER -> arg \in Nat

\* From its i-th character and k-th argument on, a call has a conversion
\* behind every percent sign and the argument it takes.
IsCall(c) ==
  LET from[i \in Nat] == [k \in Nat |->
        IF i > Len(c.fmt) THEN i = Len(c.fmt) + 1
        ELSE IF c.fmt[i] # "%" THEN from[i + 1][k]
        ELSE IF TakesArg(c.fmt[i + 1])
             THEN k \in DOMAIN c.args /\ Suits(c.fmt[i + 1], c.args[k]) /\ from[i + 2][k + 1]
        ELSE from[i + 2][k]]
  IN  from

\* to is "port" for serial_printf and "memory" for ksprintf.
ASSUME CallsAssumption ==
  /\ SyscallCalls \in Seq(Calls) /\ MouseCalls \subseteq Seq(Calls)
  /\ \A c \in Calls :
       c.to \in {"port", "memory"} /\ c.fmt \in Seq(Character) /\ IsCall(c)[1][1]
ASSUME BoundsAssumption == SIZE \in Nat \ {0} /\ MaxCalls \in Nat /\ MaxInterrupts \in Nat

SYSCALL == 128    \* 0x80
MOUSE == 44       \* 0x2C, IRQ 12
Beyond == 10      \* bytes behind buf that one conversion can still reach

VARIABLES
  buf, ptr,     \* the static variables of serial.c; buf with the bytes behind it
  stack,        \* activations: each its vector (0: kmain), its calls, where it is
  idt,          \* the flags of the gates that are set
  initStep,     \* the next outb of serial_init, 8 when it has returned
  regs,         \* of the UART: divisor (low, high), interrupt enable, line control
  thr,          \* the character in the transmit register, NUL if there is none
  out,          \* the characters on the line, in order
  copied,       \* what the last ksprintf wrote
  log,          \* history: the calls made, in order
  interrupts    \* interrupts taken

uart == <<regs, thr, out>>
vars == <<buf, ptr, stack, idt, initStep, uart, copied, log, interrupts>>
----------------------------------------------------------------------------
(***************************************************************************)
(* Formatting.                                                             *)
(***************************************************************************)
Digit(n) == HexDigits[n + 1]

parse_num(value, base) ==
  LET digits[n \in 0 .. value] ==
        IF n >= base THEN Append(digits[n \div base], Digit(n % base)) ELSE <<Digit(n % base)>>
  IN  digits[value]

\* Eight digits, the highest first: value >> (i * 4) for i from 7 to 0.
Shifts == <<268435456, 16777216, 1048576, 65536, 4096, 256, 16, 1>>
parse_hex(value) == [k \in 1 .. 8 |-> Digit((value \div Shifts[k]) % 16)]

\* What the conversion after a percent sign puts into buf, from ptr on.
ConvertUncut(conv, arg) ==
  CASE conv = "s" -> arg
    [] conv = "c" -> <<arg>>
    [] conv = "d" -> IF arg < 0 THEN <<"-">> \o parse_num(-arg, 10) ELSE parse_num(arg, 10)
    [] conv = "x" -> parse_hex(arg)
    [] OTHER -> <<conv>>
Convert(conv, arg) ==
  CASE conv = "s" -> SubSeq(arg, 1, Min({Len(arg), SIZE - 1 - ptr}))
    [] conv = "c" -> <<arg>>
    [] conv = "d" -> IF arg < 0 THEN <<"-">> \o parse_num(-arg, 10) ELSE parse_num(arg, 10)
    [] conv = "x" -> parse_hex(arg)
    [] OTHER -> <<conv>>

Written(text) ==
  [n \in DOMAIN buf |-> IF n \in ptr .. ptr + Len(text) - 1 THEN text[n - ptr + 1] ELSE buf[n]]

Top == Head(stack)
Call == Head(Top.calls)
\* The format is at its end or the buffer is full.
Formatted == Top.at > Len(Call.fmt) \/ ptr >= SIZE - 1

Advance(f) == stack' = <<f>> \o Tail(stack)
----------------------------------------------------------------------------
(***************************************************************************)
(* serial.c.                                                               *)
(***************************************************************************)
\* outb(SERIAL_PORT + offset, value), as the UART takes it: with DLAB set in
\* the line control register the first two ports are the divisor.
DLAB == regs.lcr >= 128
Outb(offset, value) ==
  CASE offset = 0 /\ ~DLAB -> thr' = value /\ UNCHANGED regs
    [] offset = 0 /\ DLAB -> regs' = [regs EXCEPT !.dll = value] /\ UNCHANGED thr
    [] offset = 1 /\ ~DLAB -> regs' = [regs EXCEPT !.ier = value] /\ UNCHANGED thr
    [] offset = 1 /\ DLAB -> regs' = [regs EXCEPT !.dlm = value] /\ UNCHANGED thr
    [] offset = 3 -> regs' = [regs EXCEPT !.lcr = value] /\ UNCHANGED thr
    [] OTHER -> UNCHANGED <<regs, thr>>    \* FIFO and modem control

InitWritesKeepDlab ==
  <<<<1, 0>>, <<3, 128>>, <<0, 1>>, <<1, 0>>, <<2, 199>>, <<4, 11>>, <<3, 131>>>>
InitWrites ==
  <<<<1, 0>>, <<3, 128>>, <<0, 1>>, <<1, 0>>, <<3, 3>>, <<2, 199>>, <<4, 11>>>>
serial_init ==
  /\ initStep \in DOMAIN InitWrites
  /\ Outb(InitWrites[initStep][1], InitWrites[initStep][2]) /\ initStep' = initStep + 1
  /\ UNCHANGED <<buf, ptr, stack, idt, out, copied, log, interrupts>>

\* An activation makes its next call: vkformat starts with ptr = 0.
Activation(vector, calls) ==
  [vector |-> vector, calls |-> calls, phase |-> "start", at |-> 1, arg |-> 1]

Start ==
  /\ stack # <<>> /\ Top.phase = "start" /\ Top.calls # <<>>
  /\ ptr' = 0 /\ log' = Append(log, Call)
  /\ Advance([Top EXCEPT !.phase = "format", !.at = 1, !.arg = 1])
  /\ UNCHANGED <<buf, idt, initStep, uart, copied, interrupts>>

\* One iteration of vkformat's loop.
Format ==
  /\ stack # <<>> /\ Top.phase = "format" /\ ~Formatted
  /\ LET percent == Call.fmt[Top.at] = "%"
         conv == IF percent THEN Call.fmt[Top.at + 1] ELSE Call.fmt[Top.at]
         takes == percent /\ TakesArg(conv)
         text == IF takes THEN Convert(conv, Call.args[Top.arg]) ELSE <<conv>>
     IN  /\ buf' = Written(text) /\ ptr' = ptr + Len(text)
         /\ Advance([Top EXCEPT !.at = @ + (IF percent THEN 2 ELSE 1),
                                !.arg = @ + (IF takes THEN 1 ELSE 0)])
  /\ UNCHANGED <<idt, initStep, uart, copied, log, interrupts>>

\* buf[ptr] = '\0'; then serial_print, or the copy of ksprintf, begins.
Terminate ==
  /\ stack # <<>> /\ Top.phase = "format" /\ Formatted
  /\ buf' = [buf EXCEPT ![ptr] = NUL]
  /\ Advance([Top EXCEPT !.phase = Call.to, !.at = 0])
  /\ UNCHANGED <<ptr, idt, initStep, uart, copied, log, interrupts>>

\* The message is out: the call returns.
NextCall == [Top EXCEPT !.calls = Tail(@), !.phase = "start"]

\* serial_putc waits until the transmit register is empty.
is_transmit_empty_inverted == thr # NUL
is_transmit_empty == thr = NUL
Putc ==
  /\ stack # <<>> /\ Top.phase = "port" /\ buf[Top.at] # NUL /\ is_transmit_empty
  /\ Outb(0, buf[Top.at])
  /\ Advance([Top EXCEPT !.at = @ + 1])
  /\ UNCHANGED <<buf, ptr, idt, initStep, out, copied, log, interrupts>>
Printed ==
  /\ stack # <<>> /\ Top.phase = "port" /\ buf[Top.at] = NUL
  /\ Advance(NextCall)
  /\ UNCHANGED <<buf, ptr, idt, initStep, uart, copied, log, interrupts>>

\* The copying loop of ksprintf.
Copy ==
  /\ stack # <<>> /\ Top.phase = "memory"
  /\ \E end \in DOMAIN buf :
       /\ buf[end] = NUL /\ \A n \in 0 .. end - 1 : buf[n] # NUL
       /\ copied' = [n \in 1 .. end |-> buf[n - 1]]
  /\ Advance(NextCall)
  /\ UNCHANGED <<buf, ptr, idt, initStep, uart, log, interrupts>>

\* The activation is over: kmain goes on, or iretq.
Return ==
  /\ stack # <<>> /\ Top.calls = <<>>
  /\ stack' = Tail(stack)
  /\ UNCHANGED <<buf, ptr, idt, initStep, uart, copied, log, interrupts>>
----------------------------------------------------------------------------
(***************************************************************************)
(* Who prints.                                                             *)
(***************************************************************************)
Init ==
  /\ buf = [n \in 0 .. SIZE - 1 + Beyond |-> NUL] /\ ptr = 0
  /\ stack = <<>> /\ idt = [v \in {} |-> 0] /\ initStep = 1
  /\ regs \in [dll : {12}, dlm : {0}, ier : {0, 1}, lcr : {0, 131}] /\ thr = NUL
  /\ out = <<>> /\ copied = <<>> /\ log = <<>> /\ interrupts = 0

KmainPrints(call) ==
  /\ initStep > Len(InitWrites) /\ DOMAIN idt = {} /\ stack = <<>> /\ Len(log) < MaxCalls
  /\ stack' = <<Activation(0, <<call>>)>>
  /\ UNCHANGED <<buf, ptr, idt, initStep, uart, copied, log, interrupts>>

\* The flags set_idt_gate gives the gate of vector n.
GateTrap(n) == IF n = SYSCALL THEN 239 ELSE 143
Gate(n) == IF n = SYSCALL THEN 238 ELSE 142    \* 0xEE, 0x8E
InterruptGate(flags) == flags % 16 = 14

\* The last thing kmain does.
init_idt ==
  /\ initStep > Len(InitWrites) /\ DOMAIN idt = {} /\ stack = <<>>
  /\ idt' = [v \in {SYSCALL, MOUSE} |-> Gate(v)]
  /\ UNCHANGED <<buf, ptr, stack, initStep, uart, copied, log, interrupts>>

\* An interrupt gate keeps IRQs out until its handler returns; the PIC sends
\* no second IRQ 12 before the end of interrupt; handlers run no int 0x80.
Delivered(vector) ==
  /\ vector \in DOMAIN idt /\ interrupts < MaxInterrupts
  /\ vector = SYSCALL => stack = <<>>
  /\ \A n \in DOMAIN stack :
       stack[n].vector # vector /\ ~InterruptGate(idt[stack[n].vector])
Interrupt(vector, calls) ==
  /\ Delivered(vector)
  /\ stack' = <<Activation(vector, calls)>> \o stack /\ interrupts' = interrupts + 1
  /\ UNCHANGED <<buf, ptr, idt, initStep, uart, copied, log>>

\* The UART sends the character; the other side reads it if both use the
\* same line settings: 115200 baud (divisor 1), 8 bits, no parity.
LineIsSet == regs.dll = 1 /\ regs.dlm = 0 /\ regs.lcr = 3
Transmit ==
  /\ thr # NUL /\ thr' = NUL
  /\ out' = Append(out, IF LineIsSet THEN thr ELSE "garbled")
  /\ UNCHANGED <<buf, ptr, stack, idt, initStep, regs, copied, log, interrupts>>

\* syscall_dispatcher, and mouse_handler with what it calls.
SyscallInterrupt == Interrupt(SYSCALL, SyscallCalls)
MouseInterrupt(calls) == Interrupt(MOUSE, calls)

Run == Start \/ Format \/ Terminate \/ Putc \/ Printed \/ Copy \/ Return

Next ==
  \/ serial_init \/ init_idt \/ Run \/ Transmit
  \/ \E c \in BootCalls : KmainPrints(c)
  \/ SyscallInterrupt
  \/ \E c \in MouseCalls : MouseInterrupt(c)

\* The processor runs the code it is in, and the UART sends.
Spec == Init /\ [][Next]_vars /\ WF_vars(Run) /\ WF_vars(Transmit)
----------------------------------------------------------------------------
(***************************************************************************)
(* Properties.                                                             *)
(***************************************************************************)
\* The text a call stands for, whatever the buffer.
Powers == <<1, 10, 100, 1000, 10000, 100000, 1000000, 10000000, 100000000, 1000000000>>
Decimal(n) ==
  LET width == CHOOSE k \in 1 .. 10 : /\ k = 1 \/ n >= Powers[k]
                                      /\ k = 10 \/ n < Powers[k + 1]
  IN  [j \in 1 .. width |-> Digit((n \div Powers[width + 1 - j]) % 10)]
Piece(conv, arg) ==
  CASE conv = "s" -> arg
    [] conv = "d" -> IF arg < 0 THEN <<"-">> \o Decimal(-arg) ELSE Decimal(arg)
    [] conv = "x" -> parse_hex(arg)
    [] OTHER -> <<arg>>

\* From the i-th character of its format and its k-th argument on.
TextFrom(call) ==
  LET from[i \in Nat] == [k \in Nat |->
        IF i > Len(call.fmt) THEN <<>>
        ELSE IF call.fmt[i] # "%" THEN <<call.fmt[i]>> \o from[i + 1][k]
        ELSE IF TakesArg(call.fmt[i + 1])
             THEN Piece(call.fmt[i + 1], call.args[k]) \o from[i + 2][k + 1]
        ELSE <<call.fmt[i + 1]>> \o from[i + 2][k]]
  IN  from
Text(call) == TextFrom(call)[1][1]

\* The texts of a sequence of calls, as far as they go to the port.
Texts(calls) ==
  LET upto[n \in 0 .. Len(calls)] ==
        IF n = 0 THEN <<>>
        ELSE upto[n - 1] \o (IF calls[n].to = "port" THEN Text(calls[n]) ELSE <<>>)
  IN  upto[Len(calls)]

\* Messages that fit in buf arrive whole.  When nobody is printing, what has
\* been sent is the text of every call of serial_printf in the order of the
\* calls, and a ksprintf gives its caller the text of its own call: no
\* handler prints from the buffer another message is in, and no character
\* is lost.
Fits(call) == Len(Text(call)) < SIZE
MessagesWhole ==
  (\A n \in DOMAIN log : Fits(log[n])) =>
    /\ stack = <<>> /\ thr = NUL => out = Texts(log)
    /\ stack # <<>> /\ Top.phase = "start" /\ log # <<>> /\ Last(log).to = "memory" =>
         copied = Text(Last(log))

\* A text that fits stays inside buf.  One that does not passes its end, by
\* as much as one conversion that starts at the last free byte (ten bytes);
\* what the linker put there is not said.
WithinReach ==
  /\ ptr <= SIZE - 1 + Beyond
  /\ stack # <<>> /\ Top.phase # "start" /\ Fits(Call) => ptr < SIZE

\* What is sent of a text too long for buf is its beginning, and no less
\* than buf can hold: said of the only call of serial_printf, if there is one.
Beginning(s, text) == IsPrefix(s, text) /\ (Len(s) >= SIZE - 1 \/ s = text)
OnlyPrint(n) == \A m \in DOMAIN log : log[m].to = "port" <=> m = n
SendsBeginning ==
  stack = <<>> /\ thr = NUL =>
    \A n \in DOMAIN log : OnlyPrint(n) => Beginning(out, Text(log[n]))

\* Every call returns.
PrintsReturn == stack # <<>> ~> stack = <<>>
============================================================================
