----------------------------- MODULE Interrupts -----------------------------
(***************************************************************************)
(* Entering and leaving a handler: the gates that set_idt_gate writes      *)
(* (Kernel/src/Core/Interrupts/idt.c), and the two wrappers (mouse.asm,    *)
(* syscalls_warpper.asm), which save the registers on the stack, pass the  *)
(* address of what they saved to the dispatcher, and restore them.         *)
(*                                                                         *)
(* The stack is a memory of 8-byte slots that grows downwards, and rsp a   *)
(* slot number.  The processor is external: it aligns rsp to 16 bytes,     *)
(* pushes the interrupted context and enters the gate; iretq undoes that.  *)
(* The dispatchers are C functions: they may leave anything in the         *)
(* registers the calling convention lets them use, the SSE and x87 state   *)
(* among them, which the wrappers do not save.                             *)
(*                                                                         *)
(* Of a gate the model keeps the address.  The other fields are constants  *)
(* of idt.c: selector 0x08, taken to be a segment of 64-bit kernel code    *)
(* (gdt_install is empty: it is the one the boot loader left), ist 0, and  *)
(* the type, which is in Serial's Gate.                                    *)
(*                                                                         *)
(* A definition that stands directly before the one it is a variation of,  *)
(* and is used nowhere, is a mutant: the bug a property has to notice.     *)
(***************************************************************************)
EXTENDS Integers, Sequences

CONSTANTS
  HALF,       \* the values of a 16-bit part of an address (65536)
  Handlers,   \* addresses of handlers
  Vectors,    \* vectors set_idt_gate is called with
  Tops        \* values of rsp when an interrupt comes

ASSUME HalfAssumption == HALF \in Nat \ {0}
ASSUME HandlersAssumption == Handlers \subseteq 0 .. HALF * HALF * HALF * HALF - 1
ASSUME VectorsAssumption == Vectors \subseteq Int
ASSUME TopsAssumption == Tops \subseteq 22 .. 63

Slot == 0 .. 63
Pushed == {"rax", "rbx", "rcx", "rdx", "rdi", "rsi", "rbp",
           "r8", "r9", "r10", "r11", "r12", "r13", "r14", "r15"}
\* The general-purpose registers and the context that iretq loads; xmm0 to
\* xmm15, mxcsr and the x87 state, as one more, "fpu".
General == Pushed \union {"rip", "cs", "rflags", "rsp", "ss"}
Scratch == {"rax", "rcx", "rdx", "rdi", "rsi", "r8", "r9", "r10", "r11", "fpu"}
Junk == "junk"

VARIABLES
  idt,      \* the gates that are present
  pc,       \* "program", "push", "dispatch", "pop" or "iret"
  n,        \* registers pushed and not popped
  regs,     \* the register file
  mem,      \* the stack
  before    \* history: the registers when it came

vars == <<idt, pc, n, regs, mem, before>>
----------------------------------------------------------------------------
PushOrderShort ==
  <<"rax", "rbx", "rcx", "rdx", "rdi", "rsi", "rbp",
    "r8", "r9", "r10", "r11", "r12", "r13", "r14">>
PushOrder ==
  <<"rax", "rbx", "rcx", "rdx", "rdi", "rsi", "rbp",
    "r8", "r9", "r10", "r11", "r12", "r13", "r14", "r15">>
PopOrderSwapped ==
  <<"r15", "r14", "r13", "r12", "r11", "r10", "r9", "r8",
    "rbp", "rdi", "rsi", "rdx", "rcx", "rbx", "rax">>
PopOrder ==
  <<"r15", "r14", "r13", "r12", "r11", "r10", "r9", "r8",
    "rbp", "rsi", "rdi", "rdx", "rcx", "rbx", "rax">>

\* The fields of registers_t, from the lowest address up.
registers_t ==
  <<"r15", "r14", "r13", "r12", "r11", "r10", "r9", "r8",
    "rbp", "rdi", "rsi", "rdx", "rcx", "rbx", "rax",
    "rip", "cs", "rflags", "rsp", "ss">>

\* set_idt_gate cuts the address into three parts ...
GateNoMid(handler) ==
  [low  |-> handler % HALF,
   mid  |-> (handler \div (HALF * HALF)) % HALF,
   high |-> handler \div (HALF * HALF)]
Gate(handler) ==
  [low  |-> handler % HALF,
   mid  |-> (handler \div HALF) % HALF,
   high |-> handler \div (HALF * HALF)]
\* ... which the processor puts together.
Target(gate) == gate.low + HALF * (gate.mid + HALF * gate.high)

IsVectorUpTo(v) == 0 <= v /\ v <= 256
IsVector(v) == 0 <= v /\ v < 256

InitCpu ==
  /\ idt = [v \in {} |-> 0] /\ pc = "program" /\ n = 0
  /\ regs = [r \in General \union {"fpu"} |-> IF r = "rsp" THEN 0 ELSE r]
  /\ before = regs
Init == InitCpu /\ mem = [s \in Slot |-> Junk]

\* set_idt_gate does nothing when the vector is out of range.
set_idt_gate(v, handler) ==
  /\ pc = "program"
  /\ idt' = IF ~IsVector(v) THEN idt
            ELSE [w \in DOMAIN idt \union {v} |-> IF w = v THEN Gate(handler) ELSE idt[w]]
  /\ UNCHANGED <<pc, n, regs, mem, before>>

\* The program that is interrupted is anywhere on its stack.
Runs(top) ==
  /\ pc = "program" /\ regs' = [regs EXCEPT !.rsp = top] /\ before' = regs'
  /\ UNCHANGED <<idt, pc, n, mem>>

Interrupt(v) ==
  LET base == regs.rsp - (regs.rsp % 2)
      frame == <<"rip", "cs", "rflags", "rsp", "ss">>
  IN  /\ pc = "program" /\ regs.rsp # 0 /\ v \in DOMAIN idt
      /\ mem' = [s \in Slot |-> IF s \in base - 5 .. base - 1
                                THEN regs[frame[s - base + 6]] ELSE mem[s]]
      /\ before' = regs
      /\ regs' = [regs EXCEPT !.rsp = base - 5, !.rip = "wrapper", !.cs = "kernel",
                              !.rflags = "masked"]
      /\ pc' = "push" /\ n' = 0
      /\ UNCHANGED idt

\* The wrapper: fifteen pushes ...
Push ==
  /\ pc = "push" /\ n < Len(PushOrder)
  /\ mem' = [mem EXCEPT ![regs.rsp - 1] = regs[PushOrder[n + 1]]]
  /\ regs' = [regs EXCEPT !.rsp = @ - 1] /\ n' = n + 1
  /\ pc' = IF n + 1 = Len(PushOrder) THEN "dispatch" ELSE "push"
  /\ UNCHANGED <<idt, before>>

\* ... mov rdi, rsp; call, which returns with rsp as it was ...
Dispatch(used) ==
  /\ pc = "dispatch" /\ pc' = "pop" /\ n' = 0
  /\ regs' = [r \in DOMAIN regs |->
                IF r \in used THEN Junk ELSE IF r = "rdi" THEN regs.rsp ELSE regs[r]]
  /\ UNCHANGED <<idt, mem, before>>

\* ... fifteen pops ...
Pop ==
  /\ pc = "pop"
  /\ regs' = [regs EXCEPT ![PopOrder[n + 1]] = mem[regs.rsp], !.rsp = @ + 1]
  /\ n' = n + 1 /\ pc' = IF n + 1 = Len(PopOrder) THEN "iret" ELSE "pop"
  /\ UNCHANGED <<idt, mem, before>>

\* ... and iretq.
Iretq ==
  /\ pc = "iret" /\ pc' = "program" /\ n' = 0
  /\ regs' = [regs EXCEPT !.rip = mem[regs.rsp], !.cs = mem[regs.rsp + 1],
                          !.rflags = mem[regs.rsp + 2], !.rsp = mem[regs.rsp + 3],
                          !.ss = mem[regs.rsp + 4]]
  /\ UNCHANGED <<idt, mem, before>>

Next ==
  \/ Push \/ Pop \/ Iretq \/ \E used \in SUBSET Scratch : Dispatch(used)
  \/ \E top \in Tops : Runs(top)
  \/ \E v \in Vectors : Interrupt(v)
  \/ \E v \in Vectors, h \in Handlers : set_idt_gate(v, h)

Spec == Init /\ [][Next]_vars
----------------------------------------------------------------------------
(***************************************************************************)
(* Properties.                                                             *)
(***************************************************************************)
\* Types of the table and of the wrapper's state: only vectors that the
\* 256 entries of the table have are written.
TypeOK ==
  /\ DOMAIN idt \subseteq 0 .. 255
  /\ \A v \in DOMAIN idt : idt[v].low \in 0 .. HALF - 1 /\ idt[v].mid \in 0 .. HALF - 1
  /\ pc \in {"program", "push", "dispatch", "pop", "iret"}
  /\ n \in 0 .. 15 /\ regs.rsp \in Slot

\* The interrupted program finds every general-purpose register, its flags
\* and its place as they were, whatever the dispatcher did to the registers
\* it may use.  Of the SSE and x87 state nothing is claimed: mouse.asm does
\* not save it and the Makefile lets the compiler use it.
Restored == pc = "program" => \A r \in General : regs[r] = before[r]

\* The dispatcher is called with the stack aligned to 16 bytes, as compiled
\* C code expects, wherever the program's stack was.
CallAligned == pc = "dispatch" => regs.rsp % 2 = 0

\* A gate that set_idt_gate writes leads to the handler it was given, though
\* the address lies in three parts of the gate, and no other gate changes.
GatesLead ==
  [][\A v \in Vectors, h \in Handlers :
       set_idt_gate(v, h) =>
         /\ v \in DOMAIN idt' => Target(idt'[v]) = h
         /\ \A w \in DOMAIN idt \ {v} : idt'[w] = idt[w]]_vars

\* "void mouse_dispatcher(registers_t *regs)" (mouse.asm; the same in
\* syscalls_warpper.asm): the dispatcher finds each register of the program
\* in the field of registers_t that has its name.
FrameIsRegisters ==
  pc = "dispatch" =>
    \A f \in DOMAIN registers_t : mem[regs.rsp + f - 1] = before[registers_t[f]]
============================================================================
