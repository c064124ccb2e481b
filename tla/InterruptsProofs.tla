-------------------------- MODULE InterruptsProofs --------------------------
(***************************************************************************)
(* Theorems about Interrupts, with the loader and the jump to a user       *)
(* program of UserProgram beside them: the general-purpose registers of    *)
(* whoever is interrupted are restored, for all stacks, handlers and       *)
(* vectors, and the gates lead to their handlers; and, for all files,      *)
(* addresses and stacks, whatever interrupts the loading, memory holds the *)
(* program that the file describes when load_elf returns and when the      *)
(* program starts.                                                         *)
(***************************************************************************)
EXTENDS UserProgram, SequenceTheorems, TLAPS

Context5 == {"rip", "cs", "rflags", "rsp", "ss"}
Regs == General \union {"fpu"}

\* The slot above the interrupted program's context, and the context at s.
Base == before["rsp"] - (before["rsp"] % 2)
Context(s) ==
  /\ mem[s] = before["rip"] /\ mem[s + 1] = before["cs"] /\ mem[s + 2] = before["rflags"]
  /\ mem[s + 3] = before["rsp"] /\ mem[s + 4] = before["ss"]

\* The first k registers of PushOrder are on the stack; the registers of
\* the program are in the register file.
Saved(k) == \A j \in 1 .. k : mem[Base - 5 - j] = before[PushOrder[j]]
Unchanged == \A r \in Pushed : regs[r] = before[r]

Shape ==
  /\ regs = [r \in Regs |-> regs[r]] /\ before = [r \in Regs |-> before[r]]
  /\ mem = [s \in Slot |-> mem[s]]
Program ==
  /\ pc \in {"program", "push", "dispatch", "pop", "iret"}
  /\ before["rsp"] \in Slot
  /\ loader \notin {"jumping", "user"} => before["rsp"] \in Tops \union {0}
  /\ pc = "program" => n = 0 /\ \A r \in General : regs[r] = before[r]
  /\ pc \in {"push", "dispatch", "pop"} => before["rsp"] \in Tops /\ Context(Base - 5)

\* How far the wrapper has come, and what that says of stack and registers.
Pushing == pc = "push" => n \in 0 .. 14 /\ regs["rsp"] = Base - 5 - n /\ Unchanged /\ Saved(n)
Dispatching == pc = "dispatch" => n = 15 /\ regs["rsp"] = Base - 20 /\ Saved(15)
Popping ==
  pc = "pop" =>
    /\ n \in 0 .. 14 /\ regs["rsp"] = Base - 20 + n /\ Saved(15)
    /\ \A j \in 1 .. n : regs[PopOrder[j]] = before[PopOrder[j]]
Leaving ==
  pc = "iret" => n \in {0, 15} /\ regs["rsp"] \in 0 .. 58 /\ Context(regs["rsp"]) /\ Unchanged

Inv == Shape /\ Program /\ Pushing /\ Dispatching /\ Popping /\ Leaving

Gates ==
  /\ DOMAIN idt \subseteq 0 .. 255
  /\ \A v \in DOMAIN idt : idt[v].low \in 0 .. HALF - 1 /\ idt[v].mid \in 0 .. HALF - 1
----------------------------------------------------------------------------
(***************************************************************************)
(* The two orders, one the reverse of the other.                           *)
(***************************************************************************)
\* mouse.asm pushes and pops the same fifteen registers, in reverse.
LEMMA Orders ==
  /\ Len(PushOrder) = 15 /\ Len(PopOrder) = 15
  /\ \A j \in 1 .. 15 : PushOrder[j] \in Pushed /\ PopOrder[j] = PushOrder[16 - j]
  /\ \A r \in Pushed : \E j \in 1 .. 15 : r = PopOrder[j]
<1>1. Len(PushOrder) = 15 /\ Len(PopOrder) = 15
  BY DEF PushOrder, PopOrder
<1>2. \A j \in 1 .. 15 : PushOrder[j] \in Pushed
  BY DEF PushOrder, Pushed
<1>3. \A j \in 1 .. 15 : PopOrder[j] = PushOrder[16 - j]
  BY DEF PushOrder, PopOrder
<1>4. \A r \in Pushed : \E j \in 1 .. 15 : r = PopOrder[j]
  <2>1. /\ PopOrder[1] = "r15" /\ PopOrder[2] = "r14" /\ PopOrder[3] = "r13"
        /\ PopOrder[4] = "r12" /\ PopOrder[5] = "r11" /\ PopOrder[6] = "r10"
        /\ PopOrder[7] = "r9" /\ PopOrder[8] = "r8" /\ PopOrder[9] = "rbp"
        /\ PopOrder[10] = "rsi" /\ PopOrder[11] = "rdi" /\ PopOrder[12] = "rdx"
        /\ PopOrder[13] = "rcx" /\ PopOrder[14] = "rbx" /\ PopOrder[15] = "rax"
    BY DEF PopOrder
  <2> QED BY <2>1 DEF Pushed
<1> QED BY <1>1, <1>2, <1>3, <1>4

\* The registers a wrapper saves are not those of the context, and neither
\* are the SSE and x87 ones.
LEMMA Apart ==
  /\ Pushed \intersect Context5 = {} /\ General = Pushed \union Context5
  /\ Regs = Pushed \union Context5 \union {"fpu"}
  /\ "fpu" \notin Pushed /\ "fpu" \notin Context5
BY DEF Pushed, Context5, General, Regs

\* Aligned downwards, rsp stays on the stack.
LEMMA Evened == \A x \in 22 .. 63 : x - (x % 2) \in 22 .. 63 /\ (x - (x % 2)) % 2 = 0
OBVIOUS
----------------------------------------------------------------------------
(***************************************************************************)
(* The invariant of the wrapper.                                           *)
(***************************************************************************)

\* The program's registers are its own before the gate.
LEMMA InitInv == UserInit => Inv
<1> SUFFICES ASSUME UserInit PROVE Inv
  OBVIOUS
<1>1. regs = [r \in Regs |-> IF r = "rsp" THEN 0 ELSE r]
  BY DEF UserInit, InitCpu, Regs
<1>2. Shape /\ regs["rsp"] = 0
  <2>1. regs = [r \in Regs |-> regs[r]] /\ regs["rsp"] = 0
    BY <1>1, Apart, Zenon DEF Context5
  <2>2. mem = [s \in Slot |-> mem[s]]
    BY DEF UserInit
  <2> QED BY <2>1, <2>2 DEF UserInit, InitCpu, Shape
<1>3. pc = "program" /\ n = 0 /\ loader = "idle" /\ before = regs
  BY DEF UserInit, InitCpu
<1> QED
  BY <1>2, <1>3 DEF Inv, Program, Pushing, Dispatching, Popping, Leaving, Slot

\* The kernel is interrupted where it is, or goes on somewhere else.
LEMMA RunsInv ==
  ASSUME Inv, NEW top \in Tops, Runs(top), loader \notin {"jumping", "user"}, UNCHANGED uvars
  PROVE  Inv'
<1>1. top \in Slot
  BY TopsAssumption DEF Slot
<1>2. Shape'
  BY DEF Inv, Shape, Runs
<1>3. regs'["rsp"] = top /\ before' = regs' /\ pc' = "program" /\ n' = 0 /\ loader' = loader
  BY Apart DEF Inv, Shape, Program, Runs, uvars, Context5
<1> QED
  BY <1>1, <1>2, <1>3 DEF Inv, Program, Pushing, Dispatching, Popping, Leaving

\* Setting a gate leaves the stack alone.
LEMMA SetGateInv ==
  ASSUME Inv, NEW v \in Vectors, NEW h \in Handlers, set_idt_gate(v, h), UNCHANGED uvars
  PROVE  Inv'
BY DEF Inv, Shape, Program, Pushing, Dispatching, Popping, Leaving, set_idt_gate, uvars,
       Context, Saved, Unchanged, Base

\* The processor pushes the context under the aligned top of the stack.
LEMMA InterruptInv ==
  ASSUME Inv, NEW v \in Vectors, Interrupt(v), loader \notin {"jumping", "user"}, UNCHANGED uvars
  PROVE  Inv'
<1> DEFINE base == regs["rsp"] - (regs["rsp"] % 2)
           frame == <<"rip", "cs", "rflags", "rsp", "ss">>
<1>1. regs["rsp"] \in Tops
  BY Apart DEF Inv, Program, Interrupt, Context5
<1>2. base \in 22 .. 63
  BY <1>1, TopsAssumption, Evened
<1>3. /\ mem' = [s \in Slot |-> IF s \in base - 5 .. base - 1
                                THEN regs[frame[s - base + 6]] ELSE mem[s]]
      /\ before' = regs /\ pc' = "push" /\ n' = 0 /\ loader' = loader
  BY DEF Interrupt, uvars
<1>4. Shape' /\ regs'["rsp"] = base - 5 /\ \A r \in Pushed : regs'[r] = regs[r]
  <2>1. regs' = [regs EXCEPT !.rsp = base - 5, !.rip = "wrapper", !.cs = "kernel",
                             !.rflags = "masked"]
    BY DEF Interrupt
  <2>2. Shape'
    BY <2>1, <1>3 DEF Inv, Shape
  <2>3. regs'["rsp"] = base - 5
    BY <2>1, Apart DEF Inv, Shape, Context5
  <2>4. \A r \in Pushed : regs'[r] = regs[r]
    BY <2>1, Apart DEF Inv, Shape, Context5
  <2> QED BY <2>2, <2>3, <2>4
<1>5. Base' = base
  BY <1>3 DEF Base
<1>6. Context(Base - 5)'
  <2>1. /\ mem'[base - 5] = regs[frame[1]] /\ mem'[base - 5 + 1] = regs[frame[2]]
        /\ mem'[base - 5 + 2] = regs[frame[3]] /\ mem'[base - 5 + 3] = regs[frame[4]]
        /\ mem'[base - 5 + 4] = regs[frame[5]]
    <3>1. \A k \in 0 .. 4 : mem'[base - 5 + k] = regs[frame[k + 1]]
      <4> TAKE k \in 0 .. 4
      <4>1. base - 5 + k \in Slot /\ base - 5 + k \in base - 5 .. base - 1
        BY <1>2 DEF Slot
      <4>2. (base - 5 + k) - base + 6 = k + 1
        BY <1>2
      <4> QED BY <1>3, <4>1, <4>2
    <3> HIDE DEF base, frame
    <3> QED BY <3>1, <1>2
  <2>2. /\ mem'[base - 5] = regs["rip"] /\ mem'[base - 5 + 1] = regs["cs"]
        /\ mem'[base - 5 + 2] = regs["rflags"] /\ mem'[base - 5 + 3] = regs["rsp"]
        /\ mem'[base - 5 + 4] = regs["ss"]
    BY <2>1
  <2> QED BY <2>2, <1>3, <1>5 DEF Context
<1>7. Program'
  <2>1. regs["rsp"] \in Slot
    <3>1. \A t \in 22 .. 63 : t \in Slot
      BY DEF Slot
    <3> HIDE DEF base
    <3> QED BY <1>1, <3>1, TopsAssumption
  <2> HIDE DEF base
  <2> QED BY <1>1, <1>3, <1>6, <2>1 DEF Program
<1>8. Pushing'
  BY <1>2, <1>3, <1>4, <1>5 DEF Pushing, Unchanged, Saved
<1> QED
  BY <1>3, <1>4, <1>7, <1>8 DEF Inv, Dispatching, Popping, Leaving

\* One push: the next register goes under the ones that are saved.
LEMMA PushInv ==
  ASSUME Inv, Push, UNCHANGED uvars
  PROVE  Inv'
<1>1. /\ pc = "push" /\ n \in 0 .. 14 /\ regs["rsp"] = Base - 5 - n /\ Unchanged /\ Saved(n)
      /\ before["rsp"] \in Tops /\ Context(Base - 5)
  BY DEF Inv, Program, Pushing, Push
<1>2. Base \in 22 .. 63
  BY <1>1, TopsAssumption, Evened DEF Base
<1>3. /\ before' = before /\ n' = n + 1 /\ loader' = loader
      /\ pc' = IF n + 1 = 15 THEN "dispatch" ELSE "push"
      /\ mem' = [mem EXCEPT ![Base - 6 - n] = regs[PushOrder[n + 1]]]
      /\ regs' = [regs EXCEPT !.rsp = @ - 1]
  <2>1. regs["rsp"] - 1 = Base - 6 - n /\ Len(PushOrder) = 15
    BY <1>1, <1>2, Orders
  <2> QED BY <2>1 DEF Push, uvars
<1>4. Shape' /\ regs'["rsp"] = Base - 6 - n
  <2>1. "rsp" \in Regs
    BY Apart DEF Context5
  <2> QED BY <1>1, <1>2, <1>3, <2>1 DEF Inv, Shape
<1>5. Base' = Base
  BY <1>3 DEF Base
<1>6. mem'[Base - 6 - n] = before[PushOrder[n + 1]]
  BY <1>1, <1>2, <1>3, Orders DEF Inv, Shape, Slot, Unchanged
<1>7. \A s \in Slot : s # Base - 6 - n => mem'[s] = mem[s]
  BY <1>3 DEF Inv, Shape
<1>8. Saved(n)'
  <2> SUFFICES ASSUME NEW j \in 1 .. n + 1
               PROVE  mem'[Base - 5 - j] = before[PushOrder[j]]
    BY <1>3, <1>5 DEF Saved
  <2>1. CASE j = n + 1
    BY <2>1, <1>1, <1>2, <1>6
  <2>2. CASE j # n + 1
    <3>1. j \in 1 .. n /\ Base - 5 - j \in Slot /\ Base - 5 - j # Base - 6 - n
      BY <2>2, <1>1, <1>2 DEF Slot
    <3> QED BY <3>1, <1>1, <1>7 DEF Saved
  <2> QED BY <2>1, <2>2
<1>9. Context(Base - 5)'
  <2>1. \A k \in 0 .. 4 : mem'[Base - 5 + k] = mem[Base - 5 + k]
    BY <1>1, <1>2, <1>7 DEF Slot
  <2> QED BY <2>1, <1>1, <1>2, <1>3, <1>5 DEF Context
<1>10. Program'
  BY <1>1, <1>3, <1>9 DEF Inv, Program
<1>11. Unchanged'
  BY <1>1, <1>3, Apart DEF Inv, Shape, Context5, Unchanged
<1>12. Pushing'
  BY <1>1, <1>2, <1>3, <1>4, <1>5, <1>8, <1>11 DEF Pushing
<1>13. Dispatching'
  <2> SUFFICES ASSUME n + 1 = 15 PROVE n' = 15 /\ regs'["rsp"] = Base' - 20 /\ Saved(15)'
    BY <1>1, <1>3 DEF Dispatching
  <2>1. n' = 15
    BY <1>3
  <2>2. Saved(15)'
    BY <2>1, <1>8 DEF Saved
  <2> QED BY <2>1, <2>2, <1>1, <1>2, <1>4, <1>5
<1> QED
  BY <1>3, <1>4, <1>10, <1>12, <1>13 DEF Inv, Popping, Leaving

\* What the dispatcher does to the registers it may use is of no account:
\* all fifteen are on the stack.
LEMMA DispatchInv ==
  ASSUME Inv, NEW used \in SUBSET Scratch, Dispatch(used), UNCHANGED uvars
  PROVE  Inv'
<1>1. /\ pc = "dispatch" /\ regs["rsp"] = Base - 20 /\ Saved(15)
      /\ before["rsp"] \in Tops /\ Context(Base - 5)
  BY DEF Inv, Program, Dispatching, Dispatch
<1>2. Base \in 22 .. 63
  BY <1>1, TopsAssumption, Evened DEF Base
<1>3. before' = before /\ mem' = mem /\ n' = 0 /\ pc' = "pop" /\ loader' = loader
  BY DEF Dispatch, uvars
<1>4. Shape' /\ regs'["rsp"] = regs["rsp"]
  <2>1. DOMAIN regs = Regs /\ "rsp" \in Regs /\ "rsp" \notin used /\ "rsp" # "rdi"
    BY Apart DEF Inv, Shape, Context5, Scratch
  <2> QED BY <2>1, <1>3 DEF Inv, Shape, Dispatch
<1>5. Base' = Base /\ Saved(15)' /\ Context(Base - 5)'
  BY <1>1, <1>3 DEF Base, Saved, Context
<1>6. Program'
  BY <1>1, <1>3, <1>5 DEF Inv, Program
<1>7. Popping'
  BY <1>1, <1>2, <1>3, <1>4, <1>5 DEF Popping
<1> QED
  BY <1>3, <1>4, <1>6, <1>7 DEF Inv, Pushing, Dispatching, Leaving

\* One pop: the register gets the value the program had in it.
LEMMA PopInv ==
  ASSUME Inv, Pop, UNCHANGED uvars
  PROVE  Inv'
<1>1. /\ pc = "pop" /\ n \in 0 .. 14 /\ regs["rsp"] = Base - 20 + n /\ Saved(15)
      /\ \A j \in 1 .. n : regs[PopOrder[j]] = before[PopOrder[j]]
      /\ before["rsp"] \in Tops /\ Context(Base - 5)
  BY DEF Inv, Program, Popping, Pop
<1>2. Base \in 22 .. 63
  BY <1>1, TopsAssumption, Evened DEF Base
<1>3. /\ before' = before /\ mem' = mem /\ n' = n + 1 /\ loader' = loader
      /\ pc' = IF n + 1 = 15 THEN "iret" ELSE "pop"
      /\ regs' = [regs EXCEPT ![PopOrder[n + 1]] = mem[Base - 20 + n], !.rsp = @ + 1]
  <2>1. Len(PopOrder) = 15
    BY Orders
  <2> QED BY <1>1, <2>1 DEF Pop, uvars
<1>4. n + 1 \in 1 .. 15 /\ PopOrder[n + 1] \in Pushed /\ PopOrder[n + 1] # "rsp"
  <2>1. n + 1 \in 1 .. 15 /\ 16 - (n + 1) \in 1 .. 15
    BY <1>1
  <2>2. PopOrder[n + 1] \in Pushed
    BY <2>1, Orders
  <2> QED BY <2>1, <2>2, Apart DEF Context5
<1>5. Shape' /\ regs'["rsp"] = Base - 20 + (n + 1)
  <2>1. Shape'
    BY <1>3 DEF Inv, Shape
  <2>2. regs'["rsp"] = regs["rsp"] + 1
    BY <1>3, <1>4, Apart DEF Inv, Shape, Context5
  <2> QED BY <2>1, <2>2, <1>1, <1>2
<1>6. mem[Base - 20 + n] = before[PopOrder[n + 1]]
  <2>1. 15 - n \in 1 .. 15 /\ Base - 5 - (15 - n) = Base - 20 + n
    BY <1>1, <1>2
  <2>2. mem[Base - 20 + n] = before[PushOrder[15 - n]]
    BY <2>1, <1>1 DEF Saved
  <2>3. PopOrder[n + 1] = PushOrder[16 - (n + 1)] /\ 16 - (n + 1) = 15 - n
    BY <1>1, <1>4, Orders
  <2> QED BY <2>2, <2>3
<1>7. \A j \in 1 .. n + 1 : regs'[PopOrder[j]] = before[PopOrder[j]]
  <2> TAKE j \in 1 .. n + 1
  <2>1. j \in 1 .. 15 /\ 16 - j \in 1 .. 15
    BY <1>1
  <2>2. PopOrder[j] \in Regs /\ PopOrder[j] # "rsp"
    BY <2>1, Orders, Apart DEF Context5
  <2>3. CASE PopOrder[j] = PopOrder[n + 1]
    BY <2>2, <2>3, <1>3, <1>6 DEF Inv, Shape
  <2>4. CASE PopOrder[j] # PopOrder[n + 1]
    <3>1. j \in 1 .. n
      BY <2>4, <1>1
    <3>2. regs'[PopOrder[j]] = regs[PopOrder[j]]
      BY <2>2, <2>4, <1>3 DEF Inv, Shape
    <3> QED BY <3>1, <3>2, <1>1
  <2> QED BY <2>3, <2>4
<1>8. Base' = Base /\ Saved(15)' /\ Context(Base - 5)'
  BY <1>1, <1>3 DEF Base, Saved, Context
<1>9. Program'
  BY <1>1, <1>3, <1>8 DEF Inv, Program
<1>10. Popping'
  <2> SUFFICES ASSUME n + 1 # 15
               PROVE  /\ n' \in 0 .. 14 /\ regs'["rsp"] = Base' - 20 + n' /\ Saved(15)'
                      /\ \A j \in 1 .. n' : regs'[PopOrder[j]] = before'[PopOrder[j]]
    BY <1>3 DEF Popping
  <2>1. n' \in 0 .. 14 /\ regs'["rsp"] = Base' - 20 + n'
    <3>1. n \in 0 .. 14 /\ n' = n + 1 /\ Base' = Base
      BY <1>1, <1>3, <1>8
    <3> QED BY <3>1, <1>5
  <2>2. \A j \in 1 .. n' : regs'[PopOrder[j]] = before'[PopOrder[j]]
    BY <1>3, <1>7
  <2> QED BY <2>1, <2>2, <1>8
<1>11. Leaving'
  <2> SUFFICES ASSUME n + 1 = 15
               PROVE  /\ n' \in {0, 15} /\ regs'["rsp"] \in 0 .. 58
                      /\ Context(regs["rsp"])' /\ Unchanged'
    BY <1>3 DEF Leaving
  <2>1. regs'["rsp"] = Base - 5 /\ n' = 15
    <3>1. n' = n + 1
      BY <1>3
    <3> QED BY <3>1, <1>2, <1>5
  <2>2. Unchanged'
    <3>1. \A j \in 1 .. 15 : regs'[PopOrder[j]] = before[PopOrder[j]]
      BY <2>1, <1>3, <1>7
    <3> QED BY <3>1, <1>3, Orders DEF Unchanged
  <2>3. Context(regs["rsp"])'
    BY <2>1, <1>1, <1>3 DEF Context
  <2> QED BY <2>1, <2>2, <2>3, <1>2
<1> QED
  BY <1>3, <1>5, <1>9, <1>10, <1>11 DEF Inv, Pushing, Dispatching

\* The processor takes the context back: the program goes on as it was.
LEMMA IretqInv ==
  ASSUME Inv, Iretq, loader' = loader \/ loader' = "user"
  PROVE  Inv'
<1>1. regs["rsp"] \in 0 .. 58 /\ Context(regs["rsp"]) /\ Unchanged
  BY DEF Inv, Leaving, Iretq
<1>2. /\ before' = before /\ mem' = mem /\ n' = 0 /\ pc' = "program"
      /\ regs' = [regs EXCEPT !.rip = before["rip"], !.cs = before["cs"],
                   !.rflags = before["rflags"], !.rsp = before["rsp"], !.ss = before["ss"]]
  BY <1>1 DEF Iretq, Context
<1>3. Shape'
  BY <1>2 DEF Inv, Shape
<1>4. \A r \in General : regs'[r] = before[r]
  <2>1. \A r \in Pushed : regs'[r] = before[r]
    BY <1>1, <1>2, Apart DEF Inv, Shape, Context5, Unchanged
  <2>2. \A r \in Context5 : regs'[r] = before[r]
    BY <1>2, Apart DEF Inv, Shape, Context5
  <2> QED BY <2>1, <2>2, Apart
<1>5. Program'
  BY <1>2, <1>4 DEF Inv, Program
<1> QED
  BY <1>2, <1>3, <1>5 DEF Inv, Pushing, Dispatching, Popping, Leaving

\* The jump to a user program is the last step of a handler nobody entered.
LEMMA JumpInv ==
  ASSUME Inv, NEW stack \in Stacks, jump_to_user_mode(stack)
  PROVE  Inv'
<1>1. stack \in 5 .. 63
  BY StacksAssumption
<1>2. /\ mem' = [s \in Slot |-> IF s \in stack - 5 .. stack - 1
                                THEN Frame(stack)[s - stack + 6] ELSE mem[s]]
      /\ loader' = "jumping" /\ pc' = "iret" /\ n' = 0
      /\ regs' = [regs EXCEPT !.rax = "user data", !.rdi = result, !.rsi = stack,
                              !.rsp = stack - 5, !.rflags = "masked"]
      /\ before' = [regs EXCEPT !.rax = "user data", !.rdi = result, !.rsi = stack,
                                !.rsp = stack, !.rflags = "masked", !.rip = result,
                                !.cs = "user code", !.ss = "user data"]
  BY DEF jump_to_user_mode
<1>3. Shape'
  BY <1>2 DEF Inv, Shape
<1>4. /\ regs'["rsp"] = stack - 5 /\ before'["rsp"] = stack /\ before'["rip"] = result
      /\ before'["cs"] = "user code" /\ before'["rflags"] = "masked"
      /\ before'["ss"] = "user data"
  BY <1>2, Apart DEF Inv, Shape, Context5
<1>5. Unchanged'
  <2> SUFFICES ASSUME NEW r \in Pushed PROVE regs'[r] = before'[r]
    BY DEF Unchanged
  <2>1. r \in Regs /\ r # "rsp" /\ r # "rip" /\ r # "cs" /\ r # "ss" /\ r # "rflags"
    BY Apart DEF Context5
  <2> QED BY <2>1, <1>2 DEF Inv, Shape
<1>6. Context(regs["rsp"])'
  <2>1. \A k \in 0 .. 4 : mem'[stack - 5 + k] = Frame(stack)[k + 1]
    <3> TAKE k \in 0 .. 4
    <3>1. stack - 5 + k \in Slot /\ stack - 5 + k \in stack - 5 .. stack - 1
      BY <1>1 DEF Slot
    <3>2. (stack - 5 + k) - stack + 6 = k + 1
      BY <1>1
    <3> QED BY <1>2, <3>1, <3>2
  <2>2. /\ mem'[stack - 5] = Frame(stack)[1] /\ mem'[stack - 5 + 1] = Frame(stack)[2]
        /\ mem'[stack - 5 + 2] = Frame(stack)[3] /\ mem'[stack - 5 + 3] = Frame(stack)[4]
        /\ mem'[stack - 5 + 4] = Frame(stack)[5]
    BY <2>1, <1>1
  <2>3. /\ Frame(stack)[1] = result /\ Frame(stack)[2] = "user code"
        /\ Frame(stack)[3] = "masked" /\ Frame(stack)[4] = stack
        /\ Frame(stack)[5] = "user data"
    BY DEF Frame
  <2> QED BY <2>2, <2>3, <1>4 DEF Context
<1>7. Program'
  BY <1>1, <1>2, <1>4 DEF Program, Slot
<1>8. Leaving'
  BY <1>1, <1>2, <1>4, <1>5, <1>6 DEF Leaving
<1> QED
  BY <1>2, <1>3, <1>7, <1>8 DEF Inv, Pushing, Dispatching, Popping

\* load_elf writes to memory while no handler is active.
LEMMA LoaderInv ==
  ASSUME Inv, load_elf \/ LoadOverwritten \/ LoadSegment \/ LoadReturns
  PROVE  Inv'
<1>1. pc = "program" /\ UNCHANGED <<pc, n, regs, before>>
  BY DEF load_elf, LoadOverwritten, LoadSegment, LoadReturns, Kernel
<1>2. loader \notin {"jumping", "user"}
  BY DEF load_elf, LoadOverwritten, LoadSegment, LoadReturns
<1>3. mem' = [s \in Slot |-> mem'[s]]
  <2>1. CASE load_elf \/ LoadOverwritten \/ LoadReturns
    BY <2>1 DEF load_elf, LoadOverwritten, LoadReturns, Inv, Shape
  <2>2. CASE LoadSegment
    <3> DEFINE ph == image.phdrs[i + 1]
    <3>1. mem' = IF ph.type # PT_LOAD THEN mem
                 ELSE Zeroed(memcpy(mem, ph.vaddr, image.at + ph.offset, ph.filesz), ph)
      BY <2>2 DEF LoadSegment
    <3>2. \A m : m = [s \in Slot |-> m[s]]
                => Zeroed(m, ph) = [s \in Slot |-> Zeroed(m, ph)[s]]
      BY DEF Zeroed, memset
    <3>3. \A d, src, size : memcpy(mem, d, src, size)
                             = [s \in Slot |-> memcpy(mem, d, src, size)[s]]
      BY DEF memcpy
    <3> HIDE DEF ph
    <3> QED BY <3>1, <3>2, <3>3 DEF Inv, Shape
  <2> QED BY <2>1, <2>2
<1>4. Shape'
  BY <1>1, <1>3 DEF Inv, Shape
<1> QED
  BY <1>1, <1>2, <1>4 DEF Inv, Program, Pushing, Dispatching, Popping, Leaving
----------------------------------------------------------------------------
(***************************************************************************)
(* The theorems.                                                           *)
(***************************************************************************)
\* In every behaviour the stack holds what the wrapper has still to restore.
THEOREM Inductive == UserSpec => []Inv
<1>1. UserInit => Inv
  BY InitInv
<1>2. Inv /\ [UserNext]_<<vars, uvars>> => Inv'
  <2> SUFFICES ASSUME Inv, [UserNext]_<<vars, uvars>> PROVE Inv'
    OBVIOUS
  <2>1. CASE load_elf \/ LoadOverwritten \/ LoadSegment \/ LoadReturns
    BY <2>1, LoaderInv
  <2>2. CASE \E stack \in Stacks : jump_to_user_mode(stack)
    BY <2>2, JumpInv
  <2>3. CASE EnterUser
    BY <2>3, IretqInv DEF EnterUser
  <2>4. CASE loader \notin {"jumping", "user"} /\ Next /\ UNCHANGED uvars
    <3>1. CASE Push
      BY <3>1, <2>4, PushInv
    <3>2. CASE Pop
      BY <3>2, <2>4, PopInv
    <3>3. CASE Iretq
      BY <3>3, <2>4, IretqInv DEF uvars
    <3>4. CASE \E used \in SUBSET Scratch : Dispatch(used)
      BY <3>4, <2>4, DispatchInv
    <3>5. CASE \E top \in Tops : Runs(top)
      BY <3>5, <2>4, RunsInv
    <3>6. CASE \E v \in Vectors : Interrupt(v)
      BY <3>6, <2>4, InterruptInv
    <3>7. CASE \E v \in Vectors, h \in Handlers : set_idt_gate(v, h)
      BY <3>7, <2>4, SetGateInv
    <3> QED BY <2>4, <3>1, <3>2, <3>3, <3>4, <3>5, <3>6, <3>7 DEF Next
  <2>5. CASE UNCHANGED <<vars, uvars>>
    BY <2>5 DEF vars, uvars, Inv, Shape, Program, Pushing, Dispatching, Popping, Leaving,
                Context, Saved, Unchanged, Base
  <2> QED BY <2>1, <2>2, <2>3, <2>4, <2>5 DEF UserNext, Stays
<1> QED BY <1>1, <1>2, PTL DEF UserSpec

\* Whatever the dispatchers do with the registers they may use, wherever on
\* its stack the kernel is interrupted, and also when a user program is
\* entered: the general-purpose registers, and what iretq loads, are the ones
\* that were interrupted, or asked for.
THEOREM RegistersRestored == UserSpec => []Restored
<1>1. Inv => Restored
  BY DEF Inv, Program, Restored
<1> QED BY <1>1, Inductive, PTL

\* The stack is aligned at the call, for every value of the interrupted rsp.
THEOREM StackAligned == UserSpec => []CallAligned
<1>1. Inv => CallAligned
  <2> SUFFICES ASSUME Inv, pc = "dispatch" PROVE regs["rsp"] % 2 = 0
    BY DEF CallAligned
  <2>1. before["rsp"] \in 22 .. 63 /\ regs["rsp"] = Base - 20
    BY TopsAssumption DEF Inv, Program, Dispatching
  <2>2. Base \in 22 .. 63 /\ Base % 2 = 0
    BY <2>1, Evened DEF Base
  <2>3. \A b \in 22 .. 63 : b % 2 = 0 => (b - 20) % 2 = 0
    OBVIOUS
  <2> QED BY <2>1, <2>2, <2>3
<1> QED BY <1>1, Inductive, PTL

\* Every gate is one of the 256, in three parts that fit their fields.
LEMMA GateParts ==
  \A h \in Handlers : Gate(h).low \in 0 .. HALF - 1 /\ Gate(h).mid \in 0 .. HALF - 1
<1>1. \A x \in Int : \A d \in Nat \ {0} : x % d \in 0 .. d - 1 /\ x \div d \in Int
  OBVIOUS
<1>2. Handlers \subseteq Int
  BY HandlersAssumption, HalfAssumption
<1> QED BY <1>1, <1>2, HalfAssumption DEF Gate

\* The gates lie in the table, the parts of an address in their fields.
THEOREM GatesInductive == UserSpec => []Gates
<1>1. UserInit => Gates
  BY DEF UserInit, InitCpu, Gates
<1>2. Gates /\ [UserNext]_<<vars, uvars>> => Gates'
  <2> SUFFICES ASSUME Gates, [UserNext]_<<vars, uvars>> PROVE Gates'
    OBVIOUS
  <2>1. CASE UNCHANGED idt
    BY <2>1 DEF Gates
  <2>2. CASE \E v \in Vectors, h \in Handlers : set_idt_gate(v, h)
    <3>1. PICK v \in Vectors, h \in Handlers : set_idt_gate(v, h)
      BY <2>2
    <3>2. CASE ~IsVector(v)
      BY <3>1, <3>2, <2>1 DEF set_idt_gate
    <3>3. CASE IsVector(v)
      <4>1. idt' = [w \in DOMAIN idt \union {v} |-> IF w = v THEN Gate(h) ELSE idt[w]]
        BY <3>1, <3>3 DEF set_idt_gate
      <4>2. v \in 0 .. 255
        BY <3>3, VectorsAssumption DEF IsVector
      <4> QED BY <4>1, <4>2, GateParts DEF Gates
    <3> QED BY <3>2, <3>3
  <2> QED
    BY <2>1, <2>2 DEF UserNext, load_elf, LoadOverwritten, LoadSegment, LoadReturns, Kernel,
          jump_to_user_mode, EnterUser, Stays, Next, Push, Pop, Iretq, Dispatch, Runs,
          Interrupt, vars
<1> QED BY <1>1, <1>2, PTL DEF UserSpec

\* Types of the table and of the wrapper's state; only gates that the table
\* has are written, for every vector.
THEOREM TypeCorrect == UserSpec => []TypeOK
<1>1. Inv /\ Gates => TypeOK
  <2> SUFFICES ASSUME Inv, Gates PROVE n \in 0 .. 15 /\ regs["rsp"] \in Slot
    BY DEF TypeOK, Inv, Program, Gates
  <2>1. pc \in {"push", "dispatch", "pop"} => Base \in 22 .. 63
    BY TopsAssumption, Evened DEF Inv, Program, Base
  <2>2. CASE pc = "program"
    BY <2>2, Apart DEF Inv, Program, Context5
  <2>3. CASE pc = "iret"
    BY <2>3 DEF Inv, Leaving, Slot
  <2>4. CASE pc \in {"push", "dispatch", "pop"}
    BY <2>1, <2>4 DEF Inv, Pushing, Dispatching, Popping, Slot
  <2> QED BY <2>2, <2>3, <2>4 DEF Inv, Program
<1> QED BY <1>1, Inductive, GatesInductive, PTL

\* Three parts of sixteen bits, put together again.
LEMMA Assembled ==
  ASSUME NEW h \in Int, NEW H \in Nat \ {0}
  PROVE  (h % H) + H * (((h \div H) % H) + H * (h \div (H * H))) = h
<1>1. \A x \in Int : x = H * (x \div H) + (x % H) /\ x \div H \in Int /\ x % H \in 0 .. H - 1
  OBVIOUS
<1> DEFINE q == h \div H
           p == q \div H
<1>2. q \in Int /\ p \in Int /\ q % H \in 0 .. H - 1 /\ h % H \in 0 .. H - 1
  BY <1>1
<1>3. h = H * q + (h % H) /\ q = H * p + (q % H)
  BY <1>1, <1>2
<1> HIDE DEF q, p
<1>4. h \div (H * H) = p
  <2> DEFINE r == H * (q % H) + (h % H)
  <2>1. \A a, x, y \in Int : H * (H * a + x) + y = (H * H) * a + (H * x + y)
    OBVIOUS
  <2>2. H * (H * p + (q % H)) + (h % H) = (H * H) * p + r
    BY <1>2, <2>1
  <2>3. h = (H * H) * p + r
    BY <1>3, <2>2
  <2>4. \A x, y \in 0 .. H - 1 : H * x + y \in Int /\ 0 <= H * x + y /\ H * x + y < H * H
    OBVIOUS
  <2>5. r \in Int /\ 0 <= r /\ r < H * H
    BY <1>2, <2>4
  <2>6. H * H \in Nat \ {0}
    OBVIOUS
  <2>7. \A d \in Nat \ {0} : \A a, s \in Int : 0 <= s /\ s < d => (d * a + s) \div d = a
    OBVIOUS
  <2> HIDE DEF r
  <2>8. ((H * H) * p + r) \div (H * H) = p
    BY <1>2, <2>5, <2>6, <2>7
  <2> QED BY <2>3, <2>8
<1>5. (q % H) + H * p = q
  <2> DEFINE a == H * p
  <2>1. a \in Int
    BY <1>2
  <2> HIDE DEF a
  <2>2. (q % H) + a = q
    BY <1>2, <1>3, <2>1 DEF a
  <2> QED BY <2>2 DEF a
<1>6. (h % H) + H * q = h
  BY <1>2, <1>3
<1> QED BY <1>4, <1>5, <1>6 DEF q

\* The processor finds the handler that set_idt_gate was given, whatever the
\* width of the parts, and the other gates are as they were.
THEOREM HandlersReached == UserSpec => GatesLead
<1>1. Gates /\ [UserNext]_<<vars, uvars>> =>
        [\A v \in Vectors, h \in Handlers :
           set_idt_gate(v, h) =>
             /\ v \in DOMAIN idt' => Target(idt'[v]) = h
             /\ \A w \in DOMAIN idt \ {v} : idt'[w] = idt[w]]_vars
  <2> SUFFICES ASSUME Gates, NEW v \in Vectors, NEW h \in Handlers, set_idt_gate(v, h)
               PROVE  /\ v \in DOMAIN idt' => Target(idt'[v]) = h
                      /\ \A w \in DOMAIN idt \ {v} : idt'[w] = idt[w]
    OBVIOUS
  <2>1. CASE ~IsVector(v)
    <3>1. v \notin 0 .. 255 /\ idt' = idt
      BY <2>1 DEF set_idt_gate, IsVector
    <3> QED BY <3>1 DEF Gates
  <2>2. CASE IsVector(v)
    <3>1. idt' = [w \in DOMAIN idt \union {v} |-> IF w = v THEN Gate(h) ELSE idt[w]]
      BY <2>2 DEF set_idt_gate
    <3>2. h \in Int /\ HALF \in Nat \ {0}
      BY HandlersAssumption, HalfAssumption
    <3>3. Target(Gate(h)) = (h % HALF)
            + HALF * (((h \div HALF) % HALF) + HALF * (h \div (HALF * HALF)))
      BY DEF Target, Gate
    <3>4. Target(Gate(h)) = h
      BY <3>2, <3>3, Assembled
    <3> QED BY <3>1, <3>4
  <2> QED BY <2>1, <2>2
<1> QED BY <1>1, GatesInductive, PTL DEF UserSpec, GatesLead
----------------------------------------------------------------------------
(***************************************************************************)
(* load_elf.                                                               *)
(***************************************************************************)
\* What the first k program headers of a file say of an address.
Upto(f, k, a) == {j \in Loadable(f) : j <= k /\ a \in Extent(f.phdrs[j])}
Latest(segs) == CHOOSE k \in segs : \A j \in segs : j <= k
SaidUpto(f, k, a) ==
  IF Upto(f, k, a) = {} THEN Junk
  ELSE IF a - f.phdrs[Latest(Upto(f, k, a))].vaddr < f.phdrs[Latest(Upto(f, k, a))].filesz
       THEN f.cells[f.phdrs[Latest(Upto(f, k, a))].offset
                    + (a - f.phdrs[Latest(Upto(f, k, a))].vaddr) + 1]
       ELSE Zero

StackSlots == KernelStack \union UserStack
Rest(f) == Slot \ (FileSlots(f) \union StackSlots)

\* How far the loader has come.
Control ==
  /\ image \in Images /\ i \in 0 .. image.header.phnum
  /\ loader = "idle" => i = 0
  /\ loader \in {"loaded", "jumping", "user"} =>
       i = image.header.phnum /\ result = image.header.entry
\* The file stays as it was, the rest of memory is what the headers so far
\* say.
Contents ==
  Separate(image) =>
    /\ \A a \in FileSlots(image) : mem[a] = image.cells[a - image.at + 1]
    /\ \A a \in Rest(image) : mem[a] = SaidUpto(image, i, a)
----------------------------------------------------------------------------

\* An interval inside another.
LEMMA Inside ==
  \A a, b, c, d \in Int : a <= c /\ d <= b => c .. d \subseteq a .. b
OBVIOUS

\* What the assumptions say of a file.
LEMMA ImageFacts ==
  ASSUME NEW f \in Images
  PROVE  /\ f.at \in Nat /\ Len(f.cells) \in Nat /\ FileSlots(f) \subseteq Slot
         /\ f.header.phnum \in Nat
         /\ \A k \in Loadable(f) :
              /\ k \in 1 .. f.header.phnum
              /\ f.phdrs[k].vaddr \in Nat /\ f.phdrs[k].offset \in Nat
              /\ f.phdrs[k].filesz \in Nat /\ f.phdrs[k].memsz \in Nat
<1>1. /\ f.at \in Slot /\ f.cells \in Seq(STRING) /\ InMemory(f.at, Len(f.cells))
      /\ f.header \in Elf64_Ehdr
      /\ DOMAIN f.phdrs = 1 .. f.header.phnum
      /\ \A k \in DOMAIN f.phdrs : f.phdrs[k] \in Elf64_Phdr
  BY ImagesAssumption
<1>2. Len(f.cells) \in Nat /\ f.at \in Nat
  <2>1. Len(f.cells) \in Nat
    BY <1>1, LenProperties
  <2>2. \A x \in Slot : x \in Nat
    BY DEF Slot
  <2> QED BY <1>1, <2>1, <2>2
<1>3. FileSlots(f) \subseteq Slot
  <2>1. f.at + Len(f.cells) <= 64
    BY <1>1 DEF InMemory
  <2>2. \A x, y \in Nat : x + y <= 64 => x .. x + y - 1 \subseteq Slot
    BY DEF Slot
  <2> QED BY <1>2, <2>1, <2>2 DEF FileSlots
<1>4. f.header.phnum \in Nat
  BY <1>1 DEF Elf64_Ehdr
<1>5. ASSUME NEW k \in Loadable(f)
      PROVE  /\ k \in 1 .. f.header.phnum
             /\ f.phdrs[k].vaddr \in Nat /\ f.phdrs[k].offset \in Nat
             /\ f.phdrs[k].filesz \in Nat /\ f.phdrs[k].memsz \in Nat
  <2>1. k \in DOMAIN f.phdrs
    BY DEF Loadable
  <2>2. f.phdrs[k] \in Elf64_Phdr
    BY <1>1, <2>1
  <2> QED BY <1>1, <2>1, <2>2 DEF Elf64_Phdr
<1> QED BY <1>2, <1>3, <1>4, <1>5

\* The stacks lie in memory.
LEMMA StacksInMemory == StackSlots \subseteq Slot
<1>1. \A t \in 22 .. 63 : t - 21 .. t - 1 \subseteq 0 .. 63
  OBVIOUS
<1>2. \A t \in 5 .. 63 : t - 5 .. t - 1 \subseteq 0 .. 63
  OBVIOUS
<1> QED BY <1>1, <1>2, TopsAssumption, StacksAssumption
        DEF StackSlots, KernelStack, UserStack, Slot

\* One more program header says what its segment contains, and nothing of
\* the addresses outside.
LEMMA SaidMore ==
  ASSUME NEW f \in Images, NEW k \in Nat, NEW a,
         k + 1 \in Loadable(f) => a \notin Extent(f.phdrs[k + 1])
  PROVE  SaidUpto(f, k + 1, a) = SaidUpto(f, k, a)
<1>1. Upto(f, k + 1, a) = Upto(f, k, a)
  <2>1. \A j \in Loadable(f) : j \in Nat
    BY ImageFacts
  <2>2. \A j \in Nat : j <= k + 1 <=> (j <= k \/ j = k + 1)
    OBVIOUS
  <2> QED BY <2>1, <2>2 DEF Upto
<1> QED BY <1>1 DEF SaidUpto

\* The segment just loaded is the last that has its addresses.
LEMMA SaidLast ==
  ASSUME NEW f \in Images, NEW k \in Nat, NEW a,
         k + 1 \in Loadable(f), a \in Extent(f.phdrs[k + 1])
  PROVE  SaidUpto(f, k + 1, a)
           = IF a - f.phdrs[k + 1].vaddr < f.phdrs[k + 1].filesz
             THEN f.cells[f.phdrs[k + 1].offset + (a - f.phdrs[k + 1].vaddr) + 1] ELSE Zero
<1>1. k + 1 \in Upto(f, k + 1, a) /\ \A j \in Upto(f, k + 1, a) : j \in Nat /\ j <= k + 1
  BY ImageFacts DEF Upto
<1>2. Latest(Upto(f, k + 1, a)) = k + 1
  <2> DEFINE segs == Upto(f, k + 1, a)
  <2>1. k + 1 \in segs /\ \A j \in segs : j <= k + 1
    BY <1>1
  <2>2. Latest(segs) \in segs /\ \A j \in segs : j <= Latest(segs)
    BY <2>1 DEF Latest
  <2>3. Latest(segs) \in Nat /\ Latest(segs) <= k + 1 /\ k + 1 <= Latest(segs)
    BY <1>1, <2>1, <2>2
  <2> QED BY <2>3
<1> QED BY <1>1, <1>2 DEF SaidUpto
----------------------------------------------------------------------------
(***************************************************************************)
(* What the steps do to memory.                                            *)
(***************************************************************************)
\* Handlers, and the jump, write only to the stacks.
Elsewhere == \A a \in Slot \ StackSlots : mem'[a] = mem[a]

\* The processor's frame goes on the stack.
LEMMA InterruptElsewhere ==
  ASSUME Inv, NEW v \in Vectors, Interrupt(v), loader \notin {"jumping", "user"}
  PROVE  Elsewhere
<1>1. regs["rsp"] \in Tops
  BY Apart DEF Inv, Program, Interrupt, Context5
<1> DEFINE base == regs["rsp"] - (regs["rsp"] % 2)
<1>2. base - 5 .. base - 1 \subseteq regs["rsp"] - 21 .. regs["rsp"] - 1
  <2>1. \A t \in 22 .. 63 : (t - (t % 2)) - 5 .. (t - (t % 2)) - 1 \subseteq t - 21 .. t - 1
    OBVIOUS
  <2> QED BY <1>1, <2>1, TopsAssumption
<1>3. base - 5 .. base - 1 \subseteq StackSlots
  BY <1>1, <1>2 DEF StackSlots, KernelStack
<1>4. \A a \in Slot : a \notin base - 5 .. base - 1 => mem'[a] = mem[a]
  BY DEF Interrupt
<1> QED BY <1>3, <1>4 DEF Elsewhere

\* So do the saved registers.
LEMMA PushElsewhere ==
  ASSUME Inv, Push
  PROVE  Elsewhere
<1>1. before["rsp"] \in Tops /\ n \in 0 .. 14 /\ regs["rsp"] = Base - 5 - n
  BY DEF Inv, Program, Pushing, Push
<1>2. regs["rsp"] - 1 \in before["rsp"] - 21 .. before["rsp"] - 1
  <2>1. \A t \in 22 .. 63 : \A k \in 0 .. 14 : ((t - (t % 2)) - 5 - k) - 1 \in t - 21 .. t - 1
    OBVIOUS
  <2> QED BY <1>1, <2>1, TopsAssumption DEF Base
<1>3. regs["rsp"] - 1 \in StackSlots
  BY <1>1, <1>2 DEF StackSlots, KernelStack
<1>4. \A a \in Slot : a # regs["rsp"] - 1 => mem'[a] = mem[a]
  BY DEF Push, Inv, Shape
<1> QED BY <1>3, <1>4 DEF Elsewhere

\* No step of a handler changes memory off the stacks.
LEMMA NextElsewhere ==
  ASSUME Inv, Next, loader \notin {"jumping", "user"}
  PROVE  Elsewhere
<1>1. CASE Push
  BY <1>1, PushElsewhere
<1>2. CASE \E v \in Vectors : Interrupt(v)
  BY <1>2, InterruptElsewhere
<1>3. CASE UNCHANGED mem
  BY <1>3 DEF Elsewhere
<1> QED BY <1>1, <1>2, <1>3 DEF Next, Pop, Iretq, Dispatch, Runs, set_idt_gate

\* Nor does the frame of jump_to_user_mode.
LEMMA JumpElsewhere ==
  ASSUME NEW stack \in Stacks, jump_to_user_mode(stack)
  PROVE  Elsewhere
<1>1. stack - 5 .. stack - 1 \subseteq StackSlots
  BY DEF StackSlots, UserStack
<1>2. \A a \in Slot : a \notin stack - 5 .. stack - 1 => mem'[a] = mem[a]
  BY DEF jump_to_user_mode
<1> QED BY <1>1, <1>2 DEF Elsewhere

\* A copy from a file that is apart from where it goes to, and the zeroes
\* behind it.
LEMMA Copied ==
  ASSUME NEW f \in Images, NEW k \in Loadable(f), Separate(f), NEW a \in Slot
  PROVE  Zeroed(memcpy(mem, f.phdrs[k].vaddr, f.at + f.phdrs[k].offset, f.phdrs[k].filesz),
                f.phdrs[k])[a]
           = IF a \notin Extent(f.phdrs[k]) THEN mem[a]
             ELSE IF a - f.phdrs[k].vaddr < f.phdrs[k].filesz
                  THEN mem[f.at + f.phdrs[k].offset + (a - f.phdrs[k].vaddr)] ELSE Zero
<1> DEFINE ph == f.phdrs[k]
           dest == ph.vaddr
           src == f.at + ph.offset
           size == ph.filesz
           full == ph.memsz
           copy == memcpy(mem, dest, src, size)
<1>1. dest \in Nat /\ src \in Nat /\ size \in Nat /\ full \in Nat /\ a \in Nat
  BY ImageFacts DEF Slot
<1>2. Extent(ph) = dest .. dest + (IF full > size THEN full ELSE size) - 1
  BY DEF Extent
<1>3. \A x \in dest .. dest + size - 1 : x \notin src .. src + size - 1
  <2>1. dest .. dest + size - 1 \subseteq Extent(ph)
    <3> HIDE DEF dest, size, full
    <3>1. size <= (IF full > size THEN full ELSE size)
          /\ (IF full > size THEN full ELSE size) \in Int
      BY <1>1
    <3>2. dest + size - 1 <= dest + (IF full > size THEN full ELSE size) - 1
      BY <1>1, <3>1
    <3> QED BY <1>1, <1>2, <3>1, <3>2, Inside
  <2>2. src .. src + size - 1 \subseteq FileSlots(f)
    <3>1. ph.offset + size <= Len(f.cells) /\ f.at \in Nat /\ ph.offset \in Nat
          /\ Len(f.cells) \in Nat
      BY ImageFacts DEF Separate
    <3>2. f.at <= src /\ src + size - 1 <= f.at + Len(f.cells) - 1
      <4>1. \A x, o, z, l \in Nat :
              o + z <= l => x <= x + o /\ (x + o) + z - 1 <= x + l - 1
        OBVIOUS
      <4> QED BY <1>1, <3>1, <4>1
    <3> HIDE DEF src, size
    <3> QED BY <1>1, <3>1, <3>2, Inside DEF FileSlots
  <2>3. Extent(ph) \intersect FileSlots(f) = {}
    BY DEF Separate
  <2> QED BY <2>1, <2>2, <2>3
<1>4. copy[a] = IF a \notin dest .. dest + size - 1 THEN mem[a]
                ELSE IF dest > src THEN mem[src + ((a - dest) % (dest - src))]
                ELSE mem[src + (a - dest)]
  BY DEF memcpy
<1>5. Zeroed(copy, ph)[a]
        = IF full > size /\ a \in dest + size .. dest + size + (full - size) - 1
          THEN Zero ELSE copy[a]
  BY <1>4 DEF Zeroed, memset, memcpy
<1> HIDE DEF dest, src, size, full, copy
<1>6. a \in dest .. dest + size - 1 => copy[a] = mem[src + (a - dest)]
  <2> SUFFICES ASSUME a \in dest .. dest + size - 1, dest > src
               PROVE  (a - dest) % (dest - src) = a - dest
    BY <1>4
  <2>1. dest >= src + size
    BY <1>1, <1>3
  <2>2. a - dest \in Nat /\ dest - src \in Nat /\ a - dest < dest - src
    BY <1>1, <2>1
  <2>3. \A x, d \in Nat : x < d => x % d = x
    OBVIOUS
  <2> QED BY <2>2, <2>3
<1>7. CASE a \in dest .. dest + size - 1
  <2>1. a \in Extent(ph) /\ a - dest < size /\ ~(a \in dest + size .. dest + size + (full - size) - 1)
    BY <1>1, <1>2, <1>7
  <2> QED BY <1>5, <1>6, <1>7, <2>1 DEF dest, src, size, copy
<1>8. CASE a \notin dest .. dest + size - 1
  <2>1. copy[a] = mem[a]
    BY <1>4, <1>8
  <2>2. a \in Extent(ph) <=> full > size /\ a \in dest + size .. dest + size + (full - size) - 1
    BY <1>1, <1>2, <1>8
  <2>3. a \in Extent(ph) => ~(a - dest < size)
    BY <1>1, <1>2, <1>8
  <2> QED BY <1>5, <2>1, <2>2, <2>3 DEF dest, src, size, copy
<1> QED BY <1>7, <1>8
----------------------------------------------------------------------------
(***************************************************************************)
(* The invariant of the loader.                                            *)
(***************************************************************************)

\* A step that writes only to the stacks changes neither the file nor what is
\* loaded of it.
LEMMA ContentsElsewhere ==
  ASSUME Control, Contents, Elsewhere, UNCHANGED <<image, i>>
  PROVE  Contents'
<1> SUFFICES ASSUME Separate(image)
             PROVE  /\ \A a \in FileSlots(image) : mem'[a] = image.cells[a - image.at + 1]
                    /\ \A a \in Rest(image) : mem'[a] = SaidUpto(image, i, a)
  BY DEF Contents
<1>1. FileSlots(image) \subseteq Slot \ StackSlots /\ Rest(image) \subseteq Slot \ StackSlots
  BY ImageFacts DEF Control, Separate, Rest, StackSlots
<1>2. /\ \A a \in FileSlots(image) : mem[a] = image.cells[a - image.at + 1]
      /\ \A a \in Rest(image) : mem[a] = SaidUpto(image, i, a)
  BY DEF Contents
<1> QED BY <1>1, <1>2 DEF Elsewhere

\* A segment loaded is what the file says, and the rest as it was.
LEMMA SegmentContents ==
  ASSUME Control, Contents, LoadSegment
  PROVE  Contents'
<1> DEFINE k == i + 1
           ph == image.phdrs[k]
<1>1. image' = image /\ i' = k /\ i \in Nat /\ image \in Images /\ k \in 1 .. image.header.phnum
  <2>1. image.header.phnum \in Nat
    BY ImageFacts DEF Control
  <2> QED BY <2>1 DEF LoadSegment, Kernel, Control, LoadedAll
<1>2. mem' = IF ph.type # PT_LOAD THEN mem
             ELSE Zeroed(memcpy(mem, ph.vaddr, image.at + ph.offset, ph.filesz), ph)
  BY DEF LoadSegment
<1>3. k \in Loadable(image) <=> ph.type = PT_LOAD
  <2>1. DOMAIN image.phdrs = 1 .. image.header.phnum
    BY <1>1, ImagesAssumption
  <2> QED BY <1>1, <2>1 DEF Loadable
<1> SUFFICES ASSUME Separate(image)
             PROVE  /\ \A a \in FileSlots(image) : mem'[a] = image.cells[a - image.at + 1]
                    /\ \A a \in Rest(image) : mem'[a] = SaidUpto(image, i + 1, a)
  BY <1>1 DEF Contents
<1>4. /\ \A a \in FileSlots(image) : mem[a] = image.cells[a - image.at + 1]
      /\ \A a \in Rest(image) : mem[a] = SaidUpto(image, i, a)
  BY DEF Contents
<1>5. CASE ph.type # PT_LOAD
  <2>1. \A a : SaidUpto(image, i + 1, a) = SaidUpto(image, i, a)
    BY <1>1, <1>3, <1>5, SaidMore
  <2> QED BY <1>2, <1>4, <1>5, <2>1
<1>6. CASE ph.type = PT_LOAD
  <2>1. k \in Loadable(image)
    BY <1>3, <1>6
  <2>2. \A a \in Slot : mem'[a] = IF a \notin Extent(ph) THEN mem[a]
                                  ELSE IF a - ph.vaddr < ph.filesz
                                  THEN mem[image.at + ph.offset + (a - ph.vaddr)] ELSE Zero
    BY <1>1, <1>2, <1>6, <2>1, Copied
  <2>3. Extent(ph) \intersect FileSlots(image) = {} /\ FileSlots(image) \subseteq Slot
    BY <1>1, <2>1, ImageFacts DEF Separate
  <2>4. \A a \in FileSlots(image) : mem'[a] = image.cells[a - image.at + 1]
    BY <1>4, <2>2, <2>3
  <2>5. ASSUME NEW a \in Rest(image)
        PROVE  mem'[a] = SaidUpto(image, i + 1, a)
    <3>1. a \in Slot
      BY DEF Rest
    <3>2. CASE a \notin Extent(ph)
      BY <1>1, <1>4, <2>2, <3>1, <3>2, SaidMore
    <3>3. CASE a \in Extent(ph) /\ ~(a - ph.vaddr < ph.filesz)
      BY <1>1, <2>1, <2>2, <3>1, <3>3, SaidLast
    <3>4. CASE a \in Extent(ph) /\ a - ph.vaddr < ph.filesz
      <4> DEFINE s == image.at + ph.offset + (a - ph.vaddr)
      <4>1. /\ image.at \in Nat /\ ph.offset \in Nat /\ ph.vaddr \in Nat /\ ph.filesz \in Nat
            /\ ph.memsz \in Nat /\ Len(image.cells) \in Nat
            /\ ph.offset + ph.filesz <= Len(image.cells)
        BY <1>1, <2>1, ImageFacts DEF Separate
      <4>2. a \in Nat /\ a >= ph.vaddr
        BY <3>4, <4>1 DEF Extent
      <4> HIDE DEF ph
      <4>3. s \in FileSlots(image) /\ s - image.at + 1 = ph.offset + (a - ph.vaddr) + 1
        <5>1. s \in Int /\ image.at <= s /\ s <= image.at + Len(image.cells) - 1
          <6>1. \A x, o, d, z, l \in Nat :
                  o + z <= l /\ d < z => x + o + d \in Int /\ x <= x + o + d /\ x + o + d <= x + l - 1
            OBVIOUS
          <6>2. a - ph.vaddr \in Nat
            BY <4>1, <4>2
          <6> QED BY <3>4, <4>1, <6>1, <6>2
        <5>2. s - image.at + 1 = ph.offset + (a - ph.vaddr) + 1
          BY <4>1, <4>2
        <5> HIDE DEF s
        <5> QED BY <4>1, <5>1, <5>2 DEF FileSlots
      <4>4. mem'[a] = mem[s]
        BY <2>2, <3>1, <3>4
      <4>5. mem[s] = image.cells[ph.offset + (a - ph.vaddr) + 1]
        BY <1>4, <4>3
      <4>6. SaidUpto(image, i + 1, a) = image.cells[ph.offset + (a - ph.vaddr) + 1]
        BY <1>1, <2>1, <3>4, SaidLast DEF ph
      <4> QED BY <4>4, <4>5, <4>6
    <3> QED BY <3>2, <3>3, <3>4
  <2> QED BY <2>4, <2>5
<1> QED BY <1>5, <1>6

\* Every step keeps what the loader knows.
LEMMA ControlStep ==
  ASSUME Control, [UserNext]_<<vars, uvars>>
  PROVE  Control'
<1>1. CASE load_elf \/ LoadOverwritten
  BY <1>1 DEF load_elf, LoadOverwritten, Kernel, Control
<1>2. CASE LoadSegment
  <2>1. image.header.phnum \in Nat
    BY ImageFacts DEF Control
  <2> QED BY <1>2, <2>1 DEF LoadSegment, LoadedAll, Kernel, Control
<1>3. CASE LoadReturns
  <2>1. image.header.phnum \in Nat
    BY ImageFacts DEF Control
  <2> QED BY <1>3, <2>1 DEF LoadReturns, LoadedAll, Kernel, Control
<1>4. CASE (\E stack \in Stacks : jump_to_user_mode(stack)) \/ EnterUser
  BY <1>4 DEF jump_to_user_mode, EnterUser, Control
<1>5. CASE UNCHANGED uvars
  BY <1>5 DEF uvars, Control
<1> QED BY <1>1, <1>2, <1>3, <1>4, <1>5 DEF UserNext, Stays

\* Every step keeps what memory holds.
LEMMA ContentsStep ==
  ASSUME Inv, Control, Contents, [UserNext]_<<vars, uvars>>
  PROVE  Contents'
<1>1. CASE LoadSegment
  BY <1>1, SegmentContents
<1>2. CASE Elsewhere /\ UNCHANGED <<image, i>>
  BY <1>2, ContentsElsewhere
<1>3. CASE load_elf \/ LoadOverwritten \/ LoadReturns
  BY <1>2, <1>3 DEF load_elf, LoadOverwritten, LoadReturns, Kernel, Elsewhere
<1>4. CASE \E stack \in Stacks : jump_to_user_mode(stack)
  BY <1>2, <1>4, JumpElsewhere DEF jump_to_user_mode
<1>5. CASE EnterUser
  BY <1>2, <1>5 DEF EnterUser, Iretq, Elsewhere
<1>6. CASE loader \notin {"jumping", "user"} /\ Next /\ UNCHANGED uvars
  BY <1>2, <1>6, NextElsewhere DEF uvars
<1>7. CASE UNCHANGED <<vars, uvars>>
  BY <1>2, <1>7 DEF vars, uvars, Elsewhere
<1> QED BY <1>1, <1>3, <1>4, <1>5, <1>6, <1>7 DEF UserNext, Stays

\* Before the first segment memory holds the file and nothing else.
LEMMA LoaderInit ==
  ASSUME UserInit
  PROVE  Control /\ Contents
<1>1. image \in Images /\ i = 0 /\ loader = "idle"
  BY DEF UserInit
<1>2. image.header.phnum \in Nat /\ FileSlots(image) \subseteq Slot
      /\ image.at \in Nat /\ Len(image.cells) \in Nat
      /\ \A k \in Loadable(image) : k \in Nat /\ k > 0
  BY <1>1, ImageFacts
<1>3. Control
  BY <1>1, <1>2 DEF Control
<1>4. \A a \in Slot : a \in FileSlots(image) <=> a - image.at + 1 \in DOMAIN image.cells
  <2>1. DOMAIN image.cells = 1 .. Len(image.cells)
    BY <1>1, ImagesAssumption, LenProperties
  <2> QED BY <1>2, <2>1 DEF FileSlots, Slot
<1>5. \A a \in FileSlots(image) : mem[a] = image.cells[a - image.at + 1]
  BY <1>2, <1>4 DEF UserInit
<1>6. \A a \in Rest(image) : mem[a] = SaidUpto(image, 0, a)
  <2>1. \A a : Upto(image, 0, a) = {}
    BY <1>2 DEF Upto
  <2>2. \A a \in Rest(image) : mem[a] = Junk
    BY <1>4 DEF UserInit, Rest
  <2> QED BY <2>1, <2>2 DEF SaidUpto
<1> QED BY <1>1, <1>3, <1>5, <1>6 DEF Contents

\* The whole of a program is in memory when load_elf returns its entry, and
\* still when iretq starts it: bytes of the file where its segments say,
\* zeroes behind them, a later segment over an earlier one; and nothing else
\* has changed but the stacks.
THEOREM ProgramLoaded == UserSpec => []ImageLoaded
<1>1. UserInit => Control /\ Contents
  BY LoaderInit
<1>2. Inv /\ Control /\ Contents /\ [UserNext]_<<vars, uvars>> => (Control /\ Contents)'
  BY ControlStep, ContentsStep
<1>3. Control /\ Contents => ImageLoaded
  <2> SUFFICES ASSUME Control, Contents, loader \in {"loaded", "jumping", "user"},
                      Separate(image)
               PROVE  /\ result = image.header.entry
                      /\ \A a \in Slot \ (FileSlots(image) \union KernelStack \union UserStack) :
                           mem[a] = Said(image, a)
    BY DEF ImageLoaded
  <2>1. result = image.header.entry /\ i = image.header.phnum /\ image \in Images
    BY DEF Control
  <2>2. ASSUME NEW a \in Slot \ (FileSlots(image) \union KernelStack \union UserStack)
        PROVE  mem[a] = Said(image, a)
    <3>1. mem[a] = SaidUpto(image, i, a)
      BY DEF Contents, Rest, StackSlots
    <3>2. Upto(image, i, a) = {k \in Loadable(image) : a \in Extent(image.phdrs[k])}
      BY <2>1, ImageFacts DEF Upto
    <3>3. Said(image, a) = SaidUpto(image, i, a)
      BY <3>2 DEF Said, SaidUpto, Latest
    <3> QED BY <3>1, <3>3
  <2> QED BY <2>1, <2>2
<1> QED BY <1>1, <1>2, <1>3, Inductive, PTL DEF UserSpec
=============================================================================
