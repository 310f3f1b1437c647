---------------------------- MODULE KernelEntry ----------------------------
(***************************************************************************)
(* Entering and leaving the kernel (source/hw86.s): a user program runs on *)
(* its own stack, system calls and interrupt handlers switch to the        *)
(* kernel's and back, and nest as the interrupt controllers let them.      *)
(*                                                                         *)
(* A slot of a stack stands for all that is pushed in one go.  What runs   *)
(* with interrupts disabled is one step.  In leave_kernel they are not yet *)
(* when its return address is already in a global, .retadd, that other     *)
(* handlers use too.  The controllers are external.                        *)
(***************************************************************************)
EXTENDS Integers, Sequences, SequencesExt

CONSTANTS
  DEPTH             (* Bound: slots of a stack.                            *)

ASSUME DepthAssumption == DEPTH \in Nat /\ DEPTH >= 5

VARIABLES
  cpu,           (* pc, ss, sp (number of slots in use); interrupts are    *)
                 (* enabled between steps                                  *)
  stack,         (* stack[ss]: the slots of a stack, FREE where it ends    *)
  kstack,        (* sp of the kernel stack when the user program started   *)
  retadd,        (* leave_kernel.retadd: the handler it returns to         *)
  pics,          (* the interrupts in service of master and slave          *)
  suspended      (* history: what waits to be resumed, innermost last      *)

evars == <<cpu, stack, kstack, retadd, pics, suspended>>

Handlers == {"timer", "mouse", "net"}
FREE     == <<"free">>
Slots    == 1 .. DEPTH

(* A place in the code: whose, which step, and how much it has pushed.     *)
Pc(who, at, locals) == [who |-> who, at |-> at, locals |-> locals]
Body(who) == Pc(who, "body", 0)
CLI  == Body("cli")
USER == Body("user")

Pushed(s, ss, sp, frames) ==
  [s EXCEPT ![ss] = [i \in Slots |->
     IF i \in sp + 1 .. sp + Len(frames) THEN frames[i - sp] ELSE @[i]]]
Popped(s, ss, sp) == [s EXCEPT ![ss] = [i \in Slots |-> IF i <= sp THEN @[i] ELSE FREE]]

Held(c) == [i \in 1 .. c.sp |-> stack[c.ss][i]]

EntryInit ==
  /\ cpu = [pc |-> CLI, ss |-> "kernel", sp |-> 0]
  /\ stack = [ss \in {"kernel", "user"} |-> [i \in Slots |-> FREE]]
  /\ kstack = 0 /\ retadd = "none"
  /\ pics = [master |-> {}, slave |-> {}]
  /\ suspended = <<>>

-----------------------------------------------------------------------------
(* Whatever runs uses its stack.                                           *)
UseStack ==
  /\ cpu.pc.at = "body"
  /\ \/ /\ cpu.pc.locals = 0 /\ cpu.sp < DEPTH
        /\ cpu' = [cpu EXCEPT !.pc.locals = 1, !.sp = @ + 1]
        /\ stack' = Pushed(stack, cpu.ss, cpu.sp, <<<<"data", Len(suspended)>>>>)
     \/ /\ cpu.pc.locals = 1
        /\ cpu' = [cpu EXCEPT !.pc.locals = 0, !.sp = @ - 1]
        /\ stack' = Popped(stack, cpu.ss, cpu.sp - 1)
  /\ UNCHANGED <<kstack, retadd, pics, suspended>>

(* The saved state of the interrupted code goes on its own stack, its ss   *)
(* and sp on the kernel's, above what the kernel was doing: at its sp, or  *)
(* where it was left when the user program started.                        *)
KernelSp_kstack(sp) == kstack
KernelSp(sp) == IF cpu.ss = "kernel" THEN sp ELSE kstack

Enter(pc) ==
  LET sp  == cpu.sp + 2
      ksp == KernelSp(sp)
  IN  /\ sp <= DEPTH /\ ksp < DEPTH
      /\ stack' = Pushed(Pushed(stack, cpu.ss, cpu.sp, <<<<"iret", cpu.pc>>, <<"regs">>>>),
                         "kernel", ksp, <<<<"old", cpu.ss, sp>>>>)
      /\ cpu' = [pc |-> pc, ss |-> "kernel", sp |-> ksp + 1]
      /\ suspended' = Append(suspended, [cpu |-> cpu, held |-> Held(cpu)])
      /\ UNCHANGED <<kstack, retadd>>

Resume ==
  LET old == stack["kernel"][cpu.sp]
  IN  /\ cpu' = [pc |-> stack[old[2]][old[3] - 1][2], ss |-> old[2], sp |-> old[3] - 2]
      /\ stack' = Popped(Popped(stack, "kernel", cpu.sp - 1), old[2], old[3] - 2)
      /\ suspended' = Front(suspended)
      /\ UNCHANGED <<kstack, retadd>>

-----------------------------------------------------------------------------
(* uprog_call and the return of the program.                               *)
uprog_call ==
  /\ cpu.pc.who = "cli" /\ cpu.sp + 2 <= DEPTH
  /\ LET sp == cpu.sp + 2
     IN  /\ stack' = Pushed(Pushed(stack, "kernel", cpu.sp, <<<<"ret", cpu.pc>>, <<"regs">>>>),
                            "user", 0, <<<<"old", "kernel", sp>>, <<"args">>>>)
         /\ kstack' = sp
  /\ cpu' = [pc |-> USER, ss |-> "user", sp |-> 2]
  /\ suspended' = Append(suspended, [cpu |-> cpu, held |-> Held(cpu)])
  /\ UNCHANGED <<retadd, pics>>

ReturnFromProgram ==
  /\ cpu.pc = USER
  /\ LET sp == stack["user"][cpu.sp - 1][3]
     IN  /\ cpu' = [pc |-> stack["kernel"][sp - 1][2], ss |-> "kernel", sp |-> sp - 2]
         /\ stack' = Popped(Popped(stack, "user", 0), "kernel", sp - 2)
  /\ suspended' = Front(suspended)
  /\ UNCHANGED <<kstack, retadd, pics>>

(* SYS_ISR, around kernel_service.  Handlers make system calls too.        *)
SystemCall ==
  /\ cpu.pc.at = "body" /\ cpu.pc.who # "service"
  /\ Enter(Body("service"))
  /\ UNCHANGED pics

ReturnFromCall ==
  /\ cpu.pc = Body("service")
  /\ Resume
  /\ UNCHANGED pics

-----------------------------------------------------------------------------
(* An interrupt comes when nothing of its own or a higher priority is in   *)
(* service; for the master all of the slave's are one.                     *)
Line(h)     == IF h = "timer" THEN "timer" ELSE "slave"
Chips(h)    == IF h = "timer" THEN {"master"} ELSE {"master", "slave"}
Rank(bit)   == CASE bit = "timer" -> 1 [] bit = "slave" -> 2 [] bit = "net" -> 1 [] bit = "mouse" -> 2
Unmasked(h) == /\ \A bit \in pics.master : Rank(Line(h)) < Rank(bit)
               /\ h # "timer" => \A bit \in pics.slave : Rank(h) < Rank(bit)

Interrupt(h) ==
  /\ Unmasked(h)
  /\ pics' = [master |-> pics.master \cup {Line(h)},
              slave  |-> IF h = "timer" THEN pics.slave ELSE pics.slave \cup {h}]
  /\ Enter(Body(h))

(* An unspecific EOI ends the interrupt of the highest priority.           *)
Ended(bits)   == {bit \in bits : \E b \in bits : Rank(b) < Rank(bit)}
Eoi(p, chips) == [c \in DOMAIN p |-> IF c \in chips THEN Ended(p[c]) ELSE p[c]]

(* Where a handler sends its EOIs: before it calls leave_kernel, or after. *)
AfterLeave_mouse(h) == IF h = "mouse" THEN Chips(h) ELSE {}
AfterLeave(h) == {}

Handling(at) == cpu.pc.who \in Handlers /\ cpu.pc.at = at
Acknowledge ==
  /\ \/ /\ Handling("body") /\ cpu.pc.locals = 0
        /\ pics' = Eoi(pics, (Chips(cpu.pc.who) \ AfterLeave(cpu.pc.who)) \cap {"slave"})
        /\ cpu' = [cpu EXCEPT !.pc.at = "master"]
     \/ /\ Handling("master")
        /\ pics' = Eoi(pics, (Chips(cpu.pc.who) \ AfterLeave(cpu.pc.who)) \cap {"master"})
        /\ cpu' = [cpu EXCEPT !.pc.at = "leave"]
  /\ UNCHANGED <<stack, kstack, retadd, suspended>>

StoreReturn ==
  /\ Handling("leave")
  /\ retadd' = cpu.pc.who
  /\ cpu' = [cpu EXCEPT !.pc.at = "stored"]
  /\ UNCHANGED <<stack, kstack, pics, suspended>>

(* The rest of leave_kernel, and what follows its call in the handler that *)
(* .retadd now names.                                                      *)
leave_kernel ==
  /\ Handling("stored")
  /\ Resume
  /\ pics' = Eoi(pics, AfterLeave(retadd))

EntryNext ==
  \/ UseStack \/ uprog_call \/ ReturnFromProgram \/ SystemCall \/ ReturnFromCall
  \/ \E h \in Handlers : Interrupt(h)
  \/ Acknowledge \/ StoreReturn \/ leave_kernel

EntrySpec == EntryInit /\ [][EntryNext]_evars

-----------------------------------------------------------------------------
EntryTypeOK ==
  /\ cpu.ss \in {"kernel", "user"} /\ cpu.sp \in 0 .. DEPTH
  /\ kstack \in 0 .. DEPTH
  /\ pics.master \subseteq {"timer", "slave"} /\ pics.slave \subseteq {"mouse", "net"}

(* However calls and interrupts nest, what is suspended keeps all that it  *)
(* had on its stack, and above that lies the place it will resume at.      *)
StacksIntact ==
  \A k \in DOMAIN suspended :
    LET s == suspended[k]
    IN  /\ \A i \in 1 .. s.cpu.sp : stack[s.cpu.ss][i] = s.held[i]
        /\ stack[s.cpu.ss][s.cpu.sp + 1] \in {<<"iret", s.cpu.pc>>, <<"ret", s.cpu.pc>>}

(* When no handler is left on the stacks no interrupt is in service: none  *)
(* is blocked for ever, though the return address of leave_kernel may be   *)
(* another handler's.                                                      *)
Interrupted == cpu.pc.who \in Handlers \/ \E k \in DOMAIN suspended : suspended[k].cpu.pc.who \in Handlers
Acknowledged == Interrupted \/ pics = [master |-> {}, slave |-> {}]
=============================================================================
