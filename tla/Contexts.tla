------------------------------- MODULE Contexts -------------------------------
(***************************************************************************)
(* What a context switch does to registers and stacks.  An exception       *)
(* pushes one half of the registers on the stack of the process, PendSV    *)
(* the other half; to go on, the halves of another process are popped.     *)
(* The last word of each stack holds a mark, and a process whose mark is   *)
(* gone has no stack pointer any more.                                     *)
(*                                                                         *)
(* Who is chosen is a matter of Kernel: here it may be anybody.            *)
(***************************************************************************)
EXTENDS Integers, Sequences, FiniteSets

CONSTANTS
    Tasks,       (* a process computes and pushes values of its own         *)
    Entry,       (* where a process starts, and what registers are then     *)
    Mark,        (* 0xdeadbeef, which no register holds                     *)
    Clobbered,   (* what a handler leaves behind in a register              *)
    StackWords,  (* words of a stack                                        *)
    Below        (* bound: words that a process goes below its stack        *)

ASSUME ContextsAssumption ==
    /\ Entry \notin Tasks /\ Mark \notin Tasks \cup {Entry, Clobbered}
    /\ StackWords \in Nat /\ StackWords > 2 /\ Below \in Nat

VARIABLES
    stack,       (* per process: its words and those below                  *)
    stack_pointer,   (* per process: current_stack_pointer_, as an index    *)
    alive,       (* the processes that exist                                *)
    running,     (* the process whose stack psp points into                 *)
    registers,   (* scratch, kept and psp                                   *)
    mode,        (* "thread", in the handler "entered", "stored", "exiting", *)
                 (* "exited" or "restored"; "lost": nothing is known of it   *)
    left,        (* history: registers and words as each process left them  *)
    outside,     (* history: processes that wrote below their stack         *)
    skipped      (* history: those that went past the mark without a write  *)

contextVars ==
    <<stack, stack_pointer, alive, running, registers, mode, left, outside, skipped>>

Words == -Below .. StackWords - 1

(* HardwareStoredRegisters (r0 to r3, r12, lr, pc, psr) stand above         *)
(* SoftwareStoredRegisters (r4 to r11, and an lr that is the same for every *)
(* process).  Each is one word here.                                        *)
HardwareFrame(r) == <<r.scratch>>
SoftwareFrame(r) == <<r.kept>>

Fresh == [scratch |-> Entry, kept |-> Entry, psp |-> StackWords]

(* The words from sp on, written to the stack of t.                         *)
With(words, sp, frame_words) ==
    [a \in Words |-> IF a \in sp .. sp + Len(frame_words) - 1 THEN frame_words[a - sp + 1]
                     ELSE words[a]]

(* A word that is popped is forgotten, except the one where the mark is     *)
(* looked for.                                                              *)
Popped(t, sp) ==
    stack' = [stack EXCEPT ![t] = IF sp = 0 THEN @ ELSE [@ EXCEPT ![sp] = Entry]]

(* ArmProcess::ArmProcess: the mark, and a process that is about to return  *)
(* from an exception to its entry, with its argument in r0.                 *)
NewStack(arg) ==
    With([a \in Words |-> IF a = 0 THEN Mark ELSE Entry], StackWords - 2,
         SoftwareFrame(Fresh) \o HardwareFrame([Fresh EXCEPT !.scratch = arg]))

ContextsInit ==
    /\ stack = [t \in Tasks |-> NewStack(Entry)]
    /\ stack_pointer = [t \in Tasks |-> StackWords - 2]
    /\ running \in Tasks /\ alive = {running}
    /\ registers = Fresh /\ mode = "thread"
    /\ left = [t \in Tasks |-> [registers |-> Fresh, words |-> <<>>]]
    /\ outside = {} /\ skipped = {}

-----------------------------------------------------------------------------
(* The running process.                                                     *)

(* create_process.                                                          *)
Create(t) ==
    /\ mode = "thread" /\ t \notin alive
    /\ LET arg == running
       IN  /\ stack' = [stack EXCEPT ![t] = NewStack(arg)]
           /\ left' = [left EXCEPT ![t] = [registers |-> [Fresh EXCEPT !.scratch = arg],
                                           words |-> <<>>]]
    /\ stack_pointer' = [stack_pointer EXCEPT ![t] = StackWords - 2]
    /\ alive' = alive \cup {t}
    /\ outside' = outside \ {t} /\ skipped' = skipped \ {t}
    /\ UNCHANGED <<running, registers, mode>>

Compute ==
    /\ mode = "thread"
    /\ registers' = [registers EXCEPT !.scratch = running, !.kept = running]
    /\ left' = [left EXCEPT ![running].registers.scratch = running,
                            ![running].registers.kept = running]
    /\ UNCHANGED <<stack, stack_pointer, alive, running, mode, outside, skipped>>

(* The stack grows by words that are written ...                            *)
Grow(words) ==
    LET sp == registers.psp - Len(words)
    IN  /\ sp >= -Below
        /\ stack' = [stack EXCEPT ![running] = With(@, sp, words)]
        /\ outside' = IF sp < 0 THEN outside \cup {running} ELSE outside

PushWord ==
    /\ mode = "thread"
    /\ Grow(<<running>>)
    /\ registers' = [registers EXCEPT !.psp = @ - 1]
    /\ left' = [left EXCEPT ![running].registers.psp = @ - 1,
                            ![running].words = <<running>> \o @]
    /\ UNCHANGED <<stack_pointer, alive, running, mode, skipped>>

(* ... or by one that is not.                                               *)
Reserve ==
    /\ mode = "thread" /\ registers.psp > -Below
    /\ registers' = [registers EXCEPT !.psp = @ - 1]
    /\ left' = [left EXCEPT ![running].registers.psp = @ - 1,
                            ![running].words = <<stack[running][registers.psp - 1]>> \o @]
    /\ skipped' = IF registers.psp = 1 THEN skipped \cup {running} ELSE skipped
    /\ UNCHANGED <<stack, stack_pointer, alive, running, mode, outside>>

PopWord ==
    /\ mode = "thread" /\ registers.psp < StackWords
    /\ Popped(running, registers.psp)
    /\ registers' = [registers EXCEPT !.psp = @ + 1]
    /\ left' = [left EXCEPT ![running].registers.psp = @ + 1, ![running].words = Tail(@)]
    /\ UNCHANGED <<stack_pointer, alive, running, mode, outside, skipped>>

-----------------------------------------------------------------------------
(* The handlers.                                                            *)

(* Any exception; its code uses the registers that have been pushed.        *)
EnterException ==
    /\ mode = "thread" /\ mode' = "entered"
    /\ Grow(HardwareFrame(registers))
    /\ registers' = [registers EXCEPT !.psp = @ - 1, !.scratch = Clobbered]
    /\ UNCHANGED <<stack_pointer, alive, running, left, skipped>>

(* _exit: a system call, and a loop should it come back.                    *)
TriggerExit ==
    /\ mode = "thread" /\ mode' = "exiting"
    /\ Grow(HardwareFrame(registers))
    /\ registers' = [registers EXCEPT !.psp = @ - 1, !.scratch = Clobbered]
    /\ UNCHANGED <<stack_pointer, alive, running, left, skipped>>

(* exit_handler, to which the first function of a process returns when it   *)
(* has popped all that it pushed.                                           *)
ExitHandler == left[running].words = <<>> /\ TriggerExit

UpdateStackPointer(sp) == stack_pointer' = [stack_pointer EXCEPT ![running] = sp]

(* Fault: the stack pointer is one word below what was stored.              *)
StoreContextBelow ==
    /\ mode = "entered" /\ mode' = "stored"
    /\ Grow(SoftwareFrame(registers))
    /\ UpdateStackPointer(registers.psp - 2)
    /\ UNCHANGED <<alive, running, registers, left, skipped>>

(* store_and_switch_to_next_task, up to update_stack_pointer.               *)
StoreContext ==
    /\ mode = "entered" /\ mode' = "stored"
    /\ Grow(SoftwareFrame(registers))
    /\ UpdateStackPointer(registers.psp - 1)
    /\ UNCHANGED <<alive, running, registers, left, skipped>>

(* process_exit: switch_to_next_task follows, and nothing is stored.        *)
ExitProcess ==
    /\ mode = "exiting" /\ alive # {running} /\ mode' = "exited"
    /\ alive' = alive \ {running}
    /\ outside' = outside \ {running} /\ skipped' = skipped \ {running}
    /\ stack' = [stack EXCEPT ![running] = NewStack(Entry)]
    /\ left' = [left EXCEPT ![running] = [registers |-> Fresh, words |-> <<>>]]
    /\ stack_pointer' = [stack_pointer EXCEPT ![running] = StackWords - 2]
    /\ UNCHANGED <<running, registers>>

(* Fault: no stack is looked at.                                            *)
ValidateNothing(t) == TRUE

ValidateStack(t) == stack[t][0] = Mark

(* current_stack_pointer: nullptr for a stack that has overflowed.          *)
CurrentStackPointer(t) == IF ValidateStack(t) THEN stack_pointer[t] ELSE -Below - 1

(* switch_to_next_task: kept registers from the stack of the next process,  *)
(* or from address 0 when get_next_task returns no stack pointer.           *)
RestoreContext(t) ==
    /\ mode \in {"stored", "exited"} /\ t \in alive
    /\ running' = t
    /\ LET sp == CurrentStackPointer(t) IN
       IF sp \in Words
       THEN /\ registers' = [registers EXCEPT !.kept = stack[t][sp], !.psp = sp + 1]
            /\ Popped(t, sp)
            /\ mode' = "restored"
       ELSE /\ mode' = "lost" /\ UNCHANGED <<registers, stack>>
    /\ UNCHANGED <<stack_pointer, alive, left, outside, skipped>>

(* The return from the exception, with or without a switch.                 *)
ReturnFromException ==
    /\ mode \in {"entered", "restored"} /\ mode' = "thread"
    /\ registers' = [registers EXCEPT !.scratch = stack[running][registers.psp],
                                      !.psp = @ + 1]
    /\ Popped(running, registers.psp)
    /\ UNCHANGED <<stack_pointer, alive, running, left, outside, skipped>>

ContextsNext ==
    \/ \E t \in Tasks : Create(t) \/ RestoreContext(t)
    \/ Compute \/ PushWord \/ Reserve \/ PopWord
    \/ EnterException \/ TriggerExit \/ ExitHandler
    \/ StoreContext \/ ExitProcess \/ ReturnFromException

-----------------------------------------------------------------------------

(* As long as no process has written below its stack, a process goes on     *)
(* with the registers, the stack pointer and the words on its stack that it *)
(* left behind, whoever ran, came or went in between (context_switch.s,     *)
(* arm_process.cpp).                                                        *)
ResumesOwnRegisters ==
    mode = "thread" /\ outside = {} =>
        /\ registers = left[running].registers
        /\ \A i \in DOMAIN left[running].words :
                stack[running][registers.psp + i - 1] = left[running].words[i]

(* A process that wrote below its stack is not resumed, unless it left the  *)
(* last word out on its way (ArmProcess::validate_stack).                   *)
OverflowIsCaught ==
    mode = "restored" => running \notin outside \ skipped
=============================================================================
