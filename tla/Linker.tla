------------------------------- MODULE Linker --------------------------------
(***************************************************************************)
(* exec and the dynamic linker: programs are loaded into a table that all  *)
(* processes share, run, ask the kernel for their offset table and are     *)
(* unloaded.  A program may exec another one, so each process has a stack  *)
(* of execs.                                                               *)
(*                                                                         *)
(* The table is a std::vector: it moves to another buffer when it grows,   *)
(* erasing shifts what follows, and load_module hands out the address of   *)
(* an element.  An address is a buffer and a position in it.               *)
(***************************************************************************)
EXTENDS Integers, Sequences, FiniteSets, SequencesExt

CONSTANTS
    Procs,       (* processes that exec                                     *)
    Areas,       (* pieces of heap for the text and data of a program       *)
    NoArea,      (* a null pointer                                          *)
    Buffers,     (* places the table may occupy; 0 is the empty vector's    *)
    Recycled,    (* the heap may give a place back that the table has left  *)
    MaxDepth,    (* bound: execs inside one another                         *)
    MaxModules   (* bound: entries in the table                             *)

ASSUME LinkerAssumption ==
    /\ NoArea \notin Areas
    /\ Buffers \subseteq Nat \ {0} /\ Recycled \in BOOLEAN
    /\ MaxDepth \in Nat /\ MaxModules \in Nat

VARIABLES
    modules,     (* DynamicLinker::modules_                                 *)
    buffer,      (* where its elements are                                  *)
    capacity,    (* how many fit there                                      *)
    stack,       (* per process: its execs, the innermost last              *)
    resolver,    (* get_lot_at is published at _kernel_ram_start            *)
    faulted      (* a file's data was called: an even address, a usage fault *)

vars == <<modules, buffer, capacity, stack, resolver, faulted>>

(* An exec: where it stands, the address load_module works on, the text of  *)
(* its program and the offset table in r9, named by the exec it belongs to. *)
Frame(phase, ref) == [phase |-> phase, ref |-> ref, text |-> NoArea, r9 |-> <<>>]

NullRef == [buffer |-> 0, index |-> 0]

(* lot is null, allocated, or filled by the relocations.                    *)
Module(p, d) == [text |-> NoArea, lot |-> "null", owner |-> <<p, d>>]

Depth(p) == Len(stack[p])
Top(p) == stack[p][Depth(p)]
InPhase(p, phase) == ~faulted /\ stack[p] # <<>> /\ Top(p).phase = phase
SetTop(p, f) == stack' = [stack EXCEPT ![p][Depth(p)] = f]
Pop(p) == stack' = [stack EXCEPT ![p] = Front(@)]

(* The element an address points at, 0 when it points at none.              *)
Deref(ref) ==
    IF ref.buffer = buffer /\ ref.index \in DOMAIN modules THEN ref.index ELSE 0

Used == {modules[i].text : i \in DOMAIN modules}

(* get_lot_for_module_at: the first module whose text holds the address.    *)
Holders(text) == {i \in DOMAIN modules : modules[i].text = text}

LotAt(text) ==
    IF Holders(text) = {} THEN <<>>           (* 0xffffffff                 *)
    ELSE modules[CHOOSE i \in Holders(text) : \A j \in Holders(text) : i <= j].owner

(* Writes through a reference that has become stale go to freed memory.     *)
SetModule(ref, m) ==
    modules' = IF Deref(ref) = 0 THEN modules ELSE [modules EXCEPT ![Deref(ref)] = m]

-----------------------------------------------------------------------------

Init ==
    /\ modules = <<>> /\ buffer = 0 /\ capacity = 0
    /\ stack = [p \in Procs |-> <<>>]
    /\ resolver = FALSE /\ faulted = FALSE

(* Who may exec: a process in its own code, or a program it runs.           *)
MayExec(p) ==
    /\ ~faulted
    /\ Depth(p) < MaxDepth
    /\ stack[p] = <<>> \/ InPhase(p, "running") \/ InPhase(p, "native")

(* exec, the first time: the address of get_lot_at is put at the start of   *)
(* the kernel's RAM; spawn_exec does the same.                              *)
PublishResolver == resolver' = TRUE

(* exec of a file that is absent or holds nothing: -1, nothing else.        *)
ExecNothing(p) ==
    /\ MayExec(p)
    /\ PublishResolver
    /\ UNCHANGED <<modules, buffer, capacity, stack, faulted>>

(* exec of a registered application: its function is called.                *)
ExecNative(p) ==
    /\ MayExec(p)
    /\ PublishResolver
    /\ stack' = [stack EXCEPT ![p] = Append(@, Frame("native", NullRef))]
    /\ UNCHANGED <<modules, buffer, capacity, faulted>>

(* std::vector::emplace_back: a full vector moves and doubles.              *)
EmplaceBack(m) ==
    /\ modules' = Append(modules, m)
    /\ IF Len(modules) < capacity
       THEN UNCHANGED <<buffer, capacity>>
       ELSE /\ buffer' \in {b \in Buffers \ {buffer} : Recycled \/ b > buffer}
            /\ capacity' = IF capacity = 0 THEN 1 ELSE 2 * capacity

(* exec of a module, as far as the new entry in the table.                  *)
ExecModule(p) ==
    /\ MayExec(p)
    /\ Len(modules) < MaxModules
    /\ PublishResolver
    /\ EmplaceBack(Module(p, Depth(p) + 1))
    /\ stack' = [stack EXCEPT ![p] = Append(@,
            Frame("text", [buffer |-> buffer', index |-> Len(modules')]))]
    /\ UNCHANGED faulted

(* allocate_text, memcpy and set_start_address.                             *)
CopyText(p) ==
    /\ InPhase(p, "text")
    /\ \E a \in Areas \ Used :
        /\ SetTop(p, [Top(p) EXCEPT !.phase = "lot", !.text = a])
        /\ SetModule(Top(p).ref, [modules[Deref(Top(p).ref)] EXCEPT !.text = a])
    /\ UNCHANGED <<buffer, capacity, resolver, faulted>>

(* allocate_data and allocate_lot.                                          *)
AllocateLot(p) ==
    /\ InPhase(p, "lot")
    /\ SetTop(p, [Top(p) EXCEPT !.phase = "relocate"])
    /\ SetModule(Top(p).ref, [modules[Deref(Top(p).ref)] EXCEPT !.lot = "allocated"])
    /\ UNCHANGED <<buffer, capacity, resolver, faulted>>

(* LoadedModule::execute gives the program its offset table in r9.          *)
Execute(ref) == IF Deref(ref) = 0 THEN <<>> ELSE modules[Deref(ref)].owner

(* The relocations, all symbols found; then execute enters the program.     *)
Relocate(p) ==
    /\ InPhase(p, "relocate")
    /\ SetTop(p, [Top(p) EXCEPT !.phase = "running", !.r9 = Execute(Top(p).ref)])
    /\ SetModule(Top(p).ref, [modules[Deref(Top(p).ref)] EXCEPT !.lot = "filled"])
    /\ UNCHANGED <<buffer, capacity, resolver, faulted>>

(* exec of a file without the cookie; or an allocation fails or a symbol is *)
(* missing: nullptr, the entry remains.  exec then calls the file's data.   *)
CallData(p) ==
    /\ MayExec(p) \/ \E phase \in {"text", "lot", "relocate"} : InPhase(p, phase)
    /\ faulted' = TRUE
    /\ PublishResolver
    /\ UNCHANGED <<modules, buffer, capacity, stack>>

(* A wrapper around a function of a module asks get_lot_at for its offset   *)
(* table, as dynamic_linker.md describes; the kernel publishes get_lot_at.  *)
CallWrapped(p) ==
    /\ InPhase(p, "running") /\ resolver
    /\ SetTop(p, [Top(p) EXCEPT !.r9 = LotAt(Top(p).text)])
    /\ UNCHANGED <<modules, buffer, capacity, resolver, faulted>>

(* Faults: the first module goes; none does.                                *)
UnloadFirst(ref) == modules' = IF modules = <<>> THEN modules ELSE Tail(modules)
UnloadNone(ref) == UNCHANGED modules

(* unload_module: erases the element with this address, if there is one.    *)
Unload(ref) ==
    modules' = IF Deref(ref) = 0 THEN modules ELSE RemoveAt(modules, Deref(ref))

(* The program returns; a stale address unloads nothing.                    *)
Finish(p) ==
    /\ InPhase(p, "running")
    /\ Unload(Top(p).ref)
    /\ Pop(p)
    /\ UNCHANGED <<buffer, capacity, resolver, faulted>>

FinishNative(p) ==
    /\ InPhase(p, "native")
    /\ Pop(p)
    /\ UNCHANGED <<modules, buffer, capacity, resolver, faulted>>

Next ==
    \E p \in Procs :
        \/ ExecNothing(p) \/ ExecNative(p) \/ ExecModule(p)
        \/ CopyText(p) \/ AllocateLot(p) \/ Relocate(p)
        \/ CallData(p) \/ CallWrapped(p) \/ Finish(p) \/ FinishNative(p)

Spec == Init /\ [][Next]_vars

-----------------------------------------------------------------------------

Refs == [buffer : Buffers \cup {0}, index : Nat]
Owners == Procs \X (1..MaxDepth)
Phases == {"native", "text", "lot", "relocate", "running"}

(* A program that runs, also one that waits for a program it started, finds *)
(* its own offset table in r9 and whenever it asks the kernel for it, and   *)
(* the table is completely relocated (get_lot_for_module_at).               *)
RunningSeesOwnLot ==
    \A p \in Procs : \A d \in DOMAIN stack[p] :
        LET f == stack[p][d] IN
        f.phase = "running" =>
            /\ resolver
            /\ f.r9 = <<p, d>>
            /\ LotAt(f.text) = <<p, d>>
            /\ \E i \in Holders(f.text) : modules[i].lot = "filled"

(* A program that returns takes its own entry out of the table and leaves   *)
(* the others in order; it may leave everything as it was only if the table *)
(* has moved since it was loaded (unload_module compares addresses).        *)
ReturnUnloadsOwn ==
    [][\A p \in Procs :
        InPhase(p, "running") /\ Len(stack'[p]) < Depth(p) =>
            \/ \E i \in DOMAIN modules :
                /\ modules[i].owner = <<p, Depth(p)>>
                /\ modules[i].text = Top(p).text
                /\ modules' = RemoveAt(modules, i)
            \/ modules' = modules /\ Top(p).ref.buffer # buffer]_vars

(* No step but its own return takes the offset table of a running program   *)
(* away: who asks get_lot_at for it finds it as long as the program runs,   *)
(* which the wrappers of dynamic_linker.md rely on.                         *)
TableOutlivesProgram ==
    [][\A p \in Procs : \A d \in DOMAIN stack[p] :
        LET f == stack[p][d] IN
        f.phase = "running" /\ LotAt(f.text) = <<p, d>> /\ d <= Len(stack'[p]) =>
            LotAt(f.text)' = <<p, d>>]_vars
=============================================================================
