------------------------------- MODULE Kernel -------------------------------
(***************************************************************************)
(* The armv7-m kernel of msos: the round-robin ring of processes, the      *)
(* system calls that run as SVC handlers (semaphore wait and post, yield,  *)
(* exit), spawn, which runs in thread mode, and the two interrupts that    *)
(* preempt them (SysTick and PendSV).                                      *)
(*                                                                         *)
(* One core executes everything.  `current` is the process whose context   *)
(* is on the core and pc[current] the instruction it stands at:            *)
(*   - labels in ThreadMode run at thread priority: a pending PendSV is    *)
(*     served before their next instruction;                               *)
(*   - labels in InHandler run in the SVC handler, whose priority (0xfe)   *)
(*     is above that of PendSV (0xff): only SysTick (0x00) interrupts it.  *)
(* A process that has left the core is in ThreadMode, or has handed the    *)
(* core over inside semaphore_wait ("w_yield").                            *)
(***************************************************************************)
EXTENDS Integers, Sequences, FiniteSets, SequencesExt

CONSTANTS
    Procs,        (* the process objects that may ever be created           *)
    Root,         (* the process started by spawn_root_process              *)
    Sems,         (* addresses of the semaphores                            *)
    InitValue,    (* value each semaphore is constructed with (1: a mutex)  *)
    Spawners,     (* the processes that call spawn                          *)
    Returning,    (* the processes whose entry function returns, or exits   *)
    Signallers,   (* the processes that may post a semaphore they don't own *)
    MaxSignals,   (* bound: posts of that kind per semaphore                *)
    Disciplined   (* TRUE: semaphores are taken in increasing order, and    *)
                  (* nobody exits while holding one                         *)

ASSUME KernelAssumption ==
    /\ IsFiniteSet(Procs)
    /\ Root \in Procs
    /\ Sems \subseteq Nat \ {0}
    /\ InitValue \in [Sems -> Nat]
    /\ Spawners \subseteq Procs
    /\ Returning \subseteq Procs
    /\ Signallers \subseteq Procs
    /\ MaxSignals \in Nat
    /\ Disciplined \in BOOLEAN

VARIABLES
    ring,         (* ProcessManager::processes_                             *)
    current,      (* NormalScheduler::current_process_                      *)
    cpu,          (* what the core executes, see below                      *)
    state,        (* Process::state_                                        *)
    locks,        (* ArmProcess::locks_                                     *)
    pid,          (* Process::pid_                                          *)
    pidCounter,   (* arm_process.cpp's static pid_counter                   *)
    value,        (* Semaphore::value_                                      *)
    pc, sem, reg, (* per process: label, r0 and r1 of the handler it is in  *)
    monitor,      (* the core's local exclusive monitor (ldrex/strex)       *)
    pendsv,       (* PendSV is pending                                      *)
    holders,      (* history: who took a semaphore and has not posted it    *)
    posted        (* history: posts by processes that did not hold it       *)

shared  == <<pid, pidCounter>>
ghosts  == <<holders, posted>>
sched   == <<ring, current, cpu, state, locks>>
vars    == <<ring, current, cpu, state, locks, pid, pidCounter, value,
             pc, sem, reg, monitor, pendsv, holders, posted>>

NoSem == 0

(* "run": the core executes pc[current].  The other values are final:       *)
(* "spin", schedule_next searches forever because no process is Ready;      *)
(* "lost", current_process_ refers to an erased list node;                  *)
(* "stale", a process that already went through process_exit was dispatched *)
(* and the core runs the context it was last preempted with.                *)
CpuStates == {"run", "spin", "lost", "stale"}

ThreadMode == {"user", "s_store", "s_link"}
InWait     == {"w_load", "w_block", "w_store"}
InPost     == {"p_load", "p_store", "p_unblock"}
InHandler  == InWait \cup InPost
Labels     == ThreadMode \cup InHandler \cup {"w_yield", "exited", "dead", "none"}

InRing == {ring[i] : i \in DOMAIN ring}

-----------------------------------------------------------------------------
(* The ring.                                                                *)

Position(r, p) == CHOOSE i \in DOMAIN r : r[i] = p

(* The process reached by k calls of get_next() from c, for k in 1..Len(r). *)
Successor(r, c, k) ==
    LET i == Position(r, c) + k
    IN  r[IF i > Len(r) THEN i - Len(r) ELSE i]

(* Fault: the iterator is handed back as it came.                           *)
GetNextStays(r, c) == c

GetNext(r, c) == Successor(r, c, 1)

(* Faults: the next process whatever its state; always the head of the list *)
ScheduleAnyState(r, c, k) == k = 1

ScheduleFromHead(r, c, k) ==
    /\ state[Successor(r, c, k)] = "Ready"
    /\ \A i \in 1..(Position(r, Successor(r, c, k)) - 1) : state[r[i]] # "Ready"

(* schedule_next(): the k-th process after c is the first that is Ready.    *)
ScheduleNext(r, c, k) ==
    /\ state[Successor(r, c, k)] = "Ready"
    /\ \A j \in 1..(k - 1) : state[Successor(r, c, j)] # "Ready"

(* The list node ProcessManager::delete_process erases: the first of the pid *)
FirstWithPid(r, n) ==
    CHOOSE i \in DOMAIN r : /\ pid[r[i]] = n
                            /\ \A j \in 1..(i - 1) : pid[r[j]] # n

-----------------------------------------------------------------------------

Init ==
    /\ ring = <<Root>>
    /\ current = Root
    /\ cpu = "run"
    /\ state = [p \in Procs |-> IF p = Root THEN "Ready" ELSE "None"]
    /\ locks = [p \in Procs |-> {}]
    /\ pid = [p \in Procs |-> IF p = Root THEN 1 ELSE 0]
    /\ pidCounter = 2
    /\ value = InitValue
    /\ pc = [p \in Procs |-> IF p = Root THEN "user" ELSE "none"]
    /\ sem = [p \in Procs |-> NoSem]
    /\ reg = [p \in Procs |-> 0]
    /\ monitor = FALSE
    /\ pendsv = FALSE
    /\ holders = [s \in Sems |-> {}]
    /\ posted = [s \in Sems |-> 0]

At(p, label)  == cpu = "run" /\ p = current /\ pc[p] = label
User(p)       == At(p, "user") /\ ~pendsv
Goto(p, label) == pc' = [pc EXCEPT ![p] = label]
Held(p)       == {s \in Sems : p \in holders[s]}

-----------------------------------------------------------------------------
(* SVC handler of SYSCALL_SEMAPHORE_WAIT.                                   *)

Wait(p, s) ==
    /\ User(p)
    /\ s \notin Held(p)
    /\ Disciplined => \A t \in Held(p) : t < s
    /\ Goto(p, "w_load")
    /\ sem' = [sem EXCEPT ![p] = s]
    /\ monitor' = FALSE
    /\ UNCHANGED <<sched, shared, value, reg, pendsv, ghosts>>

(* Fault: the value is not compared with 0.                                 *)
WaitLoadNoTest(p) ==
    /\ At(p, "w_load")
    /\ reg' = [reg EXCEPT ![p] = value[sem[p]]]
    /\ monitor' = TRUE
    /\ Goto(p, "w_store")
    /\ UNCHANGED <<sched, shared, value, sem, pendsv, ghosts>>

(* ldrex r1, [r0]; cmp r1, #0; bleq perform_block                           *)
WaitLoad(p) ==
    /\ At(p, "w_load")
    /\ reg' = [reg EXCEPT ![p] = value[sem[p]]]
    /\ monitor' = TRUE
    /\ Goto(p, IF value[sem[p]] = 0 THEN "w_block" ELSE "w_store")
    /\ UNCHANGED <<sched, shared, value, sem, pendsv, ghosts>>

(* ArmProcess::block                                                        *)
BlockOn(p, s) ==
    /\ locks' = [locks EXCEPT ![p] = @ \cup {s}]
    /\ state' = [state EXCEPT ![p] = "Blocked"]

(* block(): the current process is blocked on the semaphore, then yields.   *)
Block(p) ==
    /\ At(p, "w_block")
    /\ BlockOn(p, sem[p])
    /\ Goto(p, "w_yield")
    /\ reg' = [reg EXCEPT ![p] = 0]
    /\ monitor' = FALSE
    /\ pendsv' = TRUE
    /\ UNCHANGED <<ring, current, cpu, shared, value, sem, ghosts>>

(* Fault: a plain str, which does not look at the monitor.                  *)
WaitStorePlain(p) ==
    /\ At(p, "w_store")
    /\ monitor' = FALSE
    /\ reg' = [reg EXCEPT ![p] = 0]
    /\ value' = [value EXCEPT ![sem[p]] = IF reg[p] > 0 THEN reg[p] - 1 ELSE 0]
    /\ holders' = [holders EXCEPT ![sem[p]] = @ \cup {p}]
    /\ sem' = [sem EXCEPT ![p] = NoSem]
    /\ Goto(p, "user")
    /\ UNCHANGED <<sched, shared, pendsv, posted>>

(* sub r1, #1; strex r2, r1, [r0]: stores only if the monitor is still set, *)
(* otherwise starts again.                                                  *)
WaitStore(p) ==
    /\ At(p, "w_store")
    /\ monitor' = FALSE
    /\ reg' = [reg EXCEPT ![p] = 0]
    /\ \/ /\ monitor
          /\ value' = [value EXCEPT ![sem[p]] = reg[p] - 1]
          /\ holders' = [holders EXCEPT ![sem[p]] = @ \cup {p}]
          /\ sem' = [sem EXCEPT ![p] = NoSem]
          /\ Goto(p, "user")
       \/ /\ ~monitor
          /\ Goto(p, "w_load")
          /\ UNCHANGED <<value, sem, holders>>
    /\ UNCHANGED <<sched, shared, pendsv, posted>>

-----------------------------------------------------------------------------
(* SVC handler of SYSCALL_SEMAPHORE_POST.                                   *)

Post(p, s) ==
    /\ User(p)
    /\ p \in holders[s] \/ (p \in Signallers /\ posted[s] < MaxSignals)
    /\ Goto(p, "p_load")
    /\ sem' = [sem EXCEPT ![p] = s]
    /\ monitor' = FALSE
    /\ UNCHANGED <<sched, shared, value, reg, pendsv, ghosts>>

PostLoad(p) ==
    /\ At(p, "p_load")
    /\ reg' = [reg EXCEPT ![p] = value[sem[p]]]
    /\ monitor' = TRUE
    /\ Goto(p, "p_store")
    /\ UNCHANGED <<sched, shared, value, sem, pendsv, ghosts>>

PostStore(p) ==
    /\ At(p, "p_store")
    /\ monitor' = FALSE
    /\ reg' = [reg EXCEPT ![p] = 0]
    /\ \/ /\ monitor
          /\ value' = [value EXCEPT ![sem[p]] = reg[p] + 1]
          /\ IF p \in holders[sem[p]]
             THEN /\ holders' = [holders EXCEPT ![sem[p]] = @ \ {p}]
                  /\ UNCHANGED posted
             ELSE /\ posted' = [posted EXCEPT ![sem[p]] = @ + 1]
                  /\ UNCHANGED holders
          /\ Goto(p, "p_unblock")
       \/ /\ ~monitor
          /\ Goto(p, "p_load")
          /\ UNCHANGED <<value, ghosts>>
    /\ UNCHANGED <<sched, shared, sem, pendsv>>

(* Fault: the lock is dropped and the state left Blocked.                   *)
PostUnblockKeepsState(p) ==
    /\ At(p, "p_unblock")
    /\ locks' = [q \in Procs |-> locks[q] \ {sem[p]}]
    /\ sem' = [sem EXCEPT ![p] = NoSem]
    /\ Goto(p, "user")
    /\ UNCHANGED <<ring, current, cpu, state, shared, value, reg, monitor, pendsv, ghosts>>

(* ArmProcess::unblock on each of woken: Ready when no lock is left.        *)
Unblock(woken, s) ==
    /\ locks' = [q \in Procs |-> IF q \in woken THEN locks[q] \ {s} ELSE locks[q]]
    /\ state' = [q \in Procs |->
                   IF q \in woken /\ locks[q] = {s} THEN "Ready" ELSE state[q]]

(* unblock(): NormalScheduler::unblock_all, for every process of the list   *)
(* that has the semaphore among its locks.  The comparison before it        *)
(* (cmp r0, #1) tests the address, which is never below 1, so every post    *)
(* gets here.                                                               *)
PostUnblock(p) ==
    /\ At(p, "p_unblock")
    /\ Unblock({q \in InRing : sem[p] \in locks[q]}, sem[p])
    /\ sem' = [sem EXCEPT ![p] = NoSem]
    /\ Goto(p, "user")
    /\ UNCHANGED <<ring, current, cpu, shared, value, reg, monitor, pendsv, ghosts>>

-----------------------------------------------------------------------------
(* spawn(), in thread mode.                                                 *)

(* ArmProcess(): the load of pid_counter++ ...                              *)
SpawnLoad(p) ==
    /\ User(p)
    /\ p \in Spawners
    /\ \E c \in Procs : pc[c] = "none"
    /\ reg' = [reg EXCEPT ![p] = pidCounter]
    /\ Goto(p, "s_store")
    /\ UNCHANGED <<sched, shared, value, sem, monitor, pendsv, ghosts>>

(* ... and its store.                                                       *)
SpawnStore(p) ==
    /\ At(p, "s_store")
    /\ ~pendsv
    /\ pidCounter' = reg[p] + 1
    /\ Goto(p, "s_link")
    /\ UNCHANGED <<sched, pid, value, sem, reg, monitor, pendsv, ghosts>>

(* processes_.emplace_back(): the constructed process joins the list.       *)
SpawnLink(p, c) ==
    /\ At(p, "s_link")
    /\ ~pendsv
    /\ pc[c] = "none"
    /\ ring' = Append(ring, c)
    /\ pid' = [pid EXCEPT ![c] = reg[p]]
    /\ state' = [state EXCEPT ![c] = "Ready"]
    /\ pc' = [pc EXCEPT ![p] = "user", ![c] = "user"]
    /\ reg' = [reg EXCEPT ![p] = 0]
    /\ UNCHANGED <<current, cpu, locks, pidCounter, value, sem, monitor, pendsv, ghosts>>

-----------------------------------------------------------------------------
(* Context switching.                                                       *)

(* switch_to_next_task with list r, current_process_ = c and the program     *)
(* counters pcs.  A process that handed the core over in semaphore_wait goes *)
(* on behind block(), with r1 clobbered by the call; one that exited without *)
(* leaving the list goes on with its last saved context.                     *)
Dispatch(n, pcs) ==
    /\ current' = n
    /\ cpu' = IF pcs[n] = "exited" THEN "stale" ELSE "run"
    /\ \/ /\ pcs[n] = "w_yield"
          /\ pc' = [pcs EXCEPT ![n] = "w_store"]
          /\ \E clobbered \in 0..1 : reg' = [reg EXCEPT ![n] = clobbered]
       \/ /\ pcs[n] # "w_yield"
          /\ pc' = pcs
          /\ UNCHANGED reg

Switch(r, c, pcs) ==
    \/ \E k \in 1..Len(r) :
          ScheduleNext(r, c, k) /\ Dispatch(Successor(r, c, k), pcs)
    \/ /\ \A i \in DOMAIN r : state[r[i]] # "Ready"
       /\ cpu' = "spin"
       /\ current' = c
       /\ pc' = pcs
       /\ UNCHANGED reg

(* Fault: PendSV has the priority of SysTick and interrupts SVC handlers.   *)
PendSVAnyPriority ==
    /\ cpu = "run"
    /\ pendsv
    /\ pendsv' = FALSE
    /\ monitor' = FALSE
    /\ Switch(ring, current, pc)
    /\ UNCHANGED <<ring, state, locks, shared, value, sem, ghosts>>

(* PendSV_Handler: store_and_switch_to_next_task.                           *)
PendSV ==
    /\ cpu = "run"
    /\ pendsv
    /\ pc[current] \notin InHandler
    /\ pendsv' = FALSE
    /\ monitor' = FALSE
    /\ Switch(ring, current, pc)
    /\ UNCHANGED <<ring, state, locks, shared, value, sem, ghosts>>

(* SysTick, every millisecond; it pends PendSV when the switch period is up *)
SysTick ==
    /\ cpu = "run"
    /\ monitor' = FALSE
    /\ pendsv' \in {pendsv, TRUE}
    /\ UNCHANGED <<sched, shared, value, pc, sem, reg, ghosts>>

(* yield(): SVC YIELD pends PendSV, which is served as the SVC returns.     *)
Yield(p) ==
    /\ User(p)
    /\ pendsv' = TRUE
    /\ monitor' = FALSE
    /\ UNCHANGED <<sched, shared, value, pc, sem, reg, ghosts>>

(* delete_process erases the victim and leaves the others in the list.      *)
DeleteProcess(victim, left) ==
    /\ ring' = left
    /\ locks' = [locks EXCEPT ![victim] = {}]
    /\ state' = [state EXCEPT ![victim] = "None"]
    /\ sem' = [sem EXCEPT ![victim] = NoSem]

(* SVC EXIT: process_exit.  delete_process moves current_process_ on before *)
(* it erases the process, and switch_to_next_task moves it on once more.    *)
Exit(p) ==
    /\ User(p)
    /\ p \in Returning
    /\ Disciplined => Held(p) = {}
    /\ LET i      == FirstWithPid(ring, pid[p])
           victim == ring[i]
           next   == GetNext(ring, p)
           left   == RemoveAt(ring, i)
           pcs    == [[pc EXCEPT ![p] = "exited"] EXCEPT ![victim] = "dead"]
       IN  /\ DeleteProcess(victim, left)
           /\ \/ next # victim /\ Switch(left, next, pcs)
              \/ /\ next = victim
                 /\ cpu' = "lost"
                 /\ pc' = pcs
                 /\ UNCHANGED <<current, reg>>
    /\ monitor' = FALSE
    /\ UNCHANGED <<shared, value, pendsv, ghosts>>

-----------------------------------------------------------------------------

WaitSyscall(p) == WaitLoad(p) \/ Block(p) \/ WaitStore(p)
PostSyscall(p) == PostLoad(p) \/ PostStore(p) \/ PostUnblock(p)
Spawn(p)       == SpawnLoad(p) \/ SpawnStore(p) \/ \E c \in Procs : SpawnLink(p, c)

Next ==
    \/ \E p \in Procs :
          \/ \E s \in Sems : Wait(p, s) \/ Post(p, s)
          \/ WaitSyscall(p)
          \/ PostSyscall(p)
          \/ Spawn(p)
          \/ Yield(p)
          \/ Exit(p)
    \/ PendSV
    \/ SysTick

Spec == Init /\ [][Next]_vars

(* The interrupts keep coming and the handlers keep running.  The period of *)
(* SysTick is a millisecond and a ldrex/strex pair a few instructions, so   *)
(* it cannot hit every pair: strong fairness on the successful stores.      *)
Fairness ==
    /\ WF_vars(SysTick /\ ~pendsv /\ pendsv')
    /\ WF_vars(PendSV)
    /\ \A p \in Procs :
          /\ WF_vars(WaitSyscall(p))
          /\ WF_vars(PostSyscall(p))
          /\ SF_vars(WaitStore(p) /\ monitor)
          /\ SF_vars(PostStore(p) /\ monitor)

FairSpec == Spec /\ Fairness

-----------------------------------------------------------------------------
(* Properties.                                                              *)

(* The values every variable may take.                                      *)
Typed ==
    /\ ring \in Seq(Procs)
    /\ current \in Procs
    /\ cpu \in CpuStates
    /\ state \in [Procs -> {"Ready", "Blocked", "None"}]
    /\ locks \in [Procs -> SUBSET Sems]
    /\ pid \in [Procs -> Nat]
    /\ pidCounter \in Nat
    /\ value \in [Sems -> Nat]
    /\ pc \in [Procs -> Labels]
    /\ sem \in [Procs -> Sems \cup {NoSem}]
    /\ reg \in [Procs -> Nat]
    /\ monitor \in BOOLEAN
    /\ pendsv \in BOOLEAN
    /\ holders \in [Sems -> SUBSET Procs]
    /\ posted \in [Sems -> Nat]

(* Every variable is of its type, the list of processes holds every process *)
(* that was created and not deleted, each once, and current_process_ refers *)
(* to one of its nodes: delete_process moves it on before it erases one     *)
(* (process_manager.hpp), and exits, spawns and switches come in any order. *)
TypeOK ==
    /\ Typed
    /\ \A i, j \in DOMAIN ring : ring[i] = ring[j] => i = j
    /\ InRing = {p \in Procs : state[p] # "None"}
    /\ current \in InRing

(* No wakeup is lost: whoever is Blocked waits in semaphore_wait for one    *)
(* semaphore that is 0, or that is being posted right now by a handler that *)
(* has still to call unblock_all (semaphore.s: the test of the value and    *)
(* block() are several instructions apart).                                 *)
NoLostWakeup ==
    \A p \in Procs : state[p] = "Blocked" =>
        /\ pc[p] = "w_yield"
        /\ locks[p] = {sem[p]}
        /\ \/ value[sem[p]] = 0
           \/ pc[current] = "p_unblock" /\ sem[current] = sem[p]

(* Units are neither lost nor invented across preemption, retries and the   *)
(* switch inside block(): for a Mutex (initial value 1, posted only by its  *)
(* holder) this is mutual exclusion.                                        *)
Conservation ==
    \A s \in Sems :
        value[s] + Cardinality(holders[s]) = InitValue[s] + posted[s]

(* schedule_next always finds a process and current_process_ never dangles. *)
(* This needs the processes to nest their locks in one order and to release *)
(* them before they exit; otherwise everybody can be Blocked, and           *)
(* schedule_next then spins inside PendSV.                                  *)
SchedulerNeverStops == cpu = "run" /\ current \in InRing

(* A process that executes is in the list and Ready: one that is Blocked    *)
(* gets no instruction until a post unblocks it.                            *)
OnlyReadyRuns ==
    cpu = "run" /\ pc[current] # "w_yield" =>
        current \in InRing /\ state[current] = "Ready"

(* No two processes of the list share a pid, so that delete_process(pid)    *)
(* erases the process that exits and no other (KernelProofs; with two       *)
(* spawners it is ExitRemovesCaller that shows what happens).               *)
UniquePids ==
    \A i, j \in DOMAIN ring : pid[ring[i]] = pid[ring[j]] => i = j

(* "Life of this process finished, waiting for kill by scheduler"           *)
(* (syscalls.cpp, _exit): after process_exit a process is not in the list.  *)
ExitRemovesCaller == \A p \in Procs : pc[p] = "exited" => p \notin InRing

(* A process that is Ready gets the core, however the others yield, block   *)
(* and exit.                                                                *)
ReadyGetsCore ==
    \A p \in Procs : state[p] = "Ready" ~> (current = p \/ state[p] # "Ready")

(* The kernel implements the semaphores its system calls promise: a process *)
(* asks from the SVC until its strex succeeds.                              *)
Waiting == [p \in Procs |->
               IF pc[p] \in InWait \cup {"w_yield"} THEN sem[p] ELSE NoSem]

Abstract == INSTANCE Semaphores WITH waiting <- Waiting

ImplementsSemaphores     == Abstract!Spec
ImplementsFairSemaphores == Abstract!FairSpec
=============================================================================
