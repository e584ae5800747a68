---------------------------- MODULE KernelProofs ----------------------------
(***************************************************************************)
(* Proofs about Kernel for any number of processes and semaphores, any     *)
(* initial values and any of the client disciplines.                       *)
(*                                                                         *)
(* Two hypotheses, stated in every theorem that needs them: one process    *)
(* at most calls spawn (pid_counter++ is not atomic), and the root process *)
(* never returns (main.cpp: kernel_process ends in while (true) yield()).  *)
(***************************************************************************)
EXTENDS Kernel, SequenceTheorems, FiniteSetTheorems, InductionLemmas, TLAPS

OneSpawner == \A p, q \in Spawners : p = q
RootStays  == Root \notin Returning

Elements(r) == {r[i] : i \in DOMAIN r}

Injective(r) == \A i, j \in DOMAIN r : r[i] = r[j] => i = j

-----------------------------------------------------------------------------
(* The inductive invariant.                                                 *)

(* The list holds the processes that exist, once each; current_process_     *)
(* points into it and the root never leaves it.                             *)
RingInv ==
    /\ Injective(ring)
    /\ \A p \in Procs : p \in InRing <=> pc[p] \notin {"none", "dead"}
    /\ \A p \in Procs : pc[p] # "exited"
    /\ \A p \in Procs : p \in InRing <=> state[p] # "None"
    /\ Root \in InRing
    /\ current \in InRing
    /\ cpu \in {"run", "spin"}

(* pid_counter is ahead of every pid, also while spawn is half done.        *)
PidInv ==
    /\ UniquePids
    /\ \A p \in InRing : pid[p] < pidCounter
    /\ \A p \in Procs : pc[p] \in {"s_store", "s_link"} => p \in Spawners
    /\ \A p \in Procs : pc[p] = "s_store" => reg[p] = pidCounter
    /\ \A p \in Procs : pc[p] = "s_link" =>
          /\ reg[p] < pidCounter
          /\ \A q \in InRing : pid[q] # reg[p]

(* Only the current process is inside a handler, and the register of the    *)
(* ldrex/strex pair is up to date as long as the monitor is set.            *)
HandlerInv ==
    \A p \in Procs :
        /\ pc[p] \in InHandler => p = current
        /\ pc[p] \in InHandler \cup {"w_yield"} => sem[p] \in Sems
        /\ pc[p] = "w_block" => value[sem[p]] = 0
        /\ monitor /\ pc[p] = "w_store" => reg[p] = value[sem[p]] /\ reg[p] > 0
        /\ monitor /\ pc[p] = "p_store" => reg[p] = value[sem[p]]

LocksInv == \A p \in Procs : state[p] # "Blocked" => locks[p] = {}

(* A process that waits does not hold what it waits for, and one that posts *)
(* holds it or is allowed to signal.                                        *)
HolderInv ==
    \A p \in Procs :
        /\ pc[p] \in InWait \cup {"w_yield"} => p \notin holders[sem[p]]
        /\ pc[p] \in {"p_load", "p_store"} =>
              \/ p \in holders[sem[p]]
              \/ p \in Signallers /\ posted[sem[p]] < MaxSignals

IInv ==
    /\ Typed
    /\ RingInv
    /\ PidInv
    /\ HandlerInv
    /\ LocksInv
    /\ NoLostWakeup
    /\ HolderInv
    /\ Conservation

-----------------------------------------------------------------------------
(* The ring.                                                                *)

(* Position finds a member of the list.                                     *)
LEMMA PositionOfMember ==
    ASSUME NEW r \in Seq(Procs), NEW p \in Elements(r)
    PROVE  Position(r, p) \in 1..Len(r) /\ r[Position(r, p)] = p
  BY LenProperties DEF Elements, Position

(* Any number of get_next() calls, up to once around, stays in the list.    *)
LEMMA SuccessorInRing ==
    ASSUME NEW r \in Seq(Procs), NEW p \in Elements(r), NEW k \in 1..Len(r)
    PROVE  Successor(r, p, k) \in Elements(r)
  <1> DEFINE i == Position(r, p) + k
  <1>1. i \in Nat /\ i \in 1..(Len(r) + Len(r))
    BY PositionOfMember, LenProperties
  <1>2. (IF i > Len(r) THEN i - Len(r) ELSE i) \in 1..Len(r)
    BY <1>1, LenProperties
  <1> QED
    BY <1>2, LenProperties DEF Successor, Elements

(* get_next() leads to another process unless the list has only one.        *)
LEMMA GetNextMoves ==
    ASSUME NEW r \in Seq(Procs), Injective(r), NEW p \in Elements(r),
           NEW q \in Elements(r), q # p
    PROVE  GetNext(r, p) # p
  <1>1. Position(r, p) \in 1..Len(r) /\ r[Position(r, p)] = p
    BY PositionOfMember
  <1>2. Position(r, q) \in 1..Len(r) /\ r[Position(r, q)] = q
    BY PositionOfMember
  <1>3. Len(r) \in Nat /\ DOMAIN r = 1..Len(r)
    BY LenProperties
  <1>4. Position(r, p) # Position(r, q)
    BY <1>1, <1>2
  <1> DEFINE i == Position(r, p) + 1
             j == IF i > Len(r) THEN i - Len(r) ELSE i
  <1>5. j \in 1..Len(r) /\ j # Position(r, p)
    BY <1>1, <1>2, <1>3, <1>4
  <1>6. GetNext(r, p) = r[j]
    BY DEF GetNext, Successor
  <1> QED
    BY <1>1, <1>3, <1>5, <1>6 DEF Injective

(* Erasing one node shifts the later ones by one.                           *)
LEMMA RemoveAtProperties ==
    ASSUME NEW r \in Seq(Procs), NEW i \in 1..Len(r)
    PROVE  /\ RemoveAt(r, i) \in Seq(Procs)
           /\ Len(RemoveAt(r, i)) = Len(r) - 1
           /\ \A j \in 1..(Len(r) - 1) :
                 RemoveAt(r, i)[j] = IF j < i THEN r[j] ELSE r[j + 1]
  <1>1. Len(r) \in Nat /\ \A j \in 1..Len(r) : r[j] \in Procs
    BY LenProperties, ElementOfSeq
  <1> DEFINE front == SubSeq(r, 1, i - 1)
             back  == SubSeq(r, i + 1, Len(r))
  <1>2. /\ front \in Seq(Procs)
        /\ Len(front) = i - 1
        /\ \A j \in 1..(i - 1) : front[j] = r[j]
    <2>1. \A j \in 1..(i - 1) : r[j] \in Procs
      BY <1>1
    <2>2. 1 \in Int /\ i - 1 \in Int
      BY <1>1
    <2> HIDE DEF front
    <2>3. /\ front \in Seq(Procs)
          /\ Len(front) = IF 1 <= i - 1 THEN (i - 1) - 1 + 1 ELSE 0
          /\ \A j \in 1..((i - 1) - 1 + 1) : front[j] = r[1 + j - 1]
      BY <2>1, <2>2, SubSeqProperties DEF front
    <2> QED
      BY <1>1, <2>3
  <1>3. /\ back \in Seq(Procs)
        /\ Len(back) = Len(r) - i
        /\ \A j \in 1..(Len(r) - i) : back[j] = r[i + j]
    <2>1. \A j \in (i + 1)..Len(r) : r[j] \in Procs
      BY <1>1
    <2>2. i + 1 \in Int /\ Len(r) \in Int
      BY <1>1
    <2> HIDE DEF back
    <2>3. /\ back \in Seq(Procs)
          /\ Len(back) = IF i + 1 <= Len(r) THEN Len(r) - (i + 1) + 1 ELSE 0
          /\ \A j \in 1..(Len(r) - (i + 1) + 1) : back[j] = r[i + 1 + j - 1]
      BY <2>1, <2>2, SubSeqProperties DEF back
    <2> QED
      BY <1>1, <2>3
  <1> HIDE DEF front, back
  <1>4. /\ front \o back \in Seq(Procs)
        /\ Len(front \o back) = Len(front) + Len(back)
        /\ \A j \in 1..(Len(front) + Len(back)) :
              (front \o back)[j] = IF j <= Len(front) THEN front[j] ELSE back[j - Len(front)]
    BY <1>2, <1>3, ConcatProperties, Zenon
  <1>5. RemoveAt(r, i) = front \o back
    BY DEF RemoveAt, front, back
  <1>6. Len(front) + Len(back) = Len(r) - 1
    BY <1>1, <1>2, <1>3
  <1>7. ASSUME NEW j \in 1..(Len(r) - 1)
        PROVE  RemoveAt(r, i)[j] = IF j < i THEN r[j] ELSE r[j + 1]
    <2>1. CASE j < i
      BY <2>1, <1>1, <1>2, <1>4, <1>5, <1>6
    <2>2. CASE j >= i
      <3>1. j - Len(front) \in 1..(Len(r) - i)
        BY <2>2, <1>1, <1>2
      <3>2. i + (j - Len(front)) = j + 1
        BY <2>2, <1>1, <1>2
      <3>3. ~(j <= Len(front)) /\ ~(j < i)
        BY <2>2, <1>1, <1>2
      <3>4. back[j - Len(front)] = r[j + 1]
        BY <3>1, <3>2, <1>3
      <3> QED
        BY <3>3, <3>4, <1>4, <1>5, <1>6
    <2> QED
      BY <2>1, <2>2, <1>1
  <1> QED
    BY <1>4, <1>5, <1>6, <1>7

(* Erasing a node of a list without duplicates removes just that process.   *)
LEMMA EraseElement ==
    ASSUME NEW r \in Seq(Procs), NEW i \in 1..Len(r), Injective(r)
    PROVE  /\ RemoveAt(r, i) \in Seq(Procs)
           /\ Injective(RemoveAt(r, i))
           /\ Elements(RemoveAt(r, i)) = Elements(r) \ {r[i]}
  <1> DEFINE q == RemoveAt(r, i)
             n == Len(r)
             Old(j) == IF j < i THEN j ELSE j + 1
  <1>1. n \in Nat /\ DOMAIN r = 1..n
    BY LenProperties
  <1>2. /\ q \in Seq(Procs)
        /\ Len(q) = n - 1
        /\ \A j \in 1..(n - 1) : q[j] = r[Old(j)]
    BY RemoveAtProperties
  <1>3. DOMAIN q = 1..(n - 1)
    BY <1>2, LenProperties
  <1> HIDE DEF q
  <1>4. \A j \in 1..(n - 1) : Old(j) \in 1..n /\ Old(j) # i
    BY <1>1
  <1>5. \A j \in 1..n : j # i => \E h \in 1..(n - 1) : Old(h) = j
    <2> SUFFICES ASSUME NEW j \in 1..n, j # i
                 PROVE  \E h \in 1..(n - 1) : Old(h) = j
      OBVIOUS
    <2>1. CASE j < i
      <3>1. j \in 1..(n - 1) /\ Old(j) = j
        BY <2>1, <1>1
      <3> QED
        BY <3>1
    <2>2. CASE j > i
      <3>1. j - 1 \in 1..(n - 1) /\ Old(j - 1) = j
        BY <2>2, <1>1
      <3> QED
        BY <3>1
    <2> QED
      BY <2>1, <2>2, <1>1
  <1>6. Injective(q)
    <2> SUFFICES ASSUME NEW j \in 1..(n - 1), NEW h \in 1..(n - 1), q[j] = q[h]
                 PROVE  j = h
      BY <1>3 DEF Injective
    <2>1. Old(j) = Old(h)
      BY <1>1, <1>2, <1>4 DEF Injective
    <2> QED
      BY <2>1, <1>1
  <1>7. Elements(q) \subseteq Elements(r) \ {r[i]}
    BY SMTT(60), <1>1, <1>2, <1>3, <1>4 DEF Elements, Injective
  <1>8. Elements(r) \ {r[i]} \subseteq Elements(q)
    <2> SUFFICES ASSUME NEW j \in 1..n, r[j] # r[i]
                 PROVE  r[j] \in Elements(q)
      BY <1>1 DEF Elements
    <2>1. PICK h \in 1..(n - 1) : Old(h) = j
      BY <1>5
    <2>2. q[h] = r[j]
      BY <2>1, <1>2
    <2> QED
      BY <2>2, <1>3 DEF Elements
  <1> QED
    BY <1>2, <1>6, <1>7, <1>8 DEF q

(* emplace_back of a process that is not in the list.                       *)
LEMMA AppendElement ==
    ASSUME NEW r \in Seq(Procs), NEW p \in Procs, Injective(r), p \notin Elements(r)
    PROVE  /\ Append(r, p) \in Seq(Procs)
           /\ Injective(Append(r, p))
           /\ Elements(Append(r, p)) = Elements(r) \cup {p}
  <1> DEFINE q == Append(r, p)
             n == Len(r)
  <1>1. n \in Nat /\ DOMAIN r = 1..n
    BY LenProperties
  <1>2. /\ q \in Seq(Procs)
        /\ Len(q) = n + 1
        /\ \A i \in 1..n : q[i] = r[i]
        /\ q[n + 1] = p
    BY AppendProperties
  <1>3. DOMAIN q = 1..(n + 1)
    BY <1>2, LenProperties
  <1> HIDE DEF q
  <1>4. \A i \in 1..(n + 1) : i \in 1..n \/ i = n + 1
    BY <1>1
  <1>5. 1..n \subseteq 1..(n + 1) /\ n + 1 \in 1..(n + 1)
    BY <1>1
  <1>6. Injective(q)
    BY <1>1, <1>2, <1>3, <1>4 DEF Injective, Elements
  <1>7. Elements(q) = Elements(r) \cup {p}
    BY <1>1, <1>2, <1>3, <1>4, <1>5 DEF Elements
  <1> QED
    BY <1>2, <1>6, <1>7 DEF q

(* switch_to_next_task stays in the list, dispatches a process that is      *)
(* Ready, and moves no label but that of a dispatched semaphore_wait.       *)
LEMMA SwitchStep ==
    ASSUME NEW r \in Seq(Procs), NEW c \in Elements(r),
           NEW pcs \in [Procs -> Labels],
           reg \in [Procs -> Nat],
           \A p \in Procs : pcs[p] # "exited",
           Switch(r, c, pcs)
    PROVE  /\ current' \in Elements(r)
           /\ cpu' \in {"run", "spin"}
           /\ pc' \in [Procs -> Labels]
           /\ reg' \in [Procs -> Nat]
           /\ \A p \in Procs :
                 \/ pc'[p] = pcs[p] /\ reg'[p] = reg[p]
                 \/ /\ p = current'
                    /\ pcs[p] = "w_yield"
                    /\ state[p] = "Ready"
                    /\ pc'[p] = "w_store"
  <1>1. ASSUME NEW k \in 1..Len(r), ScheduleNext(r, c, k),
               Dispatch(Successor(r, c, k), pcs)
        PROVE  /\ current' \in Elements(r)
               /\ cpu' \in {"run", "spin"}
               /\ pc' \in [Procs -> Labels]
               /\ reg' \in [Procs -> Nat]
               /\ \A p \in Procs :
                     \/ pc'[p] = pcs[p] /\ reg'[p] = reg[p]
                     \/ /\ p = current'
                        /\ pcs[p] = "w_yield"
                        /\ state[p] = "Ready"
                        /\ pc'[p] = "w_store"
    <2> DEFINE n == Successor(r, c, k)
    <2>1. n \in Elements(r)
      BY SuccessorInRing
    <2>2. n \in Procs
      BY <2>1, LenProperties, ElementOfSeq DEF Elements
    <2>3. current' = n /\ state[n] = "Ready"
      BY <1>1 DEF Dispatch, ScheduleNext
    <2>4. cpu' = "run"
      BY <1>1, <2>2 DEF Dispatch
    <2> HIDE DEF n
    <2>5. CASE pcs[n] = "w_yield"
      <3>1. PICK clobbered \in 0..1 : reg' = [reg EXCEPT ![n] = clobbered]
        BY <2>5, <1>1 DEF Dispatch, n
      <3>2. pc' = [pcs EXCEPT ![n] = "w_store"]
        BY <2>5, <1>1 DEF Dispatch, n
      <3>3. "w_store" \in Labels
        BY DEF Labels, InHandler, InWait
      <3> QED
        BY <2>1, <2>2, <2>3, <2>4, <2>5, <3>1, <3>2, <3>3
    <2>6. CASE pcs[n] # "w_yield"
      <3>1. pc' = pcs /\ reg' = reg
        BY <2>6, <1>1 DEF Dispatch, n
      <3> QED
        BY <2>1, <2>3, <2>4, <3>1
    <2> QED
      BY <2>5, <2>6
  <1>2. CASE cpu' = "spin" /\ current' = c /\ pc' = pcs /\ UNCHANGED reg
    BY <1>2
  <1> QED
    BY <1>1, <1>2 DEF Switch

-----------------------------------------------------------------------------
(* What the system calls leave alone: p moves on inside its system call, or *)
(* enters or leaves it; the process table and the others stay as they are.  *)

SyscallLabels == InHandler \cup {"user", "w_yield"}

SyscallMove(p) ==
    /\ UNCHANGED <<ring, current, cpu, shared>>
    /\ \A q \in Procs : state'[q] = "None" <=> state[q] = "None"
    /\ \A q \in Procs :
          \/ pc'[q] = pc[q] /\ reg'[q] = reg[q]
          \/ q = p /\ pc[q] \in SyscallLabels /\ pc'[q] \in SyscallLabels

(* A move inside a system call disturbs neither the list nor the pids.      *)
LEMMA SyscallKeepsTable ==
    ASSUME RingInv, PidInv, NEW p \in Procs, SyscallMove(p)
    PROVE  RingInv' /\ PidInv'
  <1> USE DEF SyscallMove, SyscallLabels, InHandler, InWait, InPost, shared
  <1>1. InRing' = InRing
    BY DEF InRing
  <1>2. \A q \in Procs : pc'[q] \in {"none", "dead", "exited", "s_store", "s_link"} =>
                            pc'[q] = pc[q] /\ reg'[q] = reg[q]
    OBVIOUS
  <1>3. \A q \in Procs : pc[q] \in {"none", "dead", "exited", "s_store", "s_link"} =>
                            pc'[q] = pc[q]
    OBVIOUS
  <1>4. RingInv'
    BY <1>1, <1>2, <1>3 DEF RingInv, Injective
  <1>5. PidInv'
    BY <1>1, <1>2 DEF PidInv, UniquePids
  <1> QED
    BY <1>4, <1>5

-----------------------------------------------------------------------------
(* Every action preserves the invariant.                                    *)

(* Entering semaphore_wait preserves the invariant.                         *)
LEMMA WaitStep ==
    ASSUME IInv, NEW p \in Procs, NEW s \in Sems, Wait(p, s)
    PROVE  IInv'
  <1> USE DEF IInv, Wait, At, User, Goto, sched, shared, ghosts
  <1>1. SyscallMove(p)
    BY DEF SyscallMove, SyscallLabels, Typed, InHandler, InWait, InPost
  <1>2. RingInv' /\ PidInv'
    BY <1>1, SyscallKeepsTable
  <1>3. Typed'
    BY KernelAssumption DEF Typed, HandlerInv, Labels, ThreadMode, InHandler, InWait, InPost
  <1>4. HandlerInv'
    BY KernelAssumption DEF Typed, HandlerInv, Labels, ThreadMode, InHandler, InWait, InPost
  <1>5. LocksInv'
    BY KernelAssumption DEF Typed, LocksInv
  <1>6. NoLostWakeup'
    BY KernelAssumption DEF Typed, NoLostWakeup, HandlerInv, LocksInv, Labels, ThreadMode, InHandler, InWait, InPost
  <1>7. HolderInv'
    BY KernelAssumption DEF Typed, HolderInv, HandlerInv, Held, Labels, ThreadMode, InHandler, InWait, InPost
  <1>8. Conservation'
    BY KernelAssumption DEF Conservation
  <1> QED
    BY <1>2, <1>3, <1>4, <1>5, <1>6, <1>7, <1>8

(* The ldrex of semaphore_wait preserves it: a value of 0 stays 0 until     *)
(* block(), because only the current process is inside a handler.           *)
LEMMA WaitLoadStep ==
    ASSUME IInv, NEW p \in Procs, WaitLoad(p)
    PROVE  IInv'
  <1> USE DEF IInv, WaitLoad, At, User, Goto, sched, shared, ghosts
  <1>1. SyscallMove(p)
    BY DEF SyscallMove, SyscallLabels, Typed, InHandler, InWait, InPost
  <1>2. RingInv' /\ PidInv'
    BY <1>1, SyscallKeepsTable
  <1>3. Typed'
    BY KernelAssumption DEF Typed, HandlerInv, Labels, ThreadMode, InHandler, InWait, InPost
  <1>4. HandlerInv'
    <2>1. value[sem[p]] \in Nat
      BY DEF Typed, HandlerInv, InHandler, InWait
    <2>2. CASE value[sem[p]] = 0
      BY <2>2 DEF Typed, HandlerInv, InHandler, InWait, InPost
    <2>3. CASE value[sem[p]] # 0
      BY <2>1, <2>3 DEF Typed, HandlerInv, InHandler, InWait, InPost
    <2> QED
      BY <2>2, <2>3
  <1>5. LocksInv'
    BY KernelAssumption DEF Typed, LocksInv
  <1>6. NoLostWakeup'
    BY KernelAssumption DEF Typed, NoLostWakeup, HandlerInv, LocksInv, Labels, ThreadMode, InHandler, InWait, InPost
  <1>7. HolderInv'
    BY KernelAssumption DEF Typed, HolderInv, HandlerInv, Held, Labels, ThreadMode, InHandler, InWait, InPost
  <1>8. Conservation'
    BY KernelAssumption DEF Conservation
  <1> QED
    BY <1>2, <1>3, <1>4, <1>5, <1>6, <1>7, <1>8

(* block() preserves it: the process Blocked is the only one on its way to  *)
(* wait, and the value it saw is still 0.                                   *)
LEMMA BlockStep ==
    ASSUME IInv, NEW p \in Procs, Block(p)
    PROVE  IInv'
  <1> USE DEF IInv, Block, BlockOn, At, User, Goto, sched, shared, ghosts
  <1>1. SyscallMove(p)
    BY DEF SyscallMove, SyscallLabels, Typed, RingInv, InHandler, InWait, InPost
  <1>2. RingInv' /\ PidInv'
    BY <1>1, SyscallKeepsTable
  <1>3. Typed'
    <2>1. sem[p] \in Sems
      BY DEF HandlerInv, InHandler, InWait
    <2>2. locks' \in [Procs -> SUBSET Sems]
      BY <2>1 DEF Typed
    <2>3. pc' \in [Procs -> Labels]
      BY DEF Typed, Labels
    <2> QED
      BY <2>2, <2>3 DEF Typed
  <1>4. HandlerInv'
    BY KernelAssumption DEF Typed, HandlerInv, Labels, ThreadMode, InHandler, InWait, InPost
  <1>5. LocksInv'
    BY KernelAssumption DEF Typed, LocksInv
  <1>6. NoLostWakeup'
    BY KernelAssumption DEF Typed, NoLostWakeup, HandlerInv, LocksInv, Labels, ThreadMode, InHandler, InWait, InPost
  <1>7. HolderInv'
    BY KernelAssumption DEF Typed, HolderInv, HandlerInv, Held, Labels, ThreadMode, InHandler, InWait, InPost
  <1>8. Conservation'
    BY KernelAssumption DEF Conservation
  <1> QED
    BY <1>2, <1>3, <1>4, <1>5, <1>6, <1>7, <1>8

(* Entering semaphore_post preserves the invariant.                         *)
LEMMA PostStep ==
    ASSUME IInv, NEW p \in Procs, NEW s \in Sems, Post(p, s)
    PROVE  IInv'
  <1> USE DEF IInv, Post, At, User, Goto, sched, shared, ghosts
  <1>1. SyscallMove(p)
    BY DEF SyscallMove, SyscallLabels, Typed, InHandler, InWait, InPost
  <1>2. RingInv' /\ PidInv'
    BY <1>1, SyscallKeepsTable
  <1>3. Typed'
    BY KernelAssumption DEF Typed, HandlerInv, Labels, ThreadMode, InHandler, InWait, InPost
  <1>4. HandlerInv'
    BY KernelAssumption DEF Typed, HandlerInv, Labels, ThreadMode, InHandler, InWait, InPost
  <1>5. LocksInv'
    BY KernelAssumption DEF Typed, LocksInv
  <1>6. NoLostWakeup'
    BY KernelAssumption DEF Typed, NoLostWakeup, HandlerInv, LocksInv, Labels, ThreadMode, InHandler, InWait, InPost
  <1>7. HolderInv'
    BY KernelAssumption DEF Typed, HolderInv, HandlerInv, Held, Labels, ThreadMode, InHandler, InWait, InPost
  <1>8. Conservation'
    BY KernelAssumption DEF Conservation
  <1> QED
    BY <1>2, <1>3, <1>4, <1>5, <1>6, <1>7, <1>8

(* The ldrex of semaphore_post preserves the invariant.                     *)
LEMMA PostLoadStep ==
    ASSUME IInv, NEW p \in Procs, PostLoad(p)
    PROVE  IInv'
  <1> USE DEF IInv, PostLoad, At, User, Goto, sched, shared, ghosts
  <1>1. SyscallMove(p)
    BY DEF SyscallMove, SyscallLabels, Typed, InHandler, InWait, InPost
  <1>2. RingInv' /\ PidInv'
    BY <1>1, SyscallKeepsTable
  <1>3. Typed'
    BY KernelAssumption DEF Typed, HandlerInv, Labels, ThreadMode, InHandler, InWait, InPost
  <1>4. HandlerInv'
    BY KernelAssumption DEF Typed, HandlerInv, Labels, ThreadMode, InHandler, InWait, InPost
  <1>5. LocksInv'
    BY KernelAssumption DEF Typed, LocksInv
  <1>6. NoLostWakeup'
    BY KernelAssumption DEF Typed, NoLostWakeup, HandlerInv, LocksInv, Labels, ThreadMode, InHandler, InWait, InPost
  <1>7. HolderInv'
    BY KernelAssumption DEF Typed, HolderInv, HandlerInv, Held, Labels, ThreadMode, InHandler, InWait, InPost
  <1>8. Conservation'
    BY KernelAssumption DEF Conservation
  <1> QED
    BY <1>2, <1>3, <1>4, <1>5, <1>6, <1>7, <1>8

(* unblock_all preserves it: nobody stays Blocked on the semaphore that has *)
(* just become available.                                                   *)
LEMMA PostUnblockStep ==
    ASSUME IInv, NEW p \in Procs, PostUnblock(p)
    PROVE  IInv'
  <1> USE DEF IInv, PostUnblock, Unblock, At, User, Goto, sched, shared, ghosts
  <1>1. SyscallMove(p)
    <2>1. \A q \in Procs : state'[q] = "None" <=> state[q] = "None"
      BY DEF RingInv
    <2>2. \A q \in Procs :
             \/ pc'[q] = pc[q] /\ reg'[q] = reg[q]
             \/ q = p /\ pc[q] \in SyscallLabels /\ pc'[q] \in SyscallLabels
      BY DEF Typed, SyscallLabels, InHandler, InPost
    <2> QED
      BY <2>1, <2>2 DEF SyscallMove
  <1>2. RingInv' /\ PidInv'
    BY <1>1, SyscallKeepsTable
  <1>3. Typed'
    BY KernelAssumption DEF Typed, HandlerInv, Labels, ThreadMode, InHandler, InWait, InPost
  <1>4. HandlerInv'
    BY KernelAssumption DEF Typed, HandlerInv, Labels, ThreadMode, InHandler, InWait, InPost
  <1>5. LocksInv'
    BY KernelAssumption DEF Typed, LocksInv
  <1>6. NoLostWakeup'
    <2> SUFFICES ASSUME NEW q \in Procs, state'[q] = "Blocked"
                 PROVE  /\ pc'[q] = "w_yield"
                        /\ locks'[q] = {sem'[q]}
                        /\ value'[sem'[q]] = 0
      BY DEF NoLostWakeup
    <2>1. state[q] = "Blocked"
      BY DEF Typed
    <2>2. pc[q] = "w_yield" /\ locks[q] = {sem[q]} /\ q # p
      BY <2>1 DEF NoLostWakeup
    <2>3. q \in InRing
      BY <2>1 DEF RingInv
    <2>4. sem[q] # sem[p]
      BY <2>1, <2>2, <2>3
    <2>5. value[sem[q]] = 0
      BY <2>1, <2>4 DEF NoLostWakeup
    <2>6. pc'[q] = pc[q] /\ sem'[q] = sem[q] /\ locks'[q] = locks[q]
      BY <2>2, <2>4 DEF Typed
    <2> QED
      BY <2>2, <2>5, <2>6
  <1>7. HolderInv'
    BY KernelAssumption DEF Typed, HolderInv, HandlerInv, Held, Labels, ThreadMode, InHandler, InWait, InPost
  <1>8. Conservation'
    BY KernelAssumption DEF Conservation
  <1> QED
    BY <1>2, <1>3, <1>4, <1>5, <1>6, <1>7, <1>8

(* yield() preserves the invariant.                                         *)
LEMMA YieldStep ==
    ASSUME IInv, NEW p \in Procs, Yield(p)
    PROVE  IInv'
  <1> USE DEF IInv, Yield, At, User, Goto, sched, shared, ghosts
  <1>1. SyscallMove(p)
    BY DEF SyscallMove, SyscallLabels, Typed, InHandler, InWait, InPost
  <1>2. RingInv' /\ PidInv'
    BY <1>1, SyscallKeepsTable
  <1>3. Typed'
    BY KernelAssumption DEF Typed, HandlerInv, Labels, ThreadMode, InHandler, InWait, InPost
  <1>4. HandlerInv'
    BY KernelAssumption DEF Typed, HandlerInv, Labels, ThreadMode, InHandler, InWait, InPost
  <1>5. LocksInv'
    BY KernelAssumption DEF Typed, LocksInv
  <1>6. NoLostWakeup'
    BY KernelAssumption DEF Typed, NoLostWakeup, HandlerInv, LocksInv, Labels, ThreadMode, InHandler, InWait, InPost
  <1>7. HolderInv'
    BY KernelAssumption DEF Typed, HolderInv, HandlerInv, Held, Labels, ThreadMode, InHandler, InWait, InPost
  <1>8. Conservation'
    BY KernelAssumption DEF Conservation
  <1> QED
    BY <1>2, <1>3, <1>4, <1>5, <1>6, <1>7, <1>8

(* Finite sets of processes gain or lose one member at a time.              *)
LEMMA HolderCount ==
    ASSUME NEW S \in SUBSET Procs, NEW p \in Procs
    PROVE  /\ Cardinality(S) \in Nat
           /\ p \notin S => Cardinality(S \cup {p}) = Cardinality(S) + 1
           /\ p \in S => Cardinality(S \ {p}) = Cardinality(S) - 1
  <1>1. IsFiniteSet(S)
    BY KernelAssumption, FS_Subset
  <1>2. Cardinality(S) \in Nat
    BY <1>1, FS_CardinalityType
  <1>3. p \notin S => Cardinality(S \cup {p}) = Cardinality(S) + 1
    BY <1>1, FS_AddElement
  <1>4. p \in S => Cardinality(S \ {p}) = Cardinality(S) - 1
    BY <1>1, FS_RemoveElement
  <1> QED
    BY <1>2, <1>3, <1>4

(* The strex of semaphore_wait preserves it: with the monitor still set it  *)
(* takes one of the units it loaded, otherwise it goes back to the ldrex.   *)
LEMMA WaitStoreStep ==
    ASSUME IInv, NEW p \in Procs, WaitStore(p)
    PROVE  IInv'
  <1> USE DEF IInv, At, Goto, sched, shared, ghosts
  <1> DEFINE s == sem[p]
  <1>1. p = current /\ pc[p] = "w_store" /\ s \in Sems
    BY DEF WaitStore, HandlerInv, InHandler, InWait
  <1>2. SyscallMove(p)
    BY DEF WaitStore, SyscallMove, SyscallLabels, Typed, InHandler, InWait
  <1>3. RingInv' /\ PidInv'
    BY <1>2, SyscallKeepsTable
  <1>4. LocksInv'
    BY DEF WaitStore, LocksInv
  <1>5. CASE ~monitor
    <2> USE <1>1, <1>5 DEF WaitStore
    <2>1. Typed'
      BY DEF Typed, Labels, InHandler, InWait
    <2>2. HandlerInv'
      BY DEF Typed, HandlerInv, InHandler, InWait, InPost
    <2>3. NoLostWakeup'
      BY DEF Typed, NoLostWakeup
    <2>4. HolderInv'
      BY DEF Typed, HolderInv, InWait
    <2>5. Conservation'
      BY DEF Conservation
    <2> QED
      BY <1>3, <1>4, <2>1, <2>2, <2>3, <2>4, <2>5
  <1>6. CASE monitor
    <2>1. /\ value' = [value EXCEPT ![s] = reg[p] - 1]
          /\ holders' = [holders EXCEPT ![s] = @ \cup {p}]
          /\ sem' = [sem EXCEPT ![p] = NoSem]
          /\ pc' = [pc EXCEPT ![p] = "user"]
          /\ reg' = [reg EXCEPT ![p] = 0]
          /\ monitor' = FALSE
          /\ UNCHANGED <<ring, current, cpu, state, locks, pid, pidCounter, pendsv, posted>>
      BY <1>6 DEF WaitStore
    <2>2. reg[p] = value[s] /\ value[s] \in Nat /\ value[s] > 0
      BY <1>1, <1>6 DEF HandlerInv, Typed
    <2>3. p \notin holders[s] /\ holders[s] \in SUBSET Procs
      BY <1>1 DEF HolderInv, Typed, InWait
    <2> HIDE DEF s
    <2>4. Typed'
      <3>1. value' \in [Sems -> Nat]
        BY <1>1, <2>1, <2>2 DEF Typed
      <3>2. holders' \in [Sems -> SUBSET Procs]
        BY <1>1, <2>1, <2>3 DEF Typed
      <3>3. pc' \in [Procs -> Labels] /\ reg' \in [Procs -> Nat]
        BY <2>1 DEF Typed, Labels, ThreadMode
      <3> QED
        BY <2>1, <3>1, <3>2, <3>3 DEF Typed
    <2>5. HandlerInv'
      BY <1>1, <2>1 DEF Typed, HandlerInv, InHandler, InWait, InPost
    <2>6. NoLostWakeup'
      <3> SUFFICES ASSUME NEW q \in Procs, state[q] = "Blocked"
                   PROVE  /\ pc'[q] = "w_yield"
                          /\ locks[q] = {sem'[q]}
                          /\ value'[sem'[q]] = 0
        BY <2>1 DEF NoLostWakeup
      <3>1. pc[q] = "w_yield" /\ locks[q] = {sem[q]} /\ value[sem[q]] = 0
        BY <1>1 DEF NoLostWakeup
      <3>2. q # p /\ sem[q] # s
        BY <1>1, <2>2, <3>1
      <3>3. sem[q] \in Sems
        BY <3>1 DEF HandlerInv
      <3> QED
        BY <1>1, <2>1, <3>1, <3>2, <3>3 DEF Typed
    <2>7. HolderInv'
      BY <1>1, <2>1 DEF Typed, HolderInv, HandlerInv, InHandler, InWait, InPost
    <2>8. Conservation'
      <3> SUFFICES ASSUME NEW t \in Sems
                   PROVE  value'[t] + Cardinality(holders'[t]) = InitValue[t] + posted[t]
        BY <2>1 DEF Conservation
      <3>1. CASE t = s
        <4>1. Cardinality(holders'[t]) = Cardinality(holders[t]) + 1
          BY <3>1, <1>1, <2>1, <2>3, HolderCount DEF Typed
        <4>2. value'[t] = value[t] - 1
          BY <3>1, <1>1, <2>1, <2>2 DEF Typed
        <4>3. Cardinality(holders[t]) \in Nat
          BY HolderCount DEF Typed
        <4> QED
          BY <3>1, <4>1, <4>2, <4>3, <2>2 DEF Conservation
      <3>2. CASE t # s
        BY <3>2, <1>1, <2>1 DEF Typed, Conservation
      <3> QED
        BY <3>1, <3>2
    <2> QED
      BY <1>3, <1>4, <2>4, <2>5, <2>6, <2>7, <2>8
  <1> QED
    BY <1>5, <1>6

(* The strex of semaphore_post preserves it: a value that becomes positive  *)
(* is covered by the unblock_all that follows.                              *)
LEMMA PostStoreStep ==
    ASSUME IInv, NEW p \in Procs, PostStore(p)
    PROVE  IInv'
  <1> USE DEF IInv, At, Goto, sched, shared, ghosts
  <1> DEFINE s == sem[p]
  <1>1. p = current /\ pc[p] = "p_store" /\ s \in Sems
    BY DEF PostStore, HandlerInv, InHandler, InPost
  <1>2. SyscallMove(p)
    BY DEF PostStore, SyscallMove, SyscallLabels, Typed, InHandler, InPost
  <1>3. RingInv' /\ PidInv'
    BY <1>2, SyscallKeepsTable
  <1>4. LocksInv'
    BY DEF PostStore, LocksInv
  <1>5. CASE ~monitor
    <2> USE <1>1, <1>5 DEF PostStore
    <2>1. Typed'
      BY DEF Typed, Labels, InHandler, InPost
    <2>2. HandlerInv'
      BY DEF Typed, HandlerInv, InHandler, InWait, InPost
    <2>3. NoLostWakeup'
      BY DEF Typed, NoLostWakeup
    <2>4. HolderInv'
      BY DEF Typed, HolderInv, InWait
    <2>5. Conservation'
      BY DEF Conservation
    <2> QED
      BY <1>3, <1>4, <2>1, <2>2, <2>3, <2>4, <2>5
  <1>6. CASE monitor
    <2>1. /\ value' = [value EXCEPT ![s] = reg[p] + 1]
          /\ pc' = [pc EXCEPT ![p] = "p_unblock"]
          /\ reg' = [reg EXCEPT ![p] = 0]
          /\ monitor' = FALSE
          /\ UNCHANGED <<ring, current, cpu, state, locks, pid, pidCounter, sem, pendsv>>
      BY <1>6 DEF PostStore
    <2>2. \/ /\ p \in holders[s]
             /\ holders' = [holders EXCEPT ![s] = @ \ {p}]
             /\ posted' = posted
          \/ /\ p \notin holders[s]
             /\ holders' = holders
             /\ posted' = [posted EXCEPT ![s] = @ + 1]
      BY <1>6 DEF PostStore
    <2>3. reg[p] = value[s] /\ value[s] \in Nat /\ holders[s] \in SUBSET Procs
      BY <1>1, <1>6 DEF HandlerInv, Typed
    <2> HIDE DEF s
    <2>4. Typed'
      <3>1. value' \in [Sems -> Nat]
        BY <1>1, <2>1, <2>3 DEF Typed
      <3>2. holders' \in [Sems -> SUBSET Procs]
        BY SMTT(60), <1>1, <2>2, <2>3 DEF Typed
      <3>3. posted' \in [Sems -> Nat]
        <4>1. posted \in [Sems -> Nat] /\ posted[s] + 1 \in Nat
          BY <1>1 DEF Typed
        <4> QED
          BY <4>1, <2>2
      <3>4. pc' \in [Procs -> Labels] /\ reg' \in [Procs -> Nat]
        BY <2>1 DEF Typed, Labels, InHandler, InPost
      <3> QED
        BY <2>1, <3>1, <3>2, <3>3, <3>4 DEF Typed
    <2>5. HandlerInv'
      BY <1>1, <2>1 DEF Typed, HandlerInv, InHandler, InWait, InPost, s
    <2>6. NoLostWakeup'
      <3> SUFFICES ASSUME NEW q \in Procs, state[q] = "Blocked"
                   PROVE  /\ pc'[q] = "w_yield"
                          /\ locks[q] = {sem[q]}
                          /\ value'[sem[q]] = 0 \/ (pc'[p] = "p_unblock" /\ sem[p] = sem[q])
        BY <1>1, <2>1 DEF NoLostWakeup
      <3>1. pc[q] = "w_yield" /\ locks[q] = {sem[q]} /\ value[sem[q]] = 0
        BY <1>1 DEF NoLostWakeup
      <3>2. q # p /\ sem[q] \in Sems
        BY <1>1, <3>1 DEF HandlerInv
      <3> QED
        BY <1>1, <2>1, <3>1, <3>2 DEF Typed, s
    <2>7. HolderInv'
      <3>1. \A q \in Procs : pc'[q] \in InWait \cup {"w_yield", "p_load", "p_store"} =>
                                q # p /\ pc'[q] = pc[q]
        BY <2>1 DEF Typed, InWait
      <3>2. \A q \in Procs : pc'[q] \in {"p_load", "p_store"} => FALSE
        BY <1>1, <3>1 DEF HandlerInv, InHandler, InPost
      <3>3. \A q \in Procs, t \in Sems : q # p /\ q \notin holders[t] => q \notin holders'[t]
        BY <1>1, <2>2 DEF Typed
      <3>4. \A q \in Procs : pc[q] \in InWait \cup {"w_yield"} => sem[q] \in Sems
        BY DEF HandlerInv, InHandler
      <3> QED
        BY <2>1, <3>1, <3>2, <3>3, <3>4 DEF HolderInv
    <2>8. Conservation'
      <3> SUFFICES ASSUME NEW t \in Sems
                   PROVE  value'[t] + Cardinality(holders'[t]) = InitValue[t] + posted'[t]
        BY DEF Conservation
      <3>1. value[t] + Cardinality(holders[t]) = InitValue[t] + posted[t]
        BY DEF Conservation
      <3>2. InitValue[t] \in Nat /\ posted[t] \in Nat /\ value[t] \in Nat
        BY KernelAssumption DEF Typed
      <3>3. Cardinality(holders[t]) \in Nat
        BY HolderCount DEF Typed
      <3>4. CASE t = s /\ p \in holders[s]
        <4>1. Cardinality(holders'[t]) = Cardinality(holders[t]) - 1
          BY ZenonT(60), <3>4, <1>1, <2>2, <2>3, HolderCount DEF Typed
        <4>2. value'[t] = value[t] + 1 /\ posted'[t] = posted[t]
          BY <3>4, <1>1, <2>1, <2>2, <2>3 DEF Typed
        <4> QED
          BY <3>1, <3>2, <3>3, <4>1, <4>2
      <3>5. CASE t = s /\ p \notin holders[s]
        <4>1. value'[t] = value[t] + 1 /\ posted'[t] = posted[t] + 1 /\ holders'[t] = holders[t]
          BY <3>5, <1>1, <2>1, <2>2, <2>3 DEF Typed
        <4> QED
          BY <3>1, <3>2, <3>3, <4>1
      <3>6. CASE t # s
        <4>1. value'[t] = value[t] /\ posted'[t] = posted[t] /\ holders'[t] = holders[t]
          BY <3>6, <1>1, <2>1, <2>2 DEF Typed
        <4> QED
          BY <3>1, <4>1
      <3> QED
        BY <3>4, <3>5, <3>6
    <2> QED
      BY <1>3, <1>4, <2>4, <2>5, <2>6, <2>7, <2>8
  <1> QED
    BY <1>5, <1>6

(* SysTick preserves it: it clears the monitor, so a pair it falls into     *)
(* does not store.                                                          *)
LEMMA SysTickStep ==
    ASSUME IInv, SysTick
    PROVE  IInv'
  <1> USE DEF IInv, SysTick, sched, shared, ghosts
  <1>1. RingInv' /\ PidInv'
    BY DEF RingInv, PidInv, UniquePids, InRing, Injective
  <1>2. Typed'
    BY DEF Typed
  <1>3. HandlerInv' /\ LocksInv' /\ NoLostWakeup'
    BY DEF HandlerInv, LocksInv, NoLostWakeup
  <1>4. HolderInv' /\ Conservation'
    BY DEF HolderInv, Conservation
  <1> QED
    BY <1>1, <1>2, <1>3, <1>4

-----------------------------------------------------------------------------
(* spawn.  Nobody else is between SpawnLoad and SpawnLink.                  *)

(* The load of pid_counter preserves the invariant.                         *)
LEMMA SpawnLoadStep ==
    ASSUME IInv, OneSpawner, NEW p \in Procs, SpawnLoad(p)
    PROVE  IInv'
  <1> USE DEF IInv, SpawnLoad, User, At, Goto, sched, shared, ghosts
  <1>1. Typed'
    BY DEF Typed, Labels, ThreadMode
  <1>2. RingInv'
    <2>1. InRing' = InRing /\ UNCHANGED <<ring, current, cpu, state>>
      BY DEF InRing
    <2>2. \A q \in Procs : pc'[q] = IF q = p THEN "s_store" ELSE pc[q]
      BY DEF Typed
    <2> QED
      BY <2>1, <2>2 DEF RingInv, Injective
  <1>3. PidInv'
    <2>1. InRing' = InRing /\ UNCHANGED <<ring, pid, pidCounter>>
      BY DEF InRing
    <2>2. \A q \in Procs : pc[q] \in {"s_store", "s_link"} => FALSE
      BY DEF PidInv, OneSpawner
    <2>3. \A q \in Procs : pc'[q] \in {"s_store", "s_link"} => q = p
      BY <2>2 DEF Typed
    <2>4. pc'[p] = "s_store" /\ reg'[p] = pidCounter
      BY DEF Typed
    <2> QED
      BY <2>1, <2>3, <2>4 DEF PidInv, UniquePids
  <1>4. HandlerInv'
    BY DEF Typed, HandlerInv, InHandler, InWait, InPost
  <1>5. LocksInv'
    BY DEF LocksInv
  <1>6. NoLostWakeup'
    BY DEF Typed, NoLostWakeup
  <1>7. HolderInv'
    BY DEF Typed, HolderInv, InWait
  <1>8. Conservation'
    BY DEF Conservation
  <1> QED
    BY <1>1, <1>2, <1>3, <1>4, <1>5, <1>6, <1>7, <1>8

(* The store of pid_counter preserves it, nobody else being between the     *)
(* load and the store.                                                      *)
LEMMA SpawnStoreStep ==
    ASSUME IInv, OneSpawner, NEW p \in Procs, SpawnStore(p)
    PROVE  IInv'
  <1> USE DEF IInv, SpawnStore, At, Goto, sched, ghosts
  <1>1. reg[p] = pidCounter /\ pidCounter' = pidCounter + 1 /\ pidCounter \in Nat
    BY DEF PidInv, Typed
  <1>2. Typed'
    BY <1>1 DEF Typed, Labels, ThreadMode
  <1>3. RingInv'
    <2>1. InRing' = InRing /\ UNCHANGED <<ring, current, cpu, state>>
      BY DEF InRing
    <2>2. \A q \in Procs : pc'[q] = IF q = p THEN "s_link" ELSE pc[q]
      BY DEF Typed
    <2> QED
      BY <2>1, <2>2 DEF RingInv, Injective
  <1>4. PidInv'
    <2>1. InRing' = InRing /\ UNCHANGED <<ring, pid, reg>>
      BY DEF InRing
    <2>2. \A q \in Procs : pc[q] \in {"s_store", "s_link"} => q = p
      BY DEF PidInv, OneSpawner
    <2>3. \A q \in Procs : pc'[q] \in {"s_store", "s_link"} => q = p
      BY <2>2 DEF Typed
    <2>4. pc'[p] = "s_link" /\ p \in Spawners
      BY DEF Typed, PidInv
    <2>5. \A q \in InRing : pid[q] \in Nat /\ pid[q] < pidCounter
      BY LenProperties, ElementOfSeq DEF Typed, PidInv, InRing
    <2>6. reg[p] < pidCounter' /\ \A q \in InRing : pid[q] < pidCounter' /\ pid[q] # reg[p]
      BY <1>1, <2>5
    <2> QED
      BY <2>1, <2>3, <2>4, <2>6 DEF PidInv, UniquePids
  <1>5. HandlerInv'
    BY DEF Typed, HandlerInv, InHandler, InWait, InPost
  <1>6. LocksInv'
    BY DEF LocksInv
  <1>7. NoLostWakeup'
    BY DEF Typed, NoLostWakeup
  <1>8. HolderInv'
    BY DEF Typed, HolderInv, InWait
  <1>9. Conservation'
    BY DEF Conservation
  <1> QED
    BY <1>2, <1>3, <1>4, <1>5, <1>6, <1>7, <1>8, <1>9

(* emplace_back preserves it: the new process has a pid of its own.         *)
LEMMA SpawnLinkStep ==
    ASSUME IInv, OneSpawner, NEW p \in Procs, NEW c \in Procs, SpawnLink(p, c)
    PROVE  IInv'
  <1> USE DEF IInv, At, Goto, ghosts
  <1>1. /\ p = current /\ pc[p] = "s_link" /\ pc[c] = "none" /\ p # c
        /\ ring' = Append(ring, c)
        /\ pid' = [pid EXCEPT ![c] = reg[p]]
        /\ state' = [state EXCEPT ![c] = "Ready"]
        /\ pc' = [pc EXCEPT ![p] = "user", ![c] = "user"]
        /\ reg' = [reg EXCEPT ![p] = 0]
        /\ UNCHANGED <<current, cpu, locks, pidCounter, value, sem, monitor, pendsv,
                       holders, posted>>
    BY DEF SpawnLink
  <1>2. c \notin InRing /\ state[c] = "None"
    BY <1>1 DEF RingInv, Typed
  <1>3. ring' \in Seq(Procs) /\ Injective(ring') /\ InRing' = InRing \cup {c}
    <2>1. InRing = Elements(ring) /\ InRing' = Elements(ring')
      BY DEF InRing, Elements
    <2> QED
      BY <1>1, <1>2, <2>1, AppendElement DEF Typed, RingInv
  <1>4. Typed'
    BY <1>1, <1>3 DEF Typed, Labels, ThreadMode
  <1>5. \A q \in Procs : pc'[q] = IF q = p \/ q = c THEN "user" ELSE pc[q]
    BY <1>1 DEF Typed
  <1>6. \A q \in Procs : state'[q] = IF q = c THEN "Ready" ELSE state[q]
    BY <1>1 DEF Typed
  <1>7. RingInv'
    <2>1. \A q \in Procs : q \in InRing' <=> q \in InRing \/ q = c
      BY <1>3
    <2>2. Injective(ring)' /\ UNCHANGED <<current, cpu>>
      BY <1>1, <1>3 DEF Injective
    <2>3. \A q \in Procs : q \in InRing' <=> pc'[q] \notin {"none", "dead"}
      <3>1. \A q \in Procs : q \in InRing <=> pc[q] \notin {"none", "dead"}
        BY DEF RingInv
      <3>2. \A q \in Procs : pc'[q] \in {"none", "dead"} <=> pc[q] \in {"none", "dead"} /\ q # c
        <4>1. \A q \in Procs : q # p /\ q # c => pc'[q] = pc[q]
          BY <1>5
        <4>2. pc'[p] = "user" /\ pc'[c] = "user"
          BY <1>5
        <4> QED
          BY <1>1, <4>1, <4>2
      <3> QED
        BY <2>1, <3>1, <3>2, <1>5
    <2>4. \A q \in Procs : q \in InRing' <=> state'[q] # "None"
      BY <1>6, <2>1 DEF RingInv
    <2> QED
      BY <1>3, <1>5, <2>2, <2>3, <2>4 DEF RingInv
  <1>8. PidInv'
    <2>1. \A q \in InRing : q \in Procs /\ pid'[q] = pid[q] /\ pid[q] # reg[p] /\ pid[q] < pidCounter
      BY <1>1, <1>2, LenProperties, ElementOfSeq DEF Typed, PidInv, InRing
    <2>2. pid'[c] = reg[p] /\ reg[p] < pidCounter
      BY <1>1 DEF Typed, PidInv
    <2>3. \A q \in InRing' : pid'[q] < pidCounter'
      BY <1>1, <1>3, <2>1, <2>2
    <2>4. \A q \in InRing', h \in InRing' : pid'[q] = pid'[h] => q = h
      <3>1. \A q \in InRing, h \in InRing : pid[q] = pid[h] => q = h
        BY DEF PidInv, UniquePids, InRing
      <3> QED
        BY <1>3, <2>1, <2>2, <3>1
    <2>5. UniquePids'
      BY <1>3, <2>4 DEF UniquePids, InRing, Injective
    <2>6. \A q \in Procs : pc[q] \in {"s_store", "s_link"} => q = p
      BY <1>1 DEF PidInv, OneSpawner
    <2>7. \A q \in Procs : pc'[q] \notin {"s_store", "s_link"}
      BY <1>5, <2>6
    <2> QED
      BY <2>3, <2>5, <2>7 DEF PidInv
  <1>9. HandlerInv'
    BY <1>1, <1>5 DEF Typed, HandlerInv, InHandler, InWait, InPost
  <1>10. LocksInv'
    BY <1>1, <1>2, <1>6 DEF LocksInv
  <1>11. NoLostWakeup'
    <2> SUFFICES ASSUME NEW q \in Procs, state'[q] = "Blocked"
                 PROVE  pc'[q] = "w_yield" /\ locks[q] = {sem[q]} /\ value[sem[q]] = 0
      BY <1>1 DEF NoLostWakeup
    <2>1. state[q] = "Blocked" /\ q # c
      BY <1>6
    <2>2. pc[q] = "w_yield" /\ locks[q] = {sem[q]} /\ value[sem[q]] = 0
      BY <1>1, <2>1 DEF NoLostWakeup
    <2> QED
      BY <1>1, <1>5, <2>1, <2>2
  <1>12. HolderInv'
    <2>1. \A q \in Procs : pc'[q] # "user" => pc'[q] = pc[q]
      BY <1>5
    <2> QED
      BY <1>1, <2>1 DEF HolderInv, InWait
  <1>13. Conservation'
    BY <1>1 DEF Conservation
  <1> QED
    BY <1>4, <1>7, <1>8, <1>9, <1>10, <1>11, <1>12, <1>13

-----------------------------------------------------------------------------
(* Context switches.                                                        *)

(* A context switch preserves it: no process is inside a handler.           *)
LEMMA PendSVStep ==
    ASSUME IInv, PendSV
    PROVE  IInv'
  <1> USE DEF IInv
  <1>1. /\ pc[current] \notin InHandler
        /\ Switch(ring, current, pc)
        /\ monitor' = FALSE /\ pendsv' = FALSE
        /\ UNCHANGED <<ring, state, locks, pid, pidCounter, value, sem, holders, posted>>
    BY DEF PendSV, shared, ghosts
  <1>2. InRing = Elements(ring) /\ InRing' = InRing /\ InRing \subseteq Procs
    BY <1>1, LenProperties, ElementOfSeq DEF InRing, Elements, Typed
  <1>3. /\ current' \in InRing
        /\ cpu' \in {"run", "spin"}
        /\ pc' \in [Procs -> Labels]
        /\ reg' \in [Procs -> Nat]
        /\ \A p \in Procs :
              \/ pc'[p] = pc[p] /\ reg'[p] = reg[p]
              \/ /\ p = current'
                 /\ pc[p] = "w_yield"
                 /\ state[p] = "Ready"
                 /\ pc'[p] = "w_store"
    BY <1>1, <1>2, SwitchStep DEF Typed, RingInv
  <1>4. Typed'
    BY <1>1, <1>2, <1>3 DEF Typed, CpuStates
  <1>5. RingInv'
    BY <1>1, <1>2, <1>3 DEF RingInv, Injective
  <1>6. PidInv'
    <2>1. \A p \in Procs : pc'[p] \in {"s_store", "s_link"} => pc'[p] = pc[p] /\ reg'[p] = reg[p]
      BY <1>3
    <2> QED
      BY <1>1, <1>2, <2>1 DEF PidInv, UniquePids
  <1>7. \A p \in Procs : pc[p] \notin InHandler
    BY <1>1 DEF HandlerInv
  <1>8. HandlerInv'
    BY <1>1, <1>3, <1>7 DEF HandlerInv, InHandler, InWait
  <1>9. LocksInv'
    BY <1>1 DEF LocksInv
  <1>10. NoLostWakeup'
    <2> SUFFICES ASSUME NEW q \in Procs, state[q] = "Blocked"
                 PROVE  pc'[q] = "w_yield" /\ locks[q] = {sem[q]} /\ value[sem[q]] = 0
      BY <1>1 DEF NoLostWakeup
    <2> QED
      BY <1>1, <1>3 DEF NoLostWakeup, InHandler, InPost
  <1>11. HolderInv'
    BY <1>1, <1>3 DEF HolderInv, InWait
  <1>12. Conservation'
    BY <1>1 DEF Conservation
  <1> QED
    BY <1>4, <1>5, <1>6, <1>8, <1>9, <1>10, <1>11, <1>12

(* With distinct pids the node erased is that of the process that exits,    *)
(* and as the root stays, current_process_ has another node to move on to.  *)
LEMMA ExitEffect ==
    ASSUME IInv, RootStays, NEW p \in Procs, Exit(p)
    PROVE  /\ p = current /\ pc[p] = "user"
           /\ ring' \in Seq(Procs) /\ Injective(ring')
           /\ InRing' = InRing \ {p} /\ InRing \subseteq Procs
           /\ Root \in InRing'
           /\ current' \in InRing'
           /\ cpu' \in {"run", "spin"}
           /\ state' = [state EXCEPT ![p] = "None"]
           /\ locks' = [locks EXCEPT ![p] = {}]
           /\ sem' = [sem EXCEPT ![p] = NoSem]
           /\ monitor' = FALSE
           /\ UNCHANGED <<pid, pidCounter, value, pendsv, holders, posted>>
           /\ pc' \in [Procs -> Labels] /\ pc'[p] = "dead"
           /\ reg' \in [Procs -> Nat]
           /\ \A q \in Procs \ {p} :
                 \/ pc'[q] = pc[q] /\ reg'[q] = reg[q]
                 \/ /\ q = current'
                    /\ pc[q] = "w_yield"
                    /\ state[q] = "Ready"
                    /\ pc'[q] = "w_store"
  <1> USE DEF IInv
  <1> DEFINE i    == FirstWithPid(ring, pid[p])
             left == RemoveAt(ring, i)
             next == GetNext(ring, p)
             pcs  == [[pc EXCEPT ![p] = "exited"] EXCEPT ![ring[i]] = "dead"]
  <1>1. /\ p = current /\ pc[p] = "user" /\ p \in Returning
        /\ ring' = left
        /\ locks' = [locks EXCEPT ![ring[i]] = {}]
        /\ state' = [state EXCEPT ![ring[i]] = "None"]
        /\ sem' = [sem EXCEPT ![ring[i]] = NoSem]
        /\ monitor' = FALSE
        /\ UNCHANGED <<pid, pidCounter, value, pendsv, holders, posted>>
    BY DEF Exit, DeleteProcess, User, At, shared, ghosts
  <1>2. \/ next # ring[i] /\ Switch(left, next, pcs)
        \/ next = ring[i]
    BY DEF Exit
  <1>3. InRing = Elements(ring) /\ InRing \subseteq Procs /\ DOMAIN ring = 1..Len(ring)
    BY LenProperties, ElementOfSeq DEF InRing, Elements, Typed
  <1>4. i \in 1..Len(ring) /\ ring[i] = p
    <2>1. PICK h \in 1..Len(ring) : ring[h] = p
      BY <1>1, <1>3 DEF RingInv, Elements
    <2>2. \A j \in 1..Len(ring) : pid[ring[j]] = pid[p] => j = h
      BY <1>3, <2>1 DEF PidInv, UniquePids
    <2>3. \A j \in 1..(h - 1) : j \in 1..Len(ring) /\ j # h
      BY <2>1, LenProperties DEF Typed
    <2>4. /\ h \in DOMAIN ring
          /\ pid[ring[h]] = pid[p]
          /\ \A j \in 1..(h - 1) : pid[ring[j]] # pid[p]
      BY <1>3, <2>1, <2>2, <2>3
    <2>5. i \in DOMAIN ring /\ pid[ring[i]] = pid[p]
      BY <2>4 DEF FirstWithPid
    <2> HIDE DEF i
    <2> QED
      BY <1>3, <2>1, <2>2, <2>5
  <1>5. left \in Seq(Procs) /\ Injective(left) /\ Elements(left) = InRing \ {p}
    BY <1>3, <1>4, EraseElement DEF Typed, RingInv
  <1>6. Root \in InRing /\ Root # p
    BY <1>1 DEF RingInv, RootStays
  <1>7. next \in Elements(left)
    <2>1. next # p
      BY <1>1, <1>3, <1>6, GetNextMoves DEF Typed, RingInv
    <2>2. 1 \in 1..Len(ring)
      BY <1>4, LenProperties DEF Typed
    <2>3. next \in Elements(ring)
      BY <1>1, <1>3, <2>2, SuccessorInRing DEF GetNext, Typed, RingInv
    <2> QED
      BY <1>3, <1>5, <2>1, <2>3
  <1> HIDE DEF i, left, next
  <1>8. pcs = [pc EXCEPT ![p] = "dead"]
    BY <1>4 DEF Typed
  <1>9. /\ pcs \in [Procs -> Labels]
        /\ \A q \in Procs : pcs[q] = IF q = p THEN "dead" ELSE pc[q]
    BY <1>8 DEF Typed, Labels
  <1>10. Switch(left, next, pcs)
    BY <1>2, <1>4, <1>5, <1>7
  <1> HIDE DEF pcs
  <1>11. /\ current' \in Elements(left)
         /\ cpu' \in {"run", "spin"}
         /\ pc' \in [Procs -> Labels]
         /\ reg' \in [Procs -> Nat]
         /\ \A q \in Procs :
               \/ pc'[q] = pcs[q] /\ reg'[q] = reg[q]
               \/ /\ q = current'
                  /\ pcs[q] = "w_yield"
                  /\ state[q] = "Ready"
                  /\ pc'[q] = "w_store"
    <2>1. \A q \in Procs : pcs[q] # "exited"
      BY <1>9 DEF RingInv
    <2>2. reg \in [Procs -> Nat]
      BY DEF Typed
    <2> QED
      BY <1>5, <1>7, <1>9, <1>10, <2>1, <2>2, SwitchStep
  <1>12. InRing' = InRing \ {p}
    BY <1>1, <1>5 DEF InRing, Elements
  <1>13. pc'[p] = "dead"
    BY <1>9, <1>11
  <1> QED
    BY <1>1, <1>3, <1>4, <1>5, <1>6, <1>9, <1>11, <1>12, <1>13

(* An exit removes the process from the table and touches no other process, *)
(* but for the semaphore_wait it may dispatch.                              *)
LEMMA ExitStep ==
    ASSUME IInv, RootStays, NEW p \in Procs, Exit(p)
    PROVE  IInv'
  <1> USE DEF IInv
  <1>1. /\ p = current /\ pc[p] = "user"
        /\ ring' \in Seq(Procs) /\ Injective(ring')
        /\ InRing' = InRing \ {p} /\ InRing \subseteq Procs
        /\ Root \in InRing'
        /\ current' \in InRing'
        /\ cpu' \in {"run", "spin"}
        /\ state' = [state EXCEPT ![p] = "None"]
        /\ locks' = [locks EXCEPT ![p] = {}]
        /\ sem' = [sem EXCEPT ![p] = NoSem]
        /\ monitor' = FALSE
        /\ UNCHANGED <<pid, pidCounter, value, pendsv, holders, posted>>
        /\ pc' \in [Procs -> Labels] /\ pc'[p] = "dead"
        /\ reg' \in [Procs -> Nat]
    BY ExitEffect
  <1>2. \A q \in Procs \ {p} :
           \/ pc'[q] = pc[q] /\ reg'[q] = reg[q]
           \/ /\ q = current'
              /\ pc[q] = "w_yield"
              /\ state[q] = "Ready"
              /\ pc'[q] = "w_store"
    BY ExitEffect
  <1>3. \A q \in Procs :
           /\ state'[q] = IF q = p THEN "None" ELSE state[q]
           /\ locks'[q] = IF q = p THEN {} ELSE locks[q]
           /\ sem'[q] = IF q = p THEN NoSem ELSE sem[q]
    <2>1. \A q \in Procs : state'[q] = IF q = p THEN "None" ELSE state[q]
      BY <1>1 DEF Typed
    <2>2. \A q \in Procs : locks'[q] = IF q = p THEN {} ELSE locks[q]
      BY <1>1 DEF Typed
    <2>3. \A q \in Procs : sem'[q] = IF q = p THEN NoSem ELSE sem[q]
      BY <1>1 DEF Typed
    <2> QED
      BY <2>1, <2>2, <2>3
  <1>4. \A q \in Procs : pc[q] \notin InHandler
    BY <1>1 DEF HandlerInv, InHandler, InWait, InPost
  <1>5. Typed'
    <2>1. current' \in Procs
      BY <1>1
    <2>2. /\ state' \in [Procs -> {"Ready", "Blocked", "None"}]
          /\ locks' \in [Procs -> SUBSET Sems]
          /\ sem' \in [Procs -> Sems \cup {NoSem}]
      BY <1>1 DEF Typed
    <2> QED
      BY <1>1, <2>1, <2>2 DEF Typed, CpuStates
  <1>6. RingInv'
    <2>1. Injective(ring)'
      BY <1>1 DEF Injective
    <2>2. \A q \in Procs : q \in InRing' <=> pc'[q] \notin {"none", "dead"}
      BY <1>1, <1>2 DEF RingInv
    <2>3. \A q \in Procs : pc'[q] # "exited"
      BY <1>1, <1>2 DEF RingInv
    <2>4. \A q \in Procs : q \in InRing' <=> state'[q] # "None"
      BY <1>1, <1>3 DEF RingInv
    <2> QED
      BY <1>1, <2>1, <2>2, <2>3, <2>4 DEF RingInv
  <1>7. PidInv'
    <2>1. \A q \in Procs : pc'[q] \in {"s_store", "s_link"} => pc'[q] = pc[q] /\ reg'[q] = reg[q]
      BY <1>1, <1>2
    <2>2. \A q \in InRing', h \in InRing' : pid[q] = pid[h] => q = h
      <3>1. \A q \in InRing, h \in InRing : pid[q] = pid[h] => q = h
        BY DEF PidInv, UniquePids, InRing
      <3>2. InRing' \subseteq InRing
        BY <1>1
      <3> QED
        BY <3>1, <3>2
    <2>3. UniquePids'
      BY SMTT(60), <1>1, <2>2, <1>6 DEF UniquePids, InRing, RingInv, Injective
    <2> QED
      BY <1>1, <2>1, <2>3 DEF PidInv
  <1>8. HandlerInv'
    <2> SUFFICES ASSUME NEW q \in Procs, pc'[q] \in InHandler \cup {"w_yield"}
                 PROVE  /\ pc'[q] \in InHandler => q = current' /\ pc'[q] = "w_store"
                        /\ sem'[q] \in Sems
      BY <1>1 DEF HandlerInv, InHandler, InWait, InPost
    <2>1. q # p
      BY <1>1 DEF InHandler, InWait, InPost
    <2>2. pc'[q] = pc[q] \/ (q = current' /\ pc[q] = "w_yield" /\ pc'[q] = "w_store")
      BY <1>1, <1>2, <2>1
    <2>3. pc[q] = "w_yield"
      BY <1>4, <2>2
    <2>4. sem[q] \in Sems
      BY <2>3 DEF HandlerInv
    <2> QED
      BY <1>3, <2>1, <2>2, <2>3, <2>4 DEF InHandler, InWait, InPost
  <1>9. LocksInv'
    BY <1>3 DEF LocksInv
  <1>10. NoLostWakeup'
    <2> SUFFICES ASSUME NEW q \in Procs, state[q] = "Blocked", q # p
                 PROVE  pc'[q] = "w_yield" /\ locks[q] = {sem[q]} /\ value[sem[q]] = 0
      BY <1>1, <1>3 DEF NoLostWakeup
    <2> QED
      BY <1>1, <1>2 DEF NoLostWakeup
  <1>11. HolderInv'
    BY <1>1, <1>2, <1>3 DEF HolderInv, InWait
  <1>12. Conservation'
    BY <1>1 DEF Conservation
  <1> QED
    BY <1>5, <1>6, <1>7, <1>8, <1>9, <1>10, <1>11, <1>12

-----------------------------------------------------------------------------
(* The invariant holds.                                                     *)

(* The state spawn_root_process starts from satisfies the invariant.        *)
LEMMA InitIInv ==
    ASSUME Init PROVE IInv
  <1> USE KernelAssumption DEF Init
  <1>1. /\ ring \in Seq(Procs) /\ DOMAIN ring = {1} /\ ring[1] = Root
        /\ InRing = {Root}
    BY DEF InRing
  <1>2. Typed
    BY <1>1 DEF Typed, CpuStates, Labels, ThreadMode, NoSem
  <1>3. RingInv
    BY <1>1 DEF RingInv, Injective
  <1>4. PidInv
    BY <1>1 DEF PidInv, UniquePids
  <1>5. HandlerInv /\ LocksInv /\ NoLostWakeup /\ HolderInv
    BY DEF HandlerInv, LocksInv, NoLostWakeup, HolderInv, InHandler, InWait, InPost
  <1>6. Conservation
    BY FS_EmptySet DEF Conservation
  <1> QED
    BY <1>2, <1>3, <1>4, <1>5, <1>6 DEF IInv

(* Every step preserves the invariant.                                      *)
LEMMA NextIInv ==
    ASSUME OneSpawner, RootStays, IInv, [Next]_vars
    PROVE  IInv'
  <1>1. ASSUME NEW p \in Procs, NEW s \in Sems, Wait(p, s) PROVE IInv'
    BY <1>1, WaitStep
  <1>2. ASSUME NEW p \in Procs, NEW s \in Sems, Post(p, s) PROVE IInv'
    BY <1>2, PostStep
  <1>3. ASSUME NEW p \in Procs, WaitSyscall(p) PROVE IInv'
    BY <1>3, WaitLoadStep, BlockStep, WaitStoreStep DEF WaitSyscall
  <1>4. ASSUME NEW p \in Procs, PostSyscall(p) PROVE IInv'
    BY <1>4, PostLoadStep, PostStoreStep, PostUnblockStep DEF PostSyscall
  <1>5. ASSUME NEW p \in Procs, Spawn(p) PROVE IInv'
    BY <1>5, SpawnLoadStep, SpawnStoreStep, SpawnLinkStep DEF Spawn
  <1>6. ASSUME NEW p \in Procs, Yield(p) PROVE IInv'
    BY <1>6, YieldStep
  <1>7. ASSUME NEW p \in Procs, Exit(p) PROVE IInv'
    BY <1>7, ExitStep
  <1>8. CASE PendSV
    BY <1>8, PendSVStep
  <1>9. CASE SysTick
    BY <1>9, SysTickStep
  <1>10. CASE UNCHANGED vars
    <2> USE <1>10 DEF IInv, vars
    <2>1. Typed' /\ RingInv' /\ PidInv'
      BY DEF Typed, RingInv, PidInv, UniquePids, InRing, Injective
    <2>2. HandlerInv' /\ LocksInv' /\ NoLostWakeup' /\ HolderInv' /\ Conservation'
      BY DEF HandlerInv, LocksInv, NoLostWakeup, HolderInv, Conservation
    <2> QED
      BY <2>1, <2>2
  <1> QED
    BY <1>1, <1>2, <1>3, <1>4, <1>5, <1>6, <1>7, <1>8, <1>9, <1>10 DEF Next

(* The invariant holds in every state of the kernel.                        *)
THEOREM Inductive ==
    ASSUME OneSpawner, RootStays
    PROVE  Spec => []IInv
  <1>1. Init => IInv
    BY InitIInv
  <1>2. IInv /\ [Next]_vars => IInv'
    BY NextIInv
  <1> QED
    BY <1>1, <1>2, PTL DEF Spec

(* Every variable keeps its type (value_ never wraps below 0), and the list *)
(* holds the processes that exist, each once, with current_process_ among   *)
(* them.                                                                    *)
THEOREM TypeCorrect ==
    ASSUME OneSpawner, RootStays
    PROVE  Spec => []TypeOK
  <1>1. IInv => TypeOK
    <2> SUFFICES ASSUME IInv PROVE TypeOK
      OBVIOUS
    <2>1. Typed /\ current \in InRing
      BY DEF IInv, RingInv
    <2>2. \A i, j \in DOMAIN ring : ring[i] = ring[j] => i = j
      BY DEF IInv, RingInv, Injective
    <2>3. InRing \subseteq Procs
      BY <2>1, ElementOfSeq, LenProperties DEF Typed, InRing
    <2>4. \A p \in Procs : p \in InRing <=> state[p] # "None"
      BY DEF IInv, RingInv
    <2>5. InRing = {p \in Procs : state[p] # "None"}
      BY <2>3, <2>4
    <2> QED
      BY <2>1, <2>2, <2>5 DEF TypeOK
  <1> QED
    BY <1>1, Inductive, PTL

(* No post leaves a process Blocked on the semaphore it made available,     *)
(* although semaphore_wait tests the value well before it blocks.           *)
THEOREM NoWakeupIsLost ==
    ASSUME OneSpawner, RootStays
    PROVE  Spec => []NoLostWakeup
  <1>1. IInv => NoLostWakeup
    BY DEF IInv
  <1> QED
    BY <1>1, Inductive, PTL

(* The units of every semaphore are accounted for.                          *)
THEOREM UnitsAreConserved ==
    ASSUME OneSpawner, RootStays
    PROVE  Spec => []Conservation
  <1>1. IInv => Conservation
    BY DEF IInv
  <1> QED
    BY <1>1, Inductive, PTL

(* pid_counter gives every process of the list a pid of its own, as long as *)
(* one process does all the spawning.                                       *)
THEOREM PidsAreUnique ==
    ASSUME OneSpawner, RootStays
    PROVE  Spec => []UniquePids
  <1>1. IInv => UniquePids
    BY DEF IInv, PidInv
  <1> QED
    BY <1>1, Inductive, PTL

(* A Blocked process does not execute.                                      *)
THEOREM BlockedNeverRuns ==
    ASSUME OneSpawner, RootStays
    PROVE  Spec => []OnlyReadyRuns
  <1>1. IInv => OnlyReadyRuns
    <2> SUFFICES ASSUME IInv, pc[current] # "w_yield"
                 PROVE  current \in InRing /\ state[current] = "Ready"
      BY DEF OnlyReadyRuns
    <2>1. current \in InRing /\ current \in Procs
      BY DEF IInv, RingInv, Typed
    <2>2. state[current] \in {"Ready", "Blocked"}
      BY <2>1 DEF IInv, RingInv, Typed
    <2> QED
      BY <2>1, <2>2 DEF IInv, NoLostWakeup
  <1> QED
    BY <1>1, Inductive, PTL

-----------------------------------------------------------------------------
(* The scheduler never stops, whatever the number of processes, as long as  *)
(* they take semaphores in increasing order, give them back before they     *)
(* exit, and no semaphore starts at 0.                                      *)

NoneStartsEmpty == \A s \in Sems : InitValue[s] > 0

Waits(p) == pc[p] \in InWait \cup {"w_yield"}

(* The list finds a process, only processes of the list hold something, and *)
(* whoever waits holds nothing above what it waits for.                     *)
DisciplineInv ==
    /\ cpu = "run"
    /\ \A s \in Sems : holders[s] \subseteq InRing
    /\ \A p \in Procs : Waits(p) => \A t \in Held(p) : t < sem[p]

(* Of processes that are all Blocked on semaphores at 0, and hold all that  *)
(* is held, one waits for the greatest; who holds that waits for a greater. *)
LEMMA SomebodyIsReady ==
    ASSUME IInv, DisciplineInv, NoneStartsEmpty,
           NEW R, R \subseteq InRing, R # {}, \A s \in Sems : holders[s] \subseteq R,
           pc[current] # "p_unblock"
    PROVE  \E p \in R : state[p] = "Ready"
  <1> SUFFICES ASSUME \A p \in R : state[p] # "Ready" PROVE FALSE
    OBVIOUS
  <1>1. R \subseteq Procs
    BY LenProperties, ElementOfSeq DEF InRing, IInv, Typed
  <1>2. ASSUME NEW p \in R
        PROVE  /\ pc[p] = "w_yield" /\ sem[p] \in Sems
               /\ value[sem[p]] = 0
    <2>1. state[p] = "Blocked"
      BY <1>1 DEF IInv, RingInv, Typed
    <2> QED
      BY <1>1, <2>1 DEF IInv, NoLostWakeup, HandlerInv
  <1> DEFINE W == {sem[p] : p \in R}
  <1>3. W \subseteq Nat /\ W # {}
    <2>1. Sems \subseteq Nat
      BY KernelAssumption
    <2>2. \A p \in R : sem[p] \in Sems
      BY <1>2
    <2> QED
      BY <2>1, <2>2
  <1>4. IsFiniteSet(W)
    <2>1. IsFiniteSet(R)
      BY <1>1, KernelAssumption, FS_Subset
    <2> DEFINE f == [p \in R |-> sem[p]]
    <2>2. f \in Surjection(R, W)
      BY DEF Surjection
    <2> HIDE DEF f, W
    <2> QED
      BY <2>1, <2>2, FS_Surjection
  <1> HIDE DEF W
  <1>5. PICK s \in W : \A t \in W : t <= s
    BY <1>3, <1>4, GreatestOfFinite
  <1>6. PICK p \in R : sem[p] = s
    BY <1>5 DEF W
  <1>7. s \in Sems /\ value[s] = 0
    BY <1>2, <1>6
  <1>8. holders[s] # {}
    <2>1. Cardinality(holders[s]) = InitValue[s] + posted[s] - value[s] + 0
      <3>1. IsFiniteSet(holders[s])
        BY <1>7, KernelAssumption, FS_Subset DEF IInv, Typed
      <3>2. Cardinality(holders[s]) \in Nat
        BY <3>1, FS_CardinalityType
      <3> QED
        BY <1>7, <3>2, KernelAssumption DEF IInv, Typed, Conservation
    <2>2. Cardinality(holders[s]) > 0
      BY <1>7, <2>1, KernelAssumption DEF NoneStartsEmpty, IInv, Typed
    <2> QED
      BY <2>2, FS_EmptySet
  <1>9. PICK q \in R : q \in holders[s]
    BY <1>7, <1>8
  <1>10. s < sem[q]
    BY <1>1, <1>2, <1>7, <1>9 DEF DisciplineInv, Waits, Held
  <1>11. sem[q] \in W /\ sem[q] \in Nat /\ s \in Nat
    BY <1>2, <1>3, <1>5 DEF W
  <1> QED
    BY <1>5, <1>10, <1>11

(* A switch that finds somebody Ready does not spin.                        *)
LEMMA SwitchFinds ==
    ASSUME NEW r \in Seq(Procs), NEW c, NEW pcs \in [Procs -> Labels],
           \A p \in Procs : pcs[p] # "exited",
           NEW q \in Elements(r), state[q] = "Ready", c \in Elements(r),
           Switch(r, c, pcs)
    PROVE  cpu' = "run"
  <1>1. PICK k \in 1..Len(r) :
            ScheduleNext(r, c, k) /\ Dispatch(Successor(r, c, k), pcs)
    BY DEF Switch, Elements
  <1>2. Successor(r, c, k) \in Procs
    BY SuccessorInRing, LenProperties, ElementOfSeq DEF Elements
  <1> QED
    BY <1>1, <1>2 DEF Dispatch

(* A system call that only moves on leaves the discipline alone.            *)
LEMMA DisciplineKept ==
    ASSUME IInv, DisciplineInv, NEW p \in Procs,
           UNCHANGED <<ring, cpu>>,
           \A s \in Sems : holders'[s] \subseteq holders[s],
           \A q \in Procs : Waits(q)' => Waits(q) /\ sem'[q] = sem[q]
    PROVE  DisciplineInv'
  BY DEF DisciplineInv, InRing, Held

LEMMA NextDiscipline ==
    ASSUME OneSpawner, RootStays, NoneStartsEmpty, Disciplined,
           IInv, DisciplineInv, [Next]_vars
    PROVE  DisciplineInv'
  <1> USE DEF User, At, Goto, sched, shared, ghosts
  <1>1. InRing = Elements(ring) /\ InRing \subseteq Procs
    BY LenProperties, ElementOfSeq DEF InRing, Elements, IInv, Typed
  <1>2. ASSUME NEW p \in Procs, NEW s \in Sems, Wait(p, s) PROVE DisciplineInv'
    <2>1. /\ UNCHANGED <<ring, cpu, holders>>
          /\ \A t \in Held(p) : t < s
          /\ sem' = [sem EXCEPT ![p] = s] /\ pc' = [pc EXCEPT ![p] = "w_load"]
      BY <1>2 DEF Wait
    <2>2. \A q \in Procs : Waits(q)' => \A t \in Held(q)' : t < sem'[q]
      BY <2>1 DEF DisciplineInv, Waits, Held, IInv, Typed
    <2> QED
      BY <2>1, <2>2 DEF DisciplineInv, InRing
  <1>3. ASSUME NEW p \in Procs, NEW s \in Sems, Post(p, s) PROVE DisciplineInv'
    <2>1. /\ UNCHANGED <<ring, cpu, holders>>
          /\ sem' = [sem EXCEPT ![p] = s] /\ pc' = [pc EXCEPT ![p] = "p_load"]
      BY <1>3 DEF Post
    <2> QED
      BY <2>1, DisciplineKept DEF Waits, InWait, IInv, Typed
  <1>4. ASSUME NEW p \in Procs, WaitLoad(p) PROVE DisciplineInv'
    <2>1. /\ UNCHANGED <<ring, cpu, holders, sem>> /\ pc[p] = "w_load"
          /\ \A q \in Procs \ {p} : pc'[q] = pc[q]
      BY <1>4 DEF WaitLoad, IInv, Typed
    <2> QED
      BY <2>1, DisciplineKept DEF Waits, InWait
  <1>5. ASSUME NEW p \in Procs, Block(p) PROVE DisciplineInv'
    <2>1. /\ UNCHANGED <<ring, cpu, holders, sem>> /\ pc[p] = "w_block"
          /\ \A q \in Procs \ {p} : pc'[q] = pc[q]
      BY <1>5 DEF Block, IInv, Typed
    <2> QED
      BY <2>1, DisciplineKept DEF Waits, InWait
  <1>6. ASSUME NEW p \in Procs, WaitStore(p) PROVE DisciplineInv'
    <2>1. /\ UNCHANGED <<ring, cpu>> /\ pc[p] = "w_store" /\ p = current
          /\ \/ /\ holders' = [holders EXCEPT ![sem[p]] = @ \cup {p}]
                /\ sem' = [sem EXCEPT ![p] = NoSem] /\ pc' = [pc EXCEPT ![p] = "user"]
             \/ UNCHANGED <<holders, sem>> /\ pc' = [pc EXCEPT ![p] = "w_load"]
      BY <1>6 DEF WaitStore
    <2>2. p \in InRing
      BY <2>1 DEF IInv, RingInv
    <2>3. InRing' = InRing
      BY <2>1 DEF InRing
    <2>4. ASSUME NEW s \in Sems, NEW q \in holders'[s], q # p PROVE q \in holders[s]
      <3>1. DOMAIN holders = Sems
        BY DEF IInv, Typed
      <3>2. holders'[s] \subseteq holders[s] \cup {p}
        BY <2>1, <3>1
      <3> QED
        BY <2>4, <3>2
    <2>5. ASSUME NEW q \in Procs, Waits(q)', NEW t \in Held(q)' PROVE t < sem'[q]
      <3>1. Waits(q) /\ sem'[q] = sem[q] /\ (q # p \/ UNCHANGED holders)
        BY <2>1, <2>5 DEF Waits, InWait, IInv, Typed
      <3>2. t \in Held(q)
        BY <2>4, <2>5, <3>1 DEF Held
      <3> QED
        BY <3>1, <3>2 DEF DisciplineInv
    <2>6. \A s \in Sems : holders'[s] \subseteq InRing'
      BY <2>2, <2>3, <2>4 DEF DisciplineInv
    <2> QED
      BY <2>1, <2>5, <2>6 DEF DisciplineInv
  <1>7. ASSUME NEW p \in Procs, PostSyscall(p) PROVE DisciplineInv'
    <2>1. CASE PostLoad(p)
      BY <2>1, DisciplineKept DEF PostLoad, Waits, InWait, IInv, Typed
    <2>2. CASE PostStore(p)
      <3>1. \A s \in Sems : holders'[s] \subseteq holders[s]
        <4>1. holders' \in {holders, [holders EXCEPT ![sem[p]] = @ \ {p}]}
          BY <2>2 DEF PostStore
        <4> QED
          BY <4>1 DEF IInv, Typed
      <3>2. UNCHANGED <<ring, cpu, sem>> /\ pc' \in {[pc EXCEPT ![p] = "p_unblock"], [pc EXCEPT ![p] = "p_load"]}
        BY <2>2 DEF PostStore
      <3>3. \A q \in Procs : Waits(q)' => Waits(q) /\ sem'[q] = sem[q]
        BY <3>2 DEF Waits, InWait, IInv, Typed
      <3> QED
        BY <3>1, <3>2, <3>3, DisciplineKept
    <2>3. CASE PostUnblock(p)
      BY <2>3, DisciplineKept DEF PostUnblock, Waits, InWait, IInv, Typed
    <2> QED
      BY <1>7, <2>1, <2>2, <2>3 DEF PostSyscall
  <1>8. ASSUME NEW p \in Procs, SpawnLoad(p) \/ SpawnStore(p) \/ Yield(p) PROVE DisciplineInv'
    <2>1. /\ UNCHANGED <<ring, cpu, holders, sem>>
          /\ pc' \in {[pc EXCEPT ![p] = "s_store"], [pc EXCEPT ![p] = "s_link"], pc}
      BY <1>8 DEF SpawnLoad, SpawnStore, Yield
    <2>2. \A q \in Procs : Waits(q)' => Waits(q)
      BY <2>1 DEF Waits, InWait, IInv, Typed
    <2> QED
      BY <2>1, <2>2, DisciplineKept
  <1>9. ASSUME NEW p \in Procs, NEW c \in Procs, SpawnLink(p, c) PROVE DisciplineInv'
    <2>1. /\ ring' = Append(ring, c) /\ UNCHANGED <<cpu, holders, sem>>
          /\ pc' = [pc EXCEPT ![p] = "user", ![c] = "user"]
          /\ pc[c] = "none"
      BY <1>9 DEF SpawnLink
    <2>2. InRing' = InRing \cup {c}
      <3>1. c \notin Elements(ring)
        BY <1>1, <2>1 DEF IInv, RingInv
      <3> QED
        <4>1. Elements(Append(ring, c)) = Elements(ring) \cup {c}
          BY <3>1, AppendElement DEF IInv, Typed, RingInv
        <4> QED
          BY <1>1, <2>1, <4>1 DEF InRing, Elements
    <2>3. \A q \in Procs : Waits(q)' => Waits(q)
      BY <2>1 DEF Waits, InWait, IInv, Typed
    <2> QED
      BY <2>1, <2>2, <2>3 DEF DisciplineInv, Held
  <1>10. ASSUME NEW p \in Procs, Exit(p) PROVE DisciplineInv'
    <2>1. /\ p = current /\ pc[p] = "user" /\ p # Root
          /\ InRing' = InRing \ {p} /\ Root \in InRing'
          /\ cpu' \in {"run", "spin"} /\ UNCHANGED holders
          /\ sem' = [sem EXCEPT ![p] = NoSem] /\ pc'[p] = "dead"
          /\ \A q \in Procs \ {p} : Waits(q)' => Waits(q)
      BY <1>1, <1>10, ExitEffect DEF Waits, InWait
    <2>2. Held(p) = {}
      BY <1>10 DEF Exit
    <2>3. \A s \in Sems : holders[s] \subseteq InRing'
      BY <2>1, <2>2 DEF DisciplineInv, Held
    <2>4. PICK q \in InRing' : state[q] = "Ready"
      <3> DEFINE R == InRing'
      <3>1. R \subseteq InRing /\ R # {} /\ \A s \in Sems : holders[s] \subseteq R
        BY <2>1, <2>3
      <3>2. pc[current] # "p_unblock"
        BY <2>1
      <3> HIDE DEF R
      <3>3. \E x \in R : state[x] = "Ready"
        BY <3>1, <3>2, SomebodyIsReady
      <3> QED
        BY <3>3 DEF R
    <2>5. cpu' # "spin"
      <3> DEFINE i    == FirstWithPid(ring, pid[p])
                 left == RemoveAt(ring, i)
                 next == GetNext(ring, p)
                 pcs  == [[pc EXCEPT ![p] = "exited"] EXCEPT ![ring[i]] = "dead"]
      <3>1. ring' = left
        BY <1>10 DEF Exit, DeleteProcess
      <3>2. Switch(left, next, pcs) \/ cpu' = "lost"
        BY <1>10 DEF Exit
      <3> HIDE DEF left, next, pcs
      <3>3. q \in {left[j] : j \in DOMAIN left}
        BY <2>4, <3>1 DEF InRing
      <3>4. PICK j \in DOMAIN left : left[j] = q
        BY <3>3
      <3>5. CASE Switch(left, next, pcs)
        <4>1. \E k \in 1..Len(left) : ScheduleNext(left, next, k) /\ Dispatch(Successor(left, next, k), pcs)
          BY <2>4, <3>4, <3>5 DEF Switch
        <4> QED
          BY <4>1 DEF Dispatch
      <3> QED
        BY <3>2, <3>5
    <2>6. \A x \in Procs : Waits(x)' => Waits(x) /\ x # p
      BY <2>1 DEF Waits, InWait
    <2> QED
      BY <2>1, <2>3, <2>5, <2>6 DEF DisciplineInv, Held, IInv, Typed
  <1>11. CASE PendSV
    <2>1. /\ pc[current] \notin InHandler /\ Switch(ring, current, pc)
          /\ UNCHANGED <<ring, sem, holders>>
      BY <1>11 DEF PendSV
    <2>2. pc[current] # "p_unblock"
      BY <2>1 DEF InHandler, InPost
    <2>3. InRing # {} /\ \A s \in Sems : holders[s] \subseteq InRing
      BY DEF IInv, RingInv, DisciplineInv
    <2>4. PICK q \in InRing : state[q] = "Ready"
      BY <2>2, <2>3, SomebodyIsReady
    <2>5. cpu' = "run"
      BY <1>1, <2>1, <2>4, SwitchFinds DEF IInv, Typed, RingInv
    <2>6. \A p \in Procs : Waits(p)' => Waits(p)
      <3>1. /\ pc \in [Procs -> Labels] /\ reg \in [Procs -> Nat]
            /\ ring \in Seq(Procs) /\ current \in Elements(ring)
            /\ \A p \in Procs : pc[p] # "exited"
        BY <1>1 DEF IInv, Typed, RingInv
      <3>2. \A p \in Procs : pc'[p] = pc[p] \/ pc[p] = "w_yield"
        BY <2>1, <3>1, SwitchStep
      <3> QED
        BY <3>2 DEF Waits
    <2> QED
      BY <2>1, <2>5, <2>6 DEF DisciplineInv, Held, InRing
  <1>12. CASE SysTick
    BY <1>12 DEF SysTick, DisciplineInv, Waits, Held, InRing
  <1>13. CASE UNCHANGED vars
    BY <1>13 DEF vars, DisciplineInv, Waits, Held, InRing
  <1> QED
    BY <1>2, <1>3, <1>4, <1>5, <1>6, <1>7, <1>8, <1>9, <1>10, <1>11, <1>12, <1>13
    DEF Next, WaitSyscall, Spawn

(* schedule_next always finds a process and current_process_ stays in the   *)
(* list: processes that nest their semaphores in one order and give them    *)
(* back before they exit cannot bring the core to a stop.                   *)
THEOREM SchedulerRuns ==
    ASSUME OneSpawner, RootStays, NoneStartsEmpty, Disciplined
    PROVE  Spec => []SchedulerNeverStops
  <1>1. Init => IInv /\ DisciplineInv
    <2> SUFFICES ASSUME Init PROVE DisciplineInv
      BY InitIInv
    <2> QED
      BY DEF Init, DisciplineInv, Waits, InWait, Held
  <1>2. IInv /\ DisciplineInv /\ [Next]_vars => (IInv /\ DisciplineInv)'
    BY NextIInv, NextDiscipline
  <1>3. IInv /\ DisciplineInv => SchedulerNeverStops
    BY DEF IInv, RingInv, DisciplineInv, SchedulerNeverStops
  <1> QED
    BY <1>1, <1>2, <1>3, PTL DEF Spec

(* A semaphore constructed with 1 that only its holders post is a mutex:    *)
(* two processes never hold it at once (Mutex::lock, Mutex::unlock).        *)
THEOREM MutexExcludes ==
    ASSUME OneSpawner, RootStays, Signallers = {}, NEW s \in Sems, InitValue[s] = 1
    PROVE  Spec => [](\A p, q \in holders[s] : p = q)
  <1>1. Init => IInv /\ posted[s] = 0
    BY InitIInv DEF Init
  <1>2. IInv /\ posted[s] = 0 /\ [Next]_vars => (IInv /\ posted[s] = 0)'
    <2> SUFFICES ASSUME IInv, posted[s] = 0, [Next]_vars PROVE posted'[s] = 0
      BY NextIInv
    <2>1. ASSUME NEW p \in Procs, PostStore(p) PROVE posted' = posted
      BY <2>1 DEF PostStore, At, ghosts, IInv, HolderInv
    <2>2. CASE UNCHANGED posted
      BY <2>2
    <2> QED
      BY <2>1, <2>2
      DEF Next, WaitSyscall, PostSyscall, Spawn, Wait, WaitLoad, Block, WaitStore, Post,
          PostLoad, PostUnblock, SpawnLoad, SpawnStore, SpawnLink, Yield, Exit, PendSV,
          SysTick, ghosts, vars
  <1>3. IInv /\ posted[s] = 0 => \A p, q \in holders[s] : p = q
    <2> SUFFICES ASSUME IInv, posted[s] = 0, NEW p \in holders[s], NEW q \in holders[s]
                 PROVE  p = q
      OBVIOUS
    <2>1. IsFiniteSet(holders[s])
      BY KernelAssumption, FS_Subset DEF IInv, Typed
    <2>2. Cardinality(holders[s]) \in Nat /\ Cardinality(holders[s] \ {p}) \in Nat
      BY <2>1, FS_CardinalityType, FS_RemoveElement
    <2>3. Cardinality(holders[s]) <= 1
      BY <2>2 DEF IInv, Typed, Conservation
    <2>4. Cardinality(holders[s] \ {p}) = 0
      <3>1. Cardinality(holders[s] \ {p}) = Cardinality(holders[s]) - 1
        BY <2>1, FS_RemoveElement
      <3> QED
        BY <2>2, <2>3, <3>1
    <2>5. holders[s] \ {p} = {}
      BY <2>1, <2>4, FS_RemoveElement, FS_EmptySet
    <2> QED
      BY <2>5
  <1> QED
    BY <1>1, <1>2, <1>3, PTL DEF Spec

-----------------------------------------------------------------------------
(* The kernel implements the semaphores.                                    *)

(* The initial states are initial states of the semaphores.                 *)
LEMMA InitImplements ==
    ASSUME Init PROVE Abstract!Init
  BY DEF Init, Abstract!Init, Waiting, InWait, NoSem

(* Steps that leave the values and the holders alone, and no process's      *)
(* request, are invisible.                                                  *)
LEMMA Invisible ==
    ASSUME UNCHANGED <<value, holders, posted>>,
           \A q \in Procs : Waiting'[q] = Waiting[q]
    PROVE  UNCHANGED Abstract!vars
  <1>1. Waiting' = Waiting
    BY DEF Waiting
  <1> QED
    BY <1>1 DEF Abstract!vars

(* Every step of the kernel is a step of the semaphores or invisible: only  *)
(* a store that succeeds, and the entry to semaphore_wait, can be seen.     *)
LEMMA StepImplements ==
    ASSUME IInv, RootStays, [Next]_vars
    PROVE  [Abstract!Next]_(Abstract!vars)
  <1> USE DEF IInv
  <1>1. ASSUME NEW p \in Procs, NEW s \in Sems, Wait(p, s)
        PROVE  Abstract!Next
    <2> USE <1>1 DEF Wait, User, At, Goto, Held, sched, shared, ghosts
    <2>1. Waiting[p] = 0 /\ p \notin holders[s]
      BY DEF Waiting, InWait, NoSem
    <2>2. Waiting' = [Waiting EXCEPT ![p] = s]
      BY DEF Waiting, InWait, Typed
    <2>3. Abstract!Request(p, s)
      BY <2>1, <2>2 DEF Abstract!Request
    <2> QED
      BY <2>3 DEF Abstract!Next
  <1>2. ASSUME NEW p \in Procs, NEW s \in Sems, Post(p, s)
        PROVE  UNCHANGED Abstract!vars
    BY <1>2, Invisible
       DEF Post, User, At, Goto, sched, shared, ghosts, Waiting, InWait, Typed
  <1>3. ASSUME NEW p \in Procs, WaitLoad(p) \/ Block(p)
        PROVE  UNCHANGED Abstract!vars
    BY <1>3, Invisible
       DEF WaitLoad, Block, At, Goto, sched, shared, ghosts, Waiting, InWait, Typed
  <1>4. ASSUME NEW p \in Procs, WaitStore(p)
        PROVE  [Abstract!Next]_(Abstract!vars)
    <2>1. CASE ~monitor
      <3>1. UNCHANGED Abstract!vars
        BY <1>4, <2>1, Invisible
           DEF WaitStore, At, Goto, sched, shared, ghosts, Waiting, InWait, Typed
      <3> QED
        BY <3>1
    <2>2. CASE monitor
      <3> DEFINE s == sem[p]
      <3>1. pc[p] = "w_store" /\ s \in Sems /\ reg[p] = value[s] /\ value[s] > 0
        BY <1>4, <2>2 DEF WaitStore, At, HandlerInv, InHandler, InWait
      <3>2. /\ value' = [value EXCEPT ![s] = value[s] - 1]
            /\ holders' = [holders EXCEPT ![s] = @ \cup {p}]
            /\ sem' = [sem EXCEPT ![p] = NoSem]
            /\ pc' = [pc EXCEPT ![p] = "user"]
            /\ UNCHANGED posted
        BY <1>4, <2>2, <3>1 DEF WaitStore, Goto
      <3>3. Waiting[p] = s
        BY <3>1 DEF Waiting, InWait
      <3>4. Waiting' = [Waiting EXCEPT ![p] = 0]
        BY <3>2 DEF Waiting, InWait, NoSem, Typed
      <3>5. Abstract!Take(p, s)
        BY <3>1, <3>2, <3>3, <3>4 DEF Abstract!Take
      <3> QED
        BY <3>1, <3>5 DEF Abstract!Next
    <2> QED
      BY <2>1, <2>2
  <1>5. ASSUME NEW p \in Procs, PostLoad(p) \/ PostUnblock(p)
        PROVE  UNCHANGED Abstract!vars
    BY <1>5, Invisible
       DEF PostLoad, PostUnblock, At, Goto, sched, shared, ghosts, Waiting, InWait, Typed
  <1>6. ASSUME NEW p \in Procs, PostStore(p)
        PROVE  [Abstract!Next]_(Abstract!vars)
    <2> DEFINE s == sem[p]
    <2>1. pc[p] = "p_store" /\ s \in Sems /\ UNCHANGED sem
      BY <1>6 DEF PostStore, At, HandlerInv, InHandler, InPost
    <2>2. \A q \in Procs : Waiting'[q] = Waiting[q]
      BY <1>6 DEF PostStore, At, Goto, Waiting, InWait, Typed
    <2>3. CASE ~monitor
      <3>1. UNCHANGED Abstract!vars
        BY <1>6, <2>2, <2>3, Invisible DEF PostStore, ghosts
      <3> QED
        BY <3>1
    <2>4. CASE monitor
      <3>1. value' = [value EXCEPT ![s] = value[s] + 1]
        BY <1>6, <2>1, <2>4 DEF PostStore, HandlerInv
      <3>2. Waiting[p] = 0 /\ Waiting' = Waiting
        BY <2>1, <2>2 DEF Waiting, InWait, NoSem
      <3>3. CASE p \in holders[s]
        <4>1. Abstract!Give(p, s)
          BY <1>6, <2>4, <3>1, <3>2, <3>3 DEF PostStore, Abstract!Give
        <4> QED
          BY <2>1, <4>1 DEF Abstract!Next
      <3>4. CASE p \notin holders[s]
        <4>1. p \in Signallers /\ posted[s] < MaxSignals
          BY <2>1, <3>4 DEF HolderInv
        <4>2. Abstract!Signal(p, s)
          BY <1>6, <2>4, <3>1, <3>2, <3>4, <4>1 DEF PostStore, Abstract!Signal
        <4> QED
          BY <2>1, <4>2 DEF Abstract!Next
      <3> QED
        BY <3>3, <3>4
    <2> QED
      BY <2>3, <2>4
  <1>7. ASSUME NEW p \in Procs, Spawn(p)
        PROVE  UNCHANGED Abstract!vars
    <2>1. CASE SpawnLoad(p) \/ SpawnStore(p)
      BY <2>1, Invisible
         DEF SpawnLoad, SpawnStore, User, At, Goto, sched, shared, ghosts,
             Waiting, InWait, Typed
    <2>2. ASSUME NEW c \in Procs, SpawnLink(p, c)
          PROVE  UNCHANGED Abstract!vars
      <3>1. pc[p] = "s_link" /\ pc[c] = "none" /\ UNCHANGED <<sem, value, holders, posted>>
        BY <2>2 DEF SpawnLink, At, ghosts
      <3>2. pc' = [pc EXCEPT ![p] = "user", ![c] = "user"]
        BY <2>2 DEF SpawnLink
      <3>3. \A q \in Procs : pc'[q] = IF q \in {p, c} THEN "user" ELSE pc[q]
        BY <3>2 DEF Typed
      <3>4. \A q \in Procs : Waiting'[q] = Waiting[q]
        BY <3>1, <3>3 DEF Waiting, InWait
      <3> QED
        BY <3>1, <3>4, Invisible
    <2> QED
      BY <1>7, <2>1, <2>2 DEF Spawn
  <1>8. ASSUME NEW p \in Procs, Yield(p)
        PROVE  UNCHANGED Abstract!vars
    BY <1>8, Invisible DEF Yield, ghosts, Waiting
  <1>9. CASE SysTick
    BY <1>9, Invisible DEF SysTick, ghosts, Waiting
  <1>10. CASE PendSV
    <2>1. UNCHANGED <<sem, value, holders, posted>> /\ Switch(ring, current, pc)
      BY <1>10 DEF PendSV, ghosts
    <2>2. InRing = Elements(ring)
      BY DEF InRing, Elements
    <2>3. \A q \in Procs :
             \/ pc'[q] = pc[q] /\ reg'[q] = reg[q]
             \/ /\ q = current'
                /\ pc[q] = "w_yield"
                /\ state[q] = "Ready"
                /\ pc'[q] = "w_store"
      BY <2>1, <2>2, SwitchStep DEF Typed, RingInv
    <2>4. \A q \in Procs : Waiting'[q] = Waiting[q]
      BY <2>1, <2>3 DEF Waiting, InWait
    <2> QED
      BY <2>1, <2>4, Invisible
  <1>11. ASSUME NEW p \in Procs, Exit(p)
         PROVE  UNCHANGED Abstract!vars
    <2>1. /\ pc[p] = "user" /\ pc'[p] = "dead"
          /\ sem' = [sem EXCEPT ![p] = NoSem]
          /\ UNCHANGED <<value, holders, posted>>
      BY <1>11, ExitEffect
    <2>2. \A q \in Procs \ {p} : pc'[q] = pc[q] \/ (pc[q] = "w_yield" /\ pc'[q] = "w_store")
      BY <1>11, ExitEffect
    <2>3. \A q \in Procs \ {p} : sem'[q] = sem[q]
      BY <2>1 DEF Typed
    <2>4. \A q \in Procs : Waiting'[q] = Waiting[q]
      BY <2>1, <2>2, <2>3 DEF Waiting, InWait
    <2> QED
      BY <2>1, <2>4, Invisible
  <1>12. CASE UNCHANGED vars
    BY <1>12, Invisible DEF vars, Waiting
  <1> QED
    BY <1>1, <1>2, <1>3, <1>4, <1>5, <1>6, <1>7, <1>8, <1>9, <1>10, <1>11, <1>12
       DEF Next, WaitSyscall, PostSyscall

(* Every behaviour of the kernel is one of the abstract semaphores: the     *)
(* ldrex/strex pairs, the retries and the switch inside block() look like   *)
(* one atomic step to the processes.                                        *)
THEOREM KernelImplementsSemaphores ==
    ASSUME OneSpawner, RootStays
    PROVE  Spec => ImplementsSemaphores
  <1>1. Init => Abstract!Init
    BY InitImplements
  <1>2. IInv /\ [Next]_vars => [Abstract!Next]_(Abstract!vars)
    BY StepImplements
  <1> QED
    BY <1>1, <1>2, Inductive, PTL DEF Spec, ImplementsSemaphores, Abstract!Spec
=============================================================================
