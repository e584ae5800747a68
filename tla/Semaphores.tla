----------------------------- MODULE Semaphores -----------------------------
(***************************************************************************)
(* What semaphore_wait and semaphore_post promise to the processes that    *)
(* call them, with no scheduler, no handlers and no exclusive monitor: a   *)
(* wait takes one unit when there is one, a post gives one back.           *)
(***************************************************************************)
EXTENDS Integers, FiniteSets

CONSTANTS Procs, Sems, InitValue, Signallers, MaxSignals

VARIABLES
    value,      (* units left in each semaphore                             *)
    waiting,    (* the semaphore a process has asked for, 0 if none         *)
    holders,    (* the processes that took a unit and did not give it back  *)
    posted      (* units added by processes that held none                  *)

vars == <<value, waiting, holders, posted>>

Init ==
    /\ value = InitValue
    /\ waiting = [p \in Procs |-> 0]
    /\ holders = [s \in Sems |-> {}]
    /\ posted = [s \in Sems |-> 0]

(* Semaphore::wait is called ...                                            *)
Request(p, s) ==
    /\ waiting[p] = 0
    /\ p \notin holders[s]
    /\ waiting' = [waiting EXCEPT ![p] = s]
    /\ UNCHANGED <<value, holders, posted>>

(* ... and returns.                                                         *)
Take(p, s) ==
    /\ waiting[p] = s
    /\ value[s] > 0
    /\ value' = [value EXCEPT ![s] = @ - 1]
    /\ holders' = [holders EXCEPT ![s] = @ \cup {p}]
    /\ waiting' = [waiting EXCEPT ![p] = 0]
    /\ UNCHANGED posted

(* Semaphore::post by a holder, and by somebody else.                       *)
Give(p, s) ==
    /\ waiting[p] = 0
    /\ p \in holders[s]
    /\ value' = [value EXCEPT ![s] = @ + 1]
    /\ holders' = [holders EXCEPT ![s] = @ \ {p}]
    /\ UNCHANGED <<waiting, posted>>

Signal(p, s) ==
    /\ waiting[p] = 0
    /\ p \in Signallers \ holders[s]
    /\ posted[s] < MaxSignals
    /\ value' = [value EXCEPT ![s] = @ + 1]
    /\ posted' = [posted EXCEPT ![s] = @ + 1]
    /\ UNCHANGED <<waiting, holders>>

Next == \E p \in Procs, s \in Sems :
            Request(p, s) \/ Take(p, s) \/ Give(p, s) \/ Signal(p, s)

Spec == Init /\ [][Next]_vars

(* A unit that stays available while somebody asks for it is taken; which   *)
(* of the processes that ask gets it is left open.                          *)
Fairness == \A s \in Sems : WF_vars(\E p \in Procs : Take(p, s))

FairSpec == Spec /\ Fairness
=============================================================================
