----------------------------- MODULE Descriptors -----------------------------
(***************************************************************************)
(* What a process may rely on when it opens and closes files: a new        *)
(* descriptor is the least that is free, it stands for the same file until *)
(* it is closed, and no call touches another descriptor or another process.*)
(***************************************************************************)
EXTENDS Integers

CONSTANTS Procs, NumStd, NumFds

VARIABLE held     (* per process and descriptor: its file, 0 if it is free   *)

Fds == 0..(NumFds - 1)

Fresh(h) == \A fd \in Fds : h[fd] # 0 <=> fd < NumStd

Init == \A p \in Procs : Fresh(held[p])

Allocate(p) == \E fd \in Fds :
    /\ held[p][fd] = 0
    /\ \A lower \in 0..(fd - 1) : held[p][lower] # 0
    /\ held'[p][fd] # 0
    /\ held' = [held EXCEPT ![p][fd] = held'[p][fd]]

Release(p) == \E fd \in Fds :
    /\ held[p][fd] # 0
    /\ held' = [held EXCEPT ![p][fd] = 0]

(* The process ends and another one takes its place.                        *)
Reset(p) ==
    /\ Fresh(held'[p])
    /\ held' = [held EXCEPT ![p] = held'[p]]

Next == \E p \in Procs : Allocate(p) \/ Release(p) \/ Reset(p)

Spec == Init /\ [][Next]_held
=============================================================================
