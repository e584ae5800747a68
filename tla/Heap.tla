-------------------------------- MODULE Heap ----------------------------------
(***************************************************************************)
(* The heap: _sbrk, which hands out memory to the allocator.               *)
(*                                                                         *)
(* Nothing keeps two processes from being in _sbrk at once.  It reads      *)
(* current_heap_end three times; the compiled code may keep what it has    *)
(* read.                                                                   *)
(***************************************************************************)
EXTENDS Integers, Sequences, FiniteSets

CONSTANTS
    Callers,     (* processes                                               *)
    HeapSize,    (* __heap_end - __heap_start                               *)
    Increments,  (* amounts that are asked for                              *)
    MaxRegions   (* bound: calls of _sbrk that succeed                      *)

ASSUME HeapAssumption == {HeapSize, MaxRegions} \subseteq Nat /\ Increments \subseteq Nat

VARIABLES
    heapEnd,     (* current_heap_end - __heap_start                         *)
    sbrk,        (* per caller: how far its call of _sbrk is                *)
    regions,     (* history: what _sbrk has handed out, and to a call that  *)
                 (* no other one ran into?                                  *)
    crossed      (* history: callers whose call another one ran into        *)

heapVars == <<heapEnd, sbrk, regions, crossed>>

NoCall == [step |-> "none"]

HeapInit ==
    /\ heapEnd = 0 /\ sbrk = [c \in Callers |-> NoCall]
    /\ regions = <<>> /\ crossed = {}

InCall == {c \in Callers : sbrk[c] # NoCall}

(* Fault: the last increment may go beyond the end.                         *)
CheckBoundLate(c) ==
    /\ sbrk[c] = NoCall /\ Len(regions) + Cardinality(InCall) < MaxRegions
    /\ \E n \in Increments :
        sbrk' = IF heapEnd > HeapSize THEN sbrk
                ELSE [sbrk EXCEPT ![c] = [step |-> "bounded", increment |-> n, end |-> heapEnd]]
    /\ crossed' = IF InCall = {} THEN crossed \ {c} ELSE crossed \union InCall \union {c}
    /\ UNCHANGED <<heapEnd, regions>>

(* The bound is checked: beyond it the answer is NULL with ENOMEM ...       *)
CheckBound(c) ==
    /\ sbrk[c] = NoCall /\ Len(regions) + Cardinality(InCall) < MaxRegions
    /\ \E n \in Increments :
        sbrk' = IF heapEnd + n > HeapSize THEN sbrk
                ELSE [sbrk EXCEPT ![c] = [step |-> "bounded", increment |-> n, end |-> heapEnd]]
    /\ crossed' = IF InCall = {} THEN crossed \ {c} ELSE crossed \union InCall \union {c}
    /\ UNCHANGED <<heapEnd, regions>>

(* ... then the end becomes the previous one ...                            *)
TakeEnd(c) ==
    /\ sbrk[c].step = "bounded"
    /\ \E previous \in {sbrk[c].end, heapEnd} :
        sbrk' = [sbrk EXCEPT ![c] = [@ EXCEPT !.step = "taken", !.end = previous]]
    /\ UNCHANGED <<heapEnd, regions, crossed>>

(* ... and is moved on.                                                     *)
MoveEnd(c) ==
    /\ sbrk[c].step = "taken"
    /\ \E end \in {sbrk[c].end, heapEnd} : heapEnd' = end + sbrk[c].increment
    /\ regions' = Append(regions,
            [from |-> sbrk[c].end, to |-> sbrk[c].end + sbrk[c].increment, own |-> c \notin crossed])
    /\ sbrk' = [sbrk EXCEPT ![c] = NoCall]
    /\ UNCHANGED crossed

HeapNext == \E c \in Callers : CheckBound(c) \/ TakeEnd(c) \/ MoveEnd(c)

-----------------------------------------------------------------------------

Apart(r, s) == r.to <= s.from \/ s.to <= r.from

(* Memory that _sbrk has handed out to calls that no other call ran into is *)
(* inside the heap, and no two of them share a byte, whatever calls that    *)
(* did run into each other made of the end in between (syscalls.cpp).       *)
(* Calls that ran into each other do share memory, in the model as in the   *)
(* code, and are left out.                                                  *)
HeapIsOwn ==
    \A i \in DOMAIN regions : regions[i].own =>
        /\ regions[i].to <= HeapSize
        /\ \A k \in DOMAIN regions \ {i} : regions[k].own => Apart(regions[i], regions[k])
=============================================================================
