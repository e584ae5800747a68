------------------------------- MODULE Malloc ---------------------------------
(***************************************************************************)
(* The wrappers around the allocator, which keep the size of each block in *)
(* a word in front of it and count the memory in use.                      *)
(*                                                                         *)
(* current_usage is loaded, changed and stored with no lock, so updates of *)
(* two processes can overlap and one is lost.  malloc does not look at     *)
(* what the allocator answers: for NULL the size is written at address 0   *)
(* and counted all the same.  free does not look for NULL: it subtracts    *)
(* the word in front of address 0, whatever is read there, and gives that  *)
(* address to the allocator.  Where the core faults on such an access      *)
(* nothing follows; what the allocator does with the address is not        *)
(* followed.  The allocator itself is external; its work is one step with  *)
(* the load of the count.  __wrap_realloc is left out: it gives            *)
(* __real_realloc an address that is not the start of a block.             *)
(***************************************************************************)
EXTENDS Heap, FiniteSetsExt

CONSTANTS
    Blocks,      (* blocks the allocator can give                           *)
    WordBytes,   (* sizeof(size_t)                                          *)
    MaxUsage     (* bound: the counts that are followed                     *)

ASSUME MallocAssumption == {WordBytes, MaxUsage} \subseteq Nat

VARIABLES
    blocks,      (* memory[0] of each block in use                          *)
    usage,       (* current_usage                                           *)
    counting,    (* per caller: what it is about to store in current_usage, *)
                 (* and the block it gives back then                        *)
    miscounted   (* history: NULL was counted, or updates overlapped        *)

mallocVars == <<blocks, usage, counting, miscounted>>

NoCount == [to |-> "none"]

MallocInit ==
    /\ blocks = [b \in {} |-> 0] /\ usage = 0
    /\ counting = [c \in Callers |-> NoCount] /\ miscounted = FALSE

Counting == {c \in Callers : counting[c] # NoCount}

(* The load of the count, with what will be stored.                         *)
LoadUsage(c, amount, freed) ==
    /\ counting[c] = NoCount /\ usage + amount \in -MaxUsage..MaxUsage
    /\ counting' = [counting EXCEPT ![c] = [to |-> usage + amount, freed |-> freed]]
    /\ UNCHANGED usage

(* Fault: the word in front of the block counts for nothing in its size.    *)
WrapMallocBare(c, size) ==
    /\ \E b \in Blocks \ DOMAIN blocks :
        blocks' = [x \in DOMAIN blocks \union {b} |-> IF x = b THEN size ELSE blocks[x]]
    /\ LoadUsage(c, size + WordBytes, {})
    /\ miscounted' = (miscounted \/ Counting # {})

(* __wrap_malloc when the allocator has a block ...                         *)
WrapMalloc(c, size) ==
    /\ \E b \in Blocks \ DOMAIN blocks :
        blocks' = [x \in DOMAIN blocks \union {b} |->
                    IF x = b THEN size + WordBytes ELSE blocks[x]]
    /\ LoadUsage(c, size + WordBytes, {})
    /\ miscounted' = (miscounted \/ Counting # {})

(* ... and when it answers NULL.                                            *)
WrapMallocNull(c, size) ==
    /\ LoadUsage(c, size + WordBytes, {}) /\ miscounted' = TRUE
    /\ UNCHANGED blocks

(* __wrap_free of a block that nobody else is giving back ...               *)
WrapFree(c, b) ==
    /\ b \in DOMAIN blocks /\ \A d \in Counting : b \notin counting[d].freed
    /\ LoadUsage(c, -blocks[b], {b})
    /\ miscounted' = (miscounted \/ Counting # {})
    /\ UNCHANGED blocks

(* ... and of NULL, with the word that is in front of it.                   *)
WrapFreeNull(c, word) ==
    /\ LoadUsage(c, -word, {}) /\ miscounted' = TRUE
    /\ UNCHANGED blocks

(* The store of the count; __real_free follows it.                          *)
StoreUsage(c) ==
    /\ counting[c] # NoCount
    /\ usage' = counting[c].to
    /\ blocks' = [x \in DOMAIN blocks \ counting[c].freed |-> blocks[x]]
    /\ counting' = [counting EXCEPT ![c] = NoCount]
    /\ UNCHANGED miscounted

MallocNext == \E c \in Callers :
    \/ \E n \in Increments : WrapMalloc(c, n) \/ WrapMallocNull(c, n) \/ WrapFreeNull(c, n)
    \/ \E b \in Blocks : WrapFree(c, b)
    \/ StoreUsage(c)

-----------------------------------------------------------------------------

(* Whenever no update of the count is under way, it is the sum of the sizes *)
(* kept in front of the blocks in use, however many were taken and given    *)
(* back before, as long as the allocator always had a block, NULL was never *)
(* freed and no two updates overlapped (malloc.cpp): each of the three      *)
(* leaves the count wrong for ever, in the model as in the code.            *)
UsageIsCounted ==
    ~miscounted /\ Counting = {} => usage = MapThenSumSet(LAMBDA b : blocks[b], DOMAIN blocks)
=============================================================================
