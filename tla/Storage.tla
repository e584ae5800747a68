------------------------------- MODULE Storage -------------------------------
(***************************************************************************)
(* The RAM block device: its users initialise it, read, write and erase    *)
(* ranges that are checked first, and deinitialise it.                     *)
(*                                                                         *)
(* The count of users is kept by atomic::increment and decrement, which    *)
(* return true, converted to 1, and not the count.                         *)
(***************************************************************************)
EXTENDS Integers

CONSTANTS
    Users,
    DeviceSize, ReadSize, WriteSize, EraseSize,
    Word,        (* std::size_t holds 0 .. Word - 1                         *)
    Contents,    (* bytes that are written                                  *)
    Unread       (* what the caller's buffer held before                    *)

ASSUME StorageAssumption ==
    /\ Word \in Nat /\ {DeviceSize, ReadSize, WriteSize, EraseSize} \subseteq 1 .. Word - 1
    /\ Contents \subseteq Nat

Addresses == 0 .. DeviceSize - 1

VARIABLES
    memory,      (* what memory_ points to; unknown until the first init    *)
    initialized, (* was_initialized_                                        *)
    references,  (* reference_counter_                                      *)
    using,       (* the users between their init and their deinit           *)
    stored,      (* history: what writes stored since the first user's init *)
    cleared,     (* history: the addresses that a later init cleared and    *)
                 (* that no write has filled again                          *)
    answer,      (* of the last init, read, write or erase                  *)
    delivered,   (* the bytes of the last read that returned 0              *)
    expected     (* history: what was stored in its range then, and not     *)
                 (* cleared                                                 *)

ranges == <<answer, delivered, expected>>
histories == <<stored, cleared>>
storageVars == <<memory, initialized, references, using, histories, ranges>>

Zeros == [a \in Addresses |-> 0]

StorageInit ==
    /\ memory = Zeros /\ stored = Zeros /\ cleared = {}
    /\ initialized = FALSE /\ references = 0
    /\ using = {}
    /\ answer = 0 /\ delivered = <<>> /\ expected = <<>>

(* atomic::increment and decrement.  They are not atomic, but nobody reads  *)
(* the count, so that an update that is lost shows nowhere; what they       *)
(* return is true.                                                          *)
Increment == references' = (references + 1) % Word
Decrement == references' = (references - 1) % Word

(* increment returns 1 to everybody: each init clears the memory, also that *)
(* of a device in use, whose users are not asked.                           *)
DeviceInit(u) ==
    /\ u \notin using
    /\ Increment
    /\ memory' = Zeros /\ initialized' = TRUE /\ answer' = 0
    /\ using' = using \union {u}
    /\ IF using = {}
       THEN stored' = Zeros /\ cleared' = {} /\ delivered' = <<>> /\ expected' = <<>>
       ELSE cleared' = Addresses /\ UNCHANGED <<stored, delivered, expected>>

(* No memory for the device; it is only asked for when there is none yet.   *)
(* The user is counted all the same.                                        *)
DeviceInitFails(u) ==
    /\ u \notin using /\ ~initialized
    /\ Increment /\ answer' = -1
    /\ UNCHANGED <<memory, initialized, using, histories, delivered, expected>>

(* decrement never returns 0: the device stays initialised.                 *)
DeviceDeinitFirst(u) ==          (* fault: the first deinit counts for all  *)
    /\ u \in using
    /\ Decrement /\ initialized' = FALSE
    /\ using' = using \ {u}
    /\ UNCHANGED <<memory, histories, ranges>>

DeviceDeinit(u) ==
    /\ u \in using
    /\ IF initialized THEN Decrement ELSE UNCHANGED references
    /\ using' = using \ {u}
    /\ UNCHANGED <<memory, initialized, histories, ranges>>

(* is_write_valid and is_read_valid; the end of the range is computed in    *)
(* one word.                                                                *)
ValidRange(address, length, unit) ==
    /\ address % unit = 0 /\ length % unit = 0
    /\ (address + length) % Word <= DeviceSize

ValidRead(address, length) == ValidRange(address, length, ReadSize)

(* is_erase_valid asks for the end, not for the length.                     *)
ValidErase(address, length) ==
    /\ address % EraseSize = 0 /\ ((address + length) % Word) % EraseSize = 0
    /\ (address + length) % Word <= DeviceSize

(* A range whose end does not fit in a word is valid for the checks, and    *)
(* outside of the memory: left out here.                                    *)
OneWord(address, length) == address + length < Word

(* perform_write of the bytes; its result is dropped.                       *)
Put(old, range, byte) == [a \in Addresses |-> IF a \in range THEN byte ELSE old[a]]

PerformWrite(range, byte) ==
    memory' = IF initialized THEN Put(memory, range, byte) ELSE memory

(* write returns 0 for a valid range.                                       *)
DeviceWrite(u) ==
    /\ u \in using
    /\ \E address \in 0 .. Word - 1, length \in 0 .. Word - 1, byte \in Contents :
        LET range == address .. address + length - 1
        IN  /\ OneWord(address, length)
            /\ IF ValidRange(address, length, WriteSize)
               THEN /\ PerformWrite(range, byte)
                    /\ stored' = Put(stored, range, byte) /\ cleared' = cleared \ range
                    /\ answer' = 0
               ELSE answer' = -1 /\ UNCHANGED <<memory, histories>>
    /\ UNCHANGED <<initialized, references, using, delivered, expected>>

(* perform_read: the result that tells of a device nobody initialised is    *)
(* dropped, too.                                                            *)
PerformRead(range) ==
    [a \in range |-> IF initialized THEN memory[a] ELSE Unread]

DeviceRead(u) ==
    /\ u \in using
    /\ \E address \in 0 .. Word - 1, length \in 0 .. Word - 1 :
        LET range == address .. address + length - 1
        IN  /\ OneWord(address, length)
            /\ IF ValidRead(address, length)
               THEN /\ delivered' = PerformRead(range)
                    /\ expected' = [a \in range \ cleared |-> stored[a]]
                    /\ answer' = 0
               ELSE answer' = -1 /\ UNCHANGED <<delivered, expected>>
    /\ UNCHANGED <<memory, initialized, references, using, histories>>

(* perform_erase leaves the memory as it is.                                *)
PerformErase(address, length) == UNCHANGED memory

DeviceErase(u) ==
    /\ u \in using
    /\ \E address \in 0 .. Word - 1, length \in 0 .. Word - 1 :
        /\ OneWord(address, length)
        /\ IF ValidErase(address, length) THEN PerformErase(address, length) ELSE UNCHANGED memory
        /\ answer' = IF ValidErase(address, length) THEN 0 ELSE -1
    /\ UNCHANGED <<initialized, references, using, histories, delivered, expected>>

StorageNext ==
    \E u \in Users :
        \/ DeviceInit(u) \/ DeviceInitFails(u) \/ DeviceDeinit(u)
        \/ DeviceRead(u) \/ DeviceWrite(u) \/ DeviceErase(u)

-----------------------------------------------------------------------------

(* The bytes of a write that returned 0 to a user between its init and its  *)
(* deinit are in the memory, and a read of any user gets them, whatever the *)
(* others write, erase and deinitialise: read and write drop the results of *)
(* perform_read and perform_write, so only the count of users stands for    *)
(* it.  What does lose them is an init by another user, which clears a      *)
(* device in use; only bytes written after it are kept (block_device.cpp,   *)
(* ram_block_device.cpp).                                                   *)
WritesAreKept ==
    /\ \A a \in Addresses \ cleared : memory[a] = stored[a]
    /\ \A a \in DOMAIN expected : delivered[a] = expected[a]
=============================================================================
