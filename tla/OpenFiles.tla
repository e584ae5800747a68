------------------------------ MODULE OpenFiles ------------------------------
(***************************************************************************)
(* Open files: the classes behind IFile and the system calls that end in   *)
(* them.  Files takes each call as one step; here a read and a write of a  *)
(* RamFs file come apart, as the scheduler may switch processes inside     *)
(* them and no lock keeps a reader from a writer.                          *)
(*                                                                         *)
(* Reading the terminal is in Console, drawing on the display in Display,  *)
(* what the classes only answer in Answers.                                *)
(***************************************************************************)
EXTENDS Integers, Sequences, FiniteSets, Answers

CONSTANTS
    Handles,     (* descriptors, of all processes                           *)
    Writer,      (* the one through which the RamFs file is written         *)
    Letters,     (* bytes of files                                          *)
    RomData,     (* the bytes of a file of RomFs                            *)
    Requests,    (* numbers of bytes asked for                              *)
    MaxData,     (* bound: bytes of the RamFs file                          *)
    Junk         (* what memory holds that has been freed                   *)

ASSUME OpenFilesAssumption ==
    /\ Writer \in Handles /\ Junk \notin Letters
    /\ RomData \in Seq(Letters) /\ Requests \subseteq Nat /\ MaxData \in Nat

VARIABLES
    open,        (* per descriptor: the node, its type and position_        *)
    vector,      (* RamFsData::data_: bytes, capacity and the times it moved *)
    call,        (* per descriptor: the call that is in progress            *)
    result,      (* what the last call returned                             *)
    taken,       (* history, per descriptor: the bytes reads have delivered *)
    raced        (* history, per descriptor: vector moved during a read     *)

openVars == <<open, vector, call, result, taken, raced>>

Closed == [node |-> "none", position |-> 0]
Idle == [op |-> "none"]

Returns(value) == result' = value

-----------------------------------------------------------------------------

IsOpen(h) == open[h] # Closed
Ready(h) == call[h] = Idle

OpenFilesInit ==
    /\ open = [h \in Handles |-> Closed]
    /\ vector = [data |-> <<>>, capacity |-> 0, moved |-> 0]
    /\ call = [h \in Handles |-> Idle]
    /\ result = 0
    /\ taken = [h \in Handles |-> <<>>] /\ raced = [h \in Handles |-> FALSE]

Take(h, node) ==
    /\ open' = [open EXCEPT ![h] = [node |-> node, position |-> 0]]
    /\ taken' = [taken EXCEPT ![h] = <<>>] /\ raced' = [raced EXCEPT ![h] = FALSE]

(* _open of a path that exists: a directory is refused for reading.         *)
OpenNode(h, node) ==
    /\ ~IsOpen(h)
    /\ IF Class(node).type = "directory"
       THEN Returns(-2) /\ UNCHANGED <<open, taken, raced>>
       ELSE Take(h, node) /\ Returns(0)
    /\ UNCHANGED <<vector, call>>

(* clone: a file of its own on the same data, read from its start.          *)
Clone(h, g) ==
    /\ IsOpen(h) /\ Ready(h) /\ ~IsOpen(g)
    /\ IF Class(open[h].node).clones THEN Take(g, open[h].node)
       ELSE UNCHANGED <<open, taken, raced>>
    /\ Returns(0)
    /\ UNCHANGED <<vector, call>>

CloseFile(h) ==
    /\ Ready(h) /\ IsOpen(h)
    /\ open' = [open EXCEPT ![h] = Closed]
    /\ Returns(0)
    /\ UNCHANGED <<vector, call, taken, raced>>

-----------------------------------------------------------------------------

(* Fault: the file is taken to hold what was asked for.                     *)
LengthAsked(size, position, asked) == asked

(* How much read delivers.                                                  *)
Length(size, position, asked) ==
    IF size - position > asked THEN asked ELSE size - position

(* RamfsFile::read takes length and address of the data ...                 *)
StartRead(h) ==
    /\ Ready(h) /\ open[h].node = "ram"
    /\ \E asked \in Requests :
        LET size == Len(vector.data)
            position == open[h].position
        IN  IF position >= size
            THEN Returns(0) /\ UNCHANGED call
            ELSE /\ call' = [call EXCEPT ![h] =
                        [op |-> "read", length |-> Length(size, position, asked), at |-> vector]]
                 /\ UNCHANGED result
    /\ UNCHANGED <<open, vector, taken, raced>>

(* ... and copies.  An address from before the vector moved leads to freed  *)
(* memory, which holds the old bytes or others.                             *)
FinishRead(h) ==
    /\ call[h].op = "read"
    /\ \E kept \in {call[h].at.moved = vector.moved, TRUE} :
        LET from == open[h].position
            source == IF call[h].at.moved = vector.moved THEN vector.data ELSE call[h].at.data
            bytes == [k \in 1 .. call[h].length |->
                        IF kept /\ from + k \in DOMAIN source THEN source[from + k] ELSE Junk]
        IN  taken' = [taken EXCEPT ![h] = @ \o bytes]
    /\ raced' = [raced EXCEPT ![h] = @ \/ call[h].at.moved # vector.moved]
    /\ open' = [open EXCEPT ![h].position = @ + call[h].length]
    /\ Returns(call[h].length)
    /\ call' = [call EXCEPT ![h] = Idle]
    /\ UNCHANGED <<vector>>

(* RomFsFile::read: nobody writes to the memory of RomFs.                   *)
ReadRom(h) ==
    /\ Ready(h) /\ open[h].node = "rom"
    /\ \E asked \in Requests :
        LET from == open[h].position
            length == IF from >= Len(RomData) THEN 0 ELSE Length(Len(RomData), from, asked)
            bytes == [k \in 1 .. length |->
                        IF from + k \in DOMAIN RomData THEN RomData[from + k] ELSE Junk]
        IN  /\ taken' = [taken EXCEPT ![h] = @ \o bytes]
            /\ open' = [open EXCEPT ![h].position = @ + length]
            /\ Returns(length)
    /\ UNCHANGED <<vector, call, raced>>

(* _read: an application, the root of DeviceFs and a closed descriptor are  *)
(* at their end, all of them with success.                                  *)
ReadNothing(h) ==
    /\ Ready(h) /\ open[h].node \in {"app", "devices", "none"}
    /\ Returns(0)
    /\ UNCHANGED <<open, vector, call, taken, raced>>

(* RamfsFile::write appends byte after byte; the vector moves when it is    *)
(* full.                                                                    *)
StartWrite(h) ==
    /\ Ready(h) /\ h = Writer /\ open[h].node = "ram"
    /\ \E bytes \in UNION {[1 .. n -> Letters] : n \in Requests} :
        call' = [call EXCEPT ![h] = [op |-> "write", rest |-> bytes, size |-> Len(bytes)]]
    /\ UNCHANGED <<open, vector, result, taken, raced>>

PushByte(h) ==
    /\ call[h].op = "write" /\ call[h].rest # <<>> /\ Len(vector.data) < MaxData
    /\ LET full == Len(vector.data) = vector.capacity
       IN  vector' =
            [data |-> Append(vector.data, Head(call[h].rest)),
             capacity |-> IF ~full THEN vector.capacity
                          ELSE IF vector.capacity = 0 THEN 1 ELSE 2 * vector.capacity,
             moved |-> IF full THEN vector.moved + 1 ELSE vector.moved]
    /\ call' = [call EXCEPT ![h].rest = Tail(@)]
    /\ UNCHANGED <<open, result, taken, raced>>

FinishWrite(h) ==
    /\ call[h].op = "write" /\ call[h].rest = <<>>
    /\ Returns(call[h].size)
    /\ call' = [call EXCEPT ![h] = Idle]
    /\ UNCHANGED <<open, vector, taken, raced>>

(* _write to what does not store: only RomFs says so.                       *)
WriteNothing(h) ==
    /\ Ready(h) /\ open[h].node \in {"rom", "app", "devices", "none"}
    /\ Returns(IF IsOpen(h) THEN Class(open[h].node).write ELSE 0)
    /\ UNCHANGED <<open, vector, call, taken, raced>>

(* UsartFile::write sends everything before it returns.                     *)
WriteTty(h) ==
    /\ Ready(h) /\ open[h].node = "tty"
    /\ \E size \in Requests : Returns(size)
    /\ UNCHANGED <<open, vector, call, taken, raced>>

-----------------------------------------------------------------------------

(* _lseek and _isatty never look at the file: 0 from _lseek says that the   *)
(* position is the start, but it is where it was.                           *)
Lseek(h) ==
    /\ Ready(h) /\ Returns(0)
    /\ UNCHANGED <<open, vector, call, taken, raced>>

OpenFilesNext ==
    \E h \in Handles :
        \/ \E node \in Nodes : OpenNode(h, node)
        \/ \E g \in Handles : Clone(h, g)
        \/ CloseFile(h)
        \/ StartRead(h) \/ FinishRead(h) \/ ReadRom(h) \/ ReadNothing(h)
        \/ StartWrite(h) \/ PushByte(h) \/ FinishWrite(h) \/ WriteNothing(h) \/ WriteTty(h)
        \/ Lseek(h)

-----------------------------------------------------------------------------

Content(node) ==
    CASE node = "ram" -> vector.data
      [] node = "rom" -> RomData
      [] OTHER -> <<>>

(* What a descriptor has read since it was opened or cloned is the          *)
(* beginning of the file, up to its own position and not beyond the end,    *)
(* while another process writes byte by byte, unless the data has moved in  *)
(* memory between the two halves of one of its reads (ramfs_file.cpp,       *)
(* romfs_file.cpp); lseek in between changes nothing (syscalls.cpp).        *)
ReadsContinue ==
    \A h \in Handles : IsOpen(h) /\ ~raced[h] =>
        /\ open[h].position <= Len(Content(open[h].node))
        /\ taken[h] = SubSeq(Content(open[h].node), 1, open[h].position)
=============================================================================
