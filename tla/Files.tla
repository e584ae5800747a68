-------------------------------- MODULE Files --------------------------------
(***************************************************************************)
(* Files as the processes of msos see them: the descriptor table of each   *)
(* process, the system calls on it, RamFs (mounted at "/") behind the Vfs, *)
(* directory streams and the working directory.                            *)
(*                                                                         *)
(* A path is the sequence of its names, the root <<>>; names are numbers   *)
(* in their lexicographic order.  Each call is one step, and the calls of  *)
(* different processes interleave; only open(O_CREAT) is two, because it   *)
(* appends to the list of files and then takes whatever is last there.     *)
(***************************************************************************)
EXTENDS Integers, Sequences, FiniteSets, SequencesExt

CONSTANTS
    Procs,       (* the processes                                           *)
    Walkers,     (* those that read and change directories                  *)
    Paths,       (* the absolute paths they use                             *)
    Bytes,       (* what they write                                         *)
    NumStd,      (* descriptors a process is born with (3: the terminal)    *)
    NumFds,      (* slots of Process::fd_ (8)                               *)
    MaxFiles,    (* bound: entries of the file system, the root included    *)
    MaxSize,     (* bound: bytes in all files together                      *)
    Recreate     (* FALSE: nobody creates a path that exists                *)

ASSUME FilesAssumption ==
    /\ Walkers \subseteq Procs
    /\ \A path \in Paths : path \in Seq(Nat \ {0})
    /\ <<>> \in Paths
    /\ NumStd \in Nat /\ NumFds \in Nat /\ NumStd <= NumFds
    /\ MaxFiles \in Nat /\ MaxSize \in Nat
    /\ Recreate \in BOOLEAN

VARIABLES
    files,       (* RamFs::files_                                           *)
    bits,        (* per process: the bits set in fd_map_                    *)
    slot,        (* per process: fd_                                        *)
    cwd,         (* per process: cwd_                                       *)
    stream,      (* per process: the DIR it has open                        *)
    seen,        (* history, per slot: the bytes read through it            *)
    creating     (* per process: it has appended a file and not opened it   *)

vars == <<files, bits, slot, cwd, stream, seen, creating>>

Fds   == 0..(NumFds - 1)
Std   == 0..(NumStd - 1)
Empty == [node |-> 0, pos |-> 0]       (* fd_[i] == nullptr                 *)
Tty   == [node |-> -1, pos |-> 0]      (* the terminal                      *)
NoTty == [node |-> -2, pos |-> 0]      (* nullptr too, with its bit set: no *)
                                       (* driver tty1 when it was born      *)

None == -1                             (* no name yet: d_namlen == 0        *)

NoStream == [state |-> "closed", list |-> <<>>, last |-> None]

-----------------------------------------------------------------------------
(* RamFs.                                                                   *)

(* The root's own entry, the first, is named "/" and matches no other path. *)
Entries(path) == {i \in 2..Len(files) : files[i].path = path}

Size == FoldLeft(LAMBDA n, f : n + Len(f.data), 0, files)

(* Fault: the last entry of the name.                                       *)
GetLast(path) ==
    IF path = <<>> THEN 1
    ELSE IF Entries(path) = {} THEN 0
    ELSE CHOOSE i \in Entries(path) : \A j \in Entries(path) : i >= j

(* get: the first entry of the name, 0 if there is none.                    *)
Get(path) ==
    IF path = <<>> THEN 1
    ELSE IF Entries(path) = {} THEN 0
    ELSE CHOOSE i \in Entries(path) : \A j \in Entries(path) : i <= j

File(path)      == [path |-> path, dir |-> FALSE, data |-> <<>>]
Directory(path) == [path |-> path, dir |-> TRUE, data |-> <<>>]

(* Fault: names that are equal or less go before.                           *)
InsertAtFront(names, n) == <<n>> \o names

(* insert_with_order: before the first name that is greater.                *)
InsertWithOrder(names, n) ==
    LET greater == {i \in DOMAIN names : n < names[i]}
    IN  IF greater = {} THEN Append(names, n)
        ELSE InsertAt(names, CHOOSE i \in greater : \A j \in greater : i <= j, n)

(* Nothing stops mkdir("/") and open("/", O_CREAT) from making an entry with *)
(* an empty name, which the root lists; 0 stands for that name.              *)
Name(f) == IF f.path = <<>> THEN 0 ELSE Last(f.path)

Parent(f) == IF f.path = <<>> THEN <<>> ELSE Front(f.path)

(* list: the names of the entries whose parent is path, but not the first    *)
(* entry, which is the root's own.                                          *)
List(path) ==
    LET listed[i \in 1..Len(files)] ==
            IF i = 1 THEN <<>>
            ELSE IF Parent(files[i]) = path THEN InsertWithOrder(listed[i - 1], Name(files[i]))
            ELSE listed[i - 1]
    IN  listed[Len(files)]

-----------------------------------------------------------------------------

(* The descriptors of a new process, which looks for tty1 as it is born.     *)
Born(tty) ==
    [fd \in Fds |-> IF fd \notin Std THEN Empty ELSE IF tty THEN Tty ELSE NoTty]

(* Process::get_file                                                         *)
GetFile(p, fd) == IF fd \in bits[p] THEN slot[p][fd] ELSE Empty

Init ==
    /\ files = <<Directory(<<>>)>>
    /\ bits = [p \in Procs |-> Std]
    /\ \E tty \in [Procs -> BOOLEAN] : slot = [p \in Procs |-> Born(tty[p])]
    /\ cwd = [p \in Procs |-> <<>>]
    /\ stream = [p \in Procs |-> NoStream]
    /\ seen = [p \in Procs |-> [fd \in Fds |-> <<>>]]
    /\ creating = [p \in Procs |-> FALSE]

(* Process::add_file, which returns -1 and drops the file when all slots are *)
(* in use.                                                                   *)
AddFile(p, node) ==
    IF Fds \subseteq bits[p]
    THEN UNCHANGED <<bits, slot, seen>>
    ELSE \E fd \in Fds \ bits[p] :
            /\ 0..(fd - 1) \subseteq bits[p]
            /\ bits' = [bits EXCEPT ![p] = @ \cup {fd}]
            /\ slot' = [slot EXCEPT ![p][fd] = [node |-> node, pos |-> 0]]
            /\ seen' = [seen EXCEPT ![p][fd] = <<>>]

(* _open for reading.                                                       *)
OpenRead(p, path) ==
    /\ Get(path) # 0
    /\ ~files[Get(path)].dir
    /\ AddFile(p, Get(path))
    /\ UNCHANGED <<files, cwd, stream>>

(* _open to create.  RamFs::create makes another entry, whether the path    *)
(* exists or not ...                                                        *)
Create(p, path) ==
    /\ Len(files) < MaxFiles
    /\ Recreate \/ Get(path) = 0
    /\ files' = Append(files, File(path))
    /\ creating' = [creating EXCEPT ![p] = TRUE]
    /\ UNCHANGED <<bits, slot, cwd, stream, seen>>

(* ... and takes the last entry, which others may have made meanwhile.       *)
OpenCreated(p) ==
    /\ AddFile(p, Len(files))
    /\ creating' = [creating EXCEPT ![p] = FALSE]
    /\ UNCHANGED <<files, cwd, stream>>

(* _open with any other flags.                                              *)
OpenOther(p, path) ==
    /\ Get(path) # 0
    /\ AddFile(p, Get(path))
    /\ UNCHANGED <<files, cwd, stream>>

(* Fault: the slot is reset and its bit left set.                           *)
RemoveFileKeepsBit(p, fd) ==
    /\ fd \in bits[p]
    /\ slot' = [slot EXCEPT ![p][fd] = Empty]
    /\ seen' = [seen EXCEPT ![p][fd] = <<>>]
    /\ UNCHANGED bits

RemoveFile(p, fd) ==
    /\ fd \in bits[p]
    /\ bits' = [bits EXCEPT ![p] = @ \ {fd}]
    /\ slot' = [slot EXCEPT ![p][fd] = Empty]
    /\ seen' = [seen EXCEPT ![p][fd] = <<>>]

(* _close                                                                    *)
Close(p, fd) ==
    /\ RemoveFile(p, fd)
    /\ UNCHANGED <<files, cwd, stream>>

(* RamfsFile::read: how many of n bytes the file still has.                  *)
ReadLength(file, n) ==
    LET size == Len(files[file.node].data)
    IN  IF file.pos >= size THEN 0
        ELSE IF size - file.pos > n THEN n ELSE size - file.pos

(* _read of up to n bytes                                                    *)
Read(p, fd, n) ==
    LET file == GetFile(p, fd)
        len  == ReadLength(file, n)
    IN  /\ file.node > 0
        /\ slot' = [slot EXCEPT ![p][fd] = [file EXCEPT !.pos = @ + len]]
        /\ seen' = [seen EXCEPT ![p][fd] =
                      @ \o SubSeq(files[file.node].data, file.pos + 1, file.pos + len)]
        /\ UNCHANGED <<files, bits, cwd, stream>>

(* Fault: the byte goes where the handle stands.                            *)
WriteAtPosition(file, byte) ==
    files' = [files EXCEPT ![file.node].data = InsertAt(@, file.pos + 1, byte)]

(* RamfsFile::write appends, wherever the handle stands.                     *)
WriteData(file, byte) ==
    files' = [files EXCEPT ![file.node].data = Append(@, byte)]

(* _write; more than one byte are as many steps.                             *)
Write(p, fd, byte) ==
    /\ GetFile(p, fd).node > 0
    /\ Size < MaxSize
    /\ WriteData(GetFile(p, fd), byte)
    /\ UNCHANGED <<bits, slot, cwd, stream, seen>>

(* Fault: mkdir does not look whether the path exists.                      *)
MkdirAgain(p, path) ==
    /\ Len(files) < MaxFiles
    /\ files' = Append(files, Directory(path))
    /\ UNCHANGED <<bits, slot, cwd, stream, seen>>

(* RamFs::mkdir refuses a path that exists.                                 *)
Mkdir(p, path) ==
    /\ Len(files) < MaxFiles
    /\ Entries(path) = {}
    /\ files' = Append(files, Directory(path))
    /\ UNCHANGED <<bits, slot, cwd, stream, seen>>

Chdir(p, path) ==
    /\ p \in Walkers
    /\ Get(path) # 0
    /\ files[Get(path)].dir
    /\ cwd' = [cwd EXCEPT ![p] = path]
    /\ UNCHANGED <<files, bits, slot, stream, seen>>

(* opendir takes any path that exists, and a snapshot of its listing.       *)
OpenDir(p, path) ==
    /\ p \in Walkers
    /\ stream[p].state = "closed"
    /\ Get(path) # 0
    /\ stream' = [stream EXCEPT ![p] = [state |-> "open", list |-> List(path), last |-> None]]
    /\ UNCHANGED <<files, bits, slot, cwd, seen>>

(* readdir returns the entry behind the first one named like the last it    *)
(* returned.  An empty name behind another entry leaves d_namlen at 0.       *)
ReadDir(p) ==
    LET s     == stream[p]
        found == {i \in DOMAIN s.list : s.list[i] = s.last}
        next  == IF s.last = None THEN 1
                 ELSE 1 + CHOOSE i \in found : \A j \in found : i <= j
    IN  /\ s.state = "open"
        /\ IF next \notin DOMAIN s.list
           THEN stream' = [stream EXCEPT ![p].state = "ended"]
           ELSE stream' = [stream EXCEPT ![p].last =
                              IF next > 1 /\ s.list[next] = 0 THEN None ELSE s.list[next]]
        /\ UNCHANGED <<files, bits, slot, cwd, seen>>

CloseDir(p) ==
    /\ stream[p].state # "closed"
    /\ stream' = [stream EXCEPT ![p] = NoStream]
    /\ UNCHANGED <<files, bits, slot, cwd, seen>>

(* delete_process destroys the files with the process; the next process      *)
(* starts with the terminal and in "/".  Its streams stay on the heap, where *)
(* nobody finds them again.                                                  *)
Respawn(p) ==
    /\ bits' = [bits EXCEPT ![p] = Std]
    /\ \E tty \in BOOLEAN : slot' = [slot EXCEPT ![p] = Born(tty)]
    /\ cwd' = [cwd EXCEPT ![p] = <<>>]
    /\ stream' = [stream EXCEPT ![p] = NoStream]
    /\ seen' = [seen EXCEPT ![p] = [fd \in Fds |-> <<>>]]
    /\ UNCHANGED files

(* The calls that are one step.                                             *)
Call(p) ==
    /\ \/ \E path \in Paths : \/ OpenRead(p, path)
                               \/ OpenOther(p, path)
                               \/ Mkdir(p, path)
                               \/ Chdir(p, path)
                               \/ OpenDir(p, path)
       \/ \E fd \in Fds : \/ Close(p, fd)
                          \/ \E n \in 1..MaxSize : Read(p, fd, n)
                          \/ \E byte \in Bytes : Write(p, fd, byte)
       \/ ReadDir(p)
       \/ CloseDir(p)
       \/ Respawn(p)
    /\ UNCHANGED creating

Next == \E p \in Procs :
    \/ ~creating[p] /\ Call(p)
    \/ ~creating[p] /\ \E path \in Paths : Create(p, path)
    \/ creating[p] /\ OpenCreated(p)

Spec == Init /\ [][Next]_vars

(* A process that reads a directory goes on reading it, and comes back from  *)
(* the calls it makes.                                                      *)
FairSpec ==
    /\ Spec
    /\ \A p \in Procs : /\ WF_vars(~creating[p] /\ ReadDir(p) /\ UNCHANGED creating)
                        /\ WF_vars(creating[p] /\ OpenCreated(p))

-----------------------------------------------------------------------------
(* Properties.                                                              *)

(* fd_map_ and fd_ agree whatever is opened, closed or respawned: no file     *)
(* stays open behind a free descriptor, and a call on one in use never meets  *)
(* a null pointer, but on one that a process was born with without a terminal *)
(* (Process::Process, add_file, remove_file, get_file).                       *)
SlotsMatchBits == \A p \in Procs : bits[p] = {fd \in Fds : slot[p][fd] # Empty}

(* What a process has read through a descriptor is the beginning of the file,*)
(* up to the position of the descriptor and without gaps, whoever writes the *)
(* file meanwhile and through how many descriptors (RamfsFile::read, write).  *)
ReadsArePrefixes == \A p \in Procs : \A fd \in bits[p] :
    slot[p][fd].node > 0 =>
        seen[p][fd] = SubSeq(files[slot[p][fd].node].data, 1, slot[p][fd].pos)

(* Once a path names a file, it names that file for ever, also when another   *)
(* one of the same name is created (RamFs::create, RamFs::get).               *)
NamesAreStable ==
    [][\A path \in Paths : Get(path) # 0 => Get(path)' = Get(path)]_vars

(* open, close and respawn are those of the abstract descriptor table.        *)
Abstract == INSTANCE Descriptors WITH
    held <- [p \in Procs |-> [fd \in Fds |->
                IF fd \in bits[p] THEN slot[p][fd].node ELSE 0]]

ImplementsDescriptors == Abstract!Spec

(* While nobody creates a name twice, a stream goes through the names it had  *)
(* at opendir in their order, leaves none out, repeats none, and ends behind  *)
(* the last, whatever happens to the directory (RamFs::list, readdir).        *)
StreamReturnsEach ==
    [][\A p \in Procs :
        LET s     == stream[p]
            t     == stream'[p]
            after == {n \in Range(s.list) : n > s.last}
        IN  s.state = "open" /\ t # s =>
                \/ t = NoStream
                \/ t.state = "ended" /\ after = {}
                \/ t.last \in after /\ \A n \in after : t.last <= n]_vars

(* A process that goes on reading a directory comes to its end, while nobody  *)
(* creates a name twice (readdir, which looks for the last name again).       *)
ReaddirEnds == \A p \in Procs : stream[p].state = "open" ~> stream[p].state # "open"
=============================================================================
