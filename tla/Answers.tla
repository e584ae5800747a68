-------------------------------- MODULE Answers -------------------------------
(***************************************************************************)
(* What the system answers without touching its data: the operations of    *)
(* the classes behind IFile and IFileSystem that return a fixed value, the *)
(* commands of terminals, the clock and the stubs among the system calls.  *)
(* The terminal's echo is all they change.                                 *)
(***************************************************************************)
EXTENDS Integers, Commands

CONSTANTS
    Others,      (* commands of ioctl that are not for terminals            *)
    LocalFlags,  (* values of c_lflag                                       *)
    Moments,     (* what the clock may say, in microseconds                 *)
    Second,      (* microseconds of a second, 1000000 in the code           *)
    ClockBits,   (* width of clock_t                                        *)
    Untouched    (* what the caller's structure held before the call        *)

ASSUME AnswersAssumption ==
    /\ (Others \union LocalFlags \union Moments) \subseteq Nat
    /\ Second \in Nat \ {0} /\ ClockBits \in Nat

VARIABLES
    echo,        (* UsartDriver::echo_                                      *)
    reply        (* what the last call returned, and wrote for its caller   *)

answerVars == <<echo, reply>>

AnswersInit ==
    /\ echo = TRUE
    /\ reply = [value |-> 0, out |-> Untouched]

Says(value) == reply' = [value |-> value, out |-> Untouched]

(* What a descriptor may stand for; "none" is a descriptor that is closed.  *)
Nodes == {"ram", "ramdir", "rom", "romdir", "app", "apps", "devices", "tty"}

-----------------------------------------------------------------------------
(* The operations that a class answers the same way whatever its state:     *)
(* the values of seek, tell, size, sync and ioctl, the file type of stat,   *)
(* and what write returns when it stores nothing.                           *)

RamfsFile(node) ==
    [seek |-> 0, tell |-> 0, size |-> 0, sync |-> 0, close |-> 0, ioctl |-> -1,
     type |-> IF node = "ramdir" THEN "directory" ELSE "regular", clones |-> TRUE]

RomFsFile(node) ==
    [seek |-> 0, tell |-> 0, size |-> 0, sync |-> 0, close |-> 0, ioctl |-> -1, write |-> -1,
     type |-> IF node = "romdir" THEN "directory" ELSE "regular", clones |-> TRUE]

(* The entry named "/" is the root of the registry.                         *)
AppFile(node) ==
    [seek |-> 0, tell |-> 0, size |-> 0, sync |-> 0, close |-> 0, ioctl |-> -1, write |-> 0,
     type |-> IF node = "apps" THEN "directory" ELSE "regular", clones |-> FALSE]

(* stat gives no type, so that the root of DeviceFs opens like a file.      *)
DeviceFsRootFile ==
    [seek |-> 0, tell |-> 0, size |-> 0, sync |-> 0, close |-> 0, ioctl |-> -1, write |-> 0,
     type |-> "none", clones |-> TRUE]

CharacterFile == [seek |-> 1, tell |-> 1, size |-> 0, sync |-> 0]

UsartFile ==
    [seek |-> CharacterFile.seek, tell |-> CharacterFile.tell, size |-> CharacterFile.size,
     sync |-> CharacterFile.sync, close |-> 0, ioctl |-> 0, type |-> "character", clones |-> TRUE]

Class(node) ==
    CASE node \in {"ram", "ramdir"} -> RamfsFile(node)
      [] node \in {"rom", "romdir"} -> RomFsFile(node)
      [] node \in {"app", "apps"} -> AppFile(node)
      [] node = "devices" -> DeviceFsRootFile
      [] node = "tty" -> UsartFile

(* The same for the file systems: what mount, umount, create without a path *)
(* (format), remove, stat and mkdir may return.  None of them does what its *)
(* name says but RamFs::mkdir: -1 is for a directory that is there.         *)

ReadOnlyFileSystem == [format |-> {-1}, remove |-> {-1}, mkdir |-> {-1}]

RamFs ==
    [mount |-> {1}, umount |-> {1}, format |-> {1}, remove |-> {1}, stat |-> {1},
     mkdir |-> {0, -1}]

RomFs ==
    [mount |-> {1}, umount |-> {1}, stat |-> {1}, format |-> ReadOnlyFileSystem.format,
     remove |-> ReadOnlyFileSystem.remove, mkdir |-> ReadOnlyFileSystem.mkdir]

DeviceFs ==
    [mount |-> {0}, umount |-> {0}, stat |-> {0}, format |-> ReadOnlyFileSystem.format,
     remove |-> ReadOnlyFileSystem.remove, mkdir |-> ReadOnlyFileSystem.mkdir]

AppRegistry ==
    [mount |-> {0}, umount |-> {0}, format |-> {0}, remove |-> {0}, stat |-> {0},
     mkdir |-> {0}]

FileSystem(fs) ==
    CASE fs = "RamFs" -> RamFs
      [] fs = "RomFs" -> RomFs
      [] fs = "DeviceFs" -> DeviceFs
      [] fs = "AppRegistry" -> AppRegistry

(* Vfs answers for itself; a path it passes on to the file system that is   *)
(* mounted there, "none" before the first mount.                            *)
VfsItself == [mount |-> {1}, umount |-> {1}, format |-> {1}]

Vfs(fs) ==
    IF fs = "none" THEN [remove |-> {-1}, stat |-> {-1}, mkdir |-> {-1}] ELSE FileSystem(fs)

FileSystemAnswers ==
    UNION {UNION {answers[op] : op \in DOMAIN answers} :
        answers \in {VfsItself} \union
            {Vfs(fs) : fs \in {"none", "RamFs", "RomFs", "DeviceFs", "AppRegistry"}}}

-----------------------------------------------------------------------------

(* The operations of IFile that only ask, as the kernel calls them.         *)
Ask(node) ==
    /\ node # "none"
    /\ \E op \in {"seek", "tell", "size", "close"} : Says(Class(node)[op])
    /\ UNCHANGED echo

(* The operations of IFileSystem that only answer, through Vfs or not.      *)
AskFileSystem ==
    /\ \E value \in FileSystemAnswers : Says(value)
    /\ UNCHANGED echo

(* fsync and ioctl are the calls that tell a closed descriptor.             *)
Fsync(node) ==
    /\ Says(IF node = "none" THEN -1 ELSE Class(node).sync)
    /\ UNCHANGED echo

Terminals == {GetAttributes, SetAttributes, SetAfterDrain, SetAfterFlush, GetWindowSize}

(* UsartFile::ioctl: by the number of the command, whatever its group.  To  *)
(* set attributes after a drain or a flush does nothing.                    *)
UsartIoctl(command, flags) ==
    /\ reply' = [value |-> UsartFile.ioctl,
                  out |-> CASE IOCNumber(command) = 104 -> <<24, 80, 0, 0>>
                            [] IOCNumber(command) = 19 -> <<0>>
                            [] OTHER -> Untouched]
    /\ echo' = IF IOCNumber(command) = 20 THEN HasEcho(flags) ELSE echo

(* ioctl, with the local flags of the termios its argument points to.       *)
Ioctl(node, command, flags) ==
    IF node = "tty" THEN UsartIoctl(command, flags)
    ELSE Says(IF node = "none" THEN -1 ELSE Class(node).ioctl) /\ UNCHANGED echo

Tcgetattr(node) == Ioctl(node, GetAttributes, 0)

(* An action that is none of the three is refused before ioctl.             *)
Tcsetattr(node, action, flags) ==
    IF action \in DOMAIN Actions THEN Ioctl(node, Actions[action], flags)
    ELSE reply' = [value |-> -1, out |-> "EINVAL"] /\ UNCHANGED echo

Control(node) ==
    \/ \E command \in Terminals \union Others, flags \in LocalFlags : Ioctl(node, command, flags)
    \/ Tcgetattr(node)
    \/ \E action \in DOMAIN Actions \union {"other"}, flags \in LocalFlags :
          Tcsetattr(node, action, flags)

(* _fstat succeeds and leaves the structure as it was.                      *)
Fstat == Says(0) /\ UNCHANGED echo

(* _gettimeofday: seconds and the microseconds left.                        *)
TimeOfDay(moment) ==
    LET seconds == moment \div Second
    IN  [value |-> 0, out |-> <<seconds, moment - seconds * Second>>]

(* _times: all of it is system time, as far as clock_t can count.           *)
Times(moment) ==
    LET clock == moment % 2 ^ ClockBits
    IN  [value |-> clock, out |-> <<0, clock, 0, 0>>]

(* _kill, _getpid and _fork do nothing, with success.                       *)
Stub == [value |-> 0, out |-> Untouched]

AskKernel ==
    /\ reply' \in {TimeOfDay(m) : m \in Moments} \union {Times(m) : m \in Moments} \union {Stub}
    /\ UNCHANGED echo

AnswersNext ==
    \/ AskFileSystem \/ AskKernel \/ Fstat
    \/ \E node \in Nodes \union {"none"} : Ask(node) \/ Fsync(node) \/ Control(node)
=============================================================================
