------------------------------- MODULE Commands -------------------------------
(***************************************************************************)
(* The commands of ioctl: a word made of a direction, a size, a type and a *)
(* number, and the ones that terminals know.  The fields' widths are       *)
(* parameters; in the code they are 8, 8, 14 and 2 bits.                   *)
(***************************************************************************)
EXTENDS Naturals

CONSTANTS
    NumberSize,      (* _IOC_NUMBER_SIZE                                    *)
    TypeSize,        (* _IOC_TYPE_SIZE                                      *)
    SizeSize,        (* _IOC_SIZE_SIZE                                      *)
    DirectionSize,   (* _IOC_DIRECTION_SIZE                                 *)
    TerminalType     (* 't'                                                 *)

ASSUME CommandsAssumption ==
    /\ {NumberSize, TypeSize, SizeSize, DirectionSize} \subseteq Nat \ {0}
    /\ TerminalType \in 0 .. 2 ^ TypeSize - 1

Directions == [none |-> 0, write |-> 1, read |-> 2]

NumberPosition == 0
TypePosition == NumberPosition + NumberSize
SizePosition == TypePosition + TypeSize
DirectionPosition == SizePosition + SizeSize

(* The fields are or-ed together; they do not overlap when each one fits.   *)
IOC(direction, type, number, size) ==
    direction * 2 ^ DirectionPosition + type * 2 ^ TypePosition
        + number * 2 ^ NumberPosition + size * 2 ^ SizePosition

IO(type, number) == IOC(Directions.none, type, number, 0)
IOW(type, number, size) == IOC(Directions.write, type, number, size)
IOR(type, number, size) == IOC(Directions.read, type, number, size)
IOWR(type, number, size) == IOC(Directions.read + Directions.write, type, number, size)

IOCDirection(call) == (call \div 2 ^ DirectionPosition) % 2 ^ DirectionSize
IOCType(call) == (call \div 2 ^ TypePosition) % 2 ^ TypeSize
IOCNumber(call) == (call \div 2 ^ NumberPosition) % 2 ^ NumberSize
IOCSize(call) == (call \div 2 ^ SizePosition) % 2 ^ SizeSize

(* sizeof: four words, a byte and the nineteen of c_cc; four half words.    *)
SizeOfTermios == 4 * 4 + 1 + 19
SizeOfWinsize == 4 * 2

GetAttributes == IOR(TerminalType, 19, SizeOfTermios)
SetAttributes == IOW(TerminalType, 20, SizeOfTermios)
SetAfterDrain == IOW(TerminalType, 21, SizeOfTermios)
SetAfterFlush == IOW(TerminalType, 22, SizeOfTermios)
GetWindowSize == IOR(TerminalType, 104, SizeOfWinsize)

(* tcsetattr: the command for TCSANOW, TCSADRAIN and TCSAFLUSH; any other   *)
(* action is EINVAL.                                                        *)
Actions == [now |-> SetAttributes, drain |-> SetAfterDrain, flush |-> SetAfterFlush]

(* c_lflag & ECHO                                                           *)
EchoFlag == 2
HasEcho(flags) == (flags \div EchoFlag) % 2 = 1
=============================================================================
