------------------------------- MODULE MCParts --------------------------------
(***************************************************************************)
(* An instance of the parts for TLC.                                       *)
(***************************************************************************)
EXTENDS Parts

Rom == <<1, 2>>

ApiFile == (1 :> 0) @@ (2 :> 6)

LibraryRanges == <<[start |-> 1, stop |-> 3], [start |-> 3, stop |-> 6]>>

(* Commands of another type, with numbers that terminals use and others.    *)
OtherCommands == {IO(1, 20), IOWR(1, 104, SizeOfWinsize), IO(TerminalType, 3)}

(* The longest text a process keeps, one more, and shorter ones.            *)
MCTexts == {<<"/">>, <<"/", "a">>, <<"/", "a", "b">>, <<"/", "a", "/", "b", "a">>,
            <<"/", "a", "/", "b", "a", "b">>}

(* Every path of up to four characters; names differ in length.             *)
MCViews == UNION {[1 .. n -> {"/", "a"}] : n \in 0 .. 4}

(* What is put into a command is what the macros take out of it.            *)
ASSUME CommandsKeepFields ==
    \A direction \in 0 .. 3, type \in 0 .. 7, number \in {0, 1, 104, 255}, bytes \in {0, 1, 8, 36, 63} :
        LET command == IOC(direction, type, number, bytes)
        IN  /\ IOCNumber(command) = number /\ IOCType(command) = type
            /\ IOCSize(command) = bytes /\ IOCDirection(command) = direction

(* Processes differ in nothing else than their names.                       *)
Symmetry == Permutations(Tasks)
=============================================================================
