------------------------------- MODULE Display -------------------------------
(***************************************************************************)
(* The SSD1306 driver: a write waits until the bus is free, copies the     *)
(* frame to the driver's one buffer, sends six commands that take the      *)
(* controller's cursor home and starts the DMA, which sends the buffer     *)
(* while the process goes on.  Any process may have the display open.      *)
(*                                                                         *)
(* The I2C port, its DMA and the controller are hardware: start, the bytes *)
(* and stop of a command are one step, a byte of the DMA is one step.      *)
(***************************************************************************)
EXTENDS Integers, Sequences

CONSTANTS
    Painters,    (* processes that write to the display                     *)
    Columns, Pages,
    Colours      (* bytes; a write is all of one of them, 0 is black        *)

ASSUME DisplayAssumption ==
    /\ Columns \in Nat \ {0} /\ Pages \in Nat \ {0}
    /\ 0 \in Colours

Size == Columns * Pages          (* 1024                                    *)
Cells == 0 .. Size - 1

VARIABLES
    frame,       (* the driver's buffer_                                    *)
    screen,      (* the controller's memory                                 *)
    cursor,      (* where its next byte goes                                *)
    operands,    (* the command it got last, and the operands it expects    *)
    sent,        (* bytes the DMA has sent; Size: it does not run           *)
    at,          (* where each process is in write                          *)
    commands,    (* how many commands it has left to send                   *)
    painted,     (* what the writes should have painted, one after another  *)
    overlapped   (* a write went past the wait while another had            *)

displayVars == <<frame, screen, cursor, operands, sent, at, commands, painted, overlapped>>

busy == sent < Size

Home == <<"column", "from", "to", "page", "from", "to">>
Origin == [column |-> 0, page |-> 0]

(* After load: black, and the bytes of clear() have gone once around.       *)
DisplayInit ==
    /\ frame = [i \in Cells |-> 0] /\ screen = frame /\ painted = frame
    /\ cursor = Origin /\ operands = <<"page", 0>>
    /\ sent = Size
    /\ at = [p \in Painters |-> "out"] /\ commands = [p \in Painters |-> 0]
    /\ overlapped = FALSE

(* Ssd1306File::write.                                                      *)
Write(p) ==
    /\ at[p] = "out"
    /\ at' = [at EXCEPT ![p] = "wait"]
    /\ UNCHANGED <<frame, screen, cursor, operands, sent, commands, painted, overlapped>>

Past(p) == at[p] \notin {"out", "wait"}

(* while (driver_.busy());                                                  *)
WaitNot(p) ==                    (* fault: does not wait for the DMA        *)
    /\ at[p] = "wait"
    /\ at' = [at EXCEPT ![p] = "copy"]
    /\ overlapped' = (overlapped \/ \E q \in Painters : Past(q))
    /\ UNCHANGED <<frame, screen, cursor, operands, sent, commands, painted>>

Wait(p) ==
    /\ at[p] = "wait" /\ ~busy
    /\ at' = [at EXCEPT ![p] = "copy"]
    /\ overlapped' = (overlapped \/ \E q \in Painters : Past(q))
    /\ UNCHANGED <<frame, screen, cursor, operands, sent, commands, painted>>

(* memcpy of as many bytes as the caller gives: what the frame has beyond   *)
(* them stays.                                                              *)
Overlay(old, colour, size) == [i \in Cells |-> IF i < size THEN colour ELSE old[i]]

Copy(p) ==
    /\ at[p] = "copy"
    /\ \E colour \in Colours, size \in 1 .. Size :
        /\ frame' = Overlay(frame, colour, size)
        /\ painted' = Overlay(painted, colour, size)
    /\ at' = [at EXCEPT ![p] = "home"]
    /\ commands' = [commands EXCEPT ![p] = Len(Home)]
    /\ UNCHANGED <<screen, cursor, operands, sent, overlapped>>

(* The controller takes a command, or an operand of the one before it; the  *)
(* first operand of a range takes the cursor to its start.                  *)
Command(byte) ==
    /\ operands' = IF operands[2] = 0 THEN <<byte, 2>> ELSE <<operands[1], operands[2] - 1>>
    /\ cursor' = [c \in DOMAIN cursor |-> IF operands = <<c, 2>> THEN 0 ELSE cursor[c]]

(* setHome: a sendCommand each for the ranges and their ends.               *)
SetHome(p) ==
    /\ at[p] = "home" /\ commands[p] > 0
    /\ Command(Home[Len(Home) + 1 - commands[p]])
    /\ commands' = [commands EXCEPT ![p] = @ - 1]
    /\ UNCHANGED <<frame, screen, sent, at, painted, overlapped>>

StartDma(p) ==
    /\ at[p] = "home" /\ commands[p] = 0
    /\ sent' = 0
    /\ at' = [at EXCEPT ![p] = "out"]
    /\ UNCHANGED <<frame, screen, cursor, operands, commands, painted, overlapped>>

(* A byte of data goes to the cursor, which moves on through the page, the  *)
(* pages and home.  The whole buffer is sent, whatever of it was written.   *)
Dma ==
    /\ busy
    /\ screen' = [screen EXCEPT ![cursor.page * Columns + cursor.column] = frame[sent]]
    /\ cursor' = [column |-> (cursor.column + 1) % Columns,
                  page |-> IF cursor.column + 1 < Columns THEN cursor.page
                           ELSE (cursor.page + 1) % Pages]
    /\ sent' = sent + 1
    /\ UNCHANGED <<frame, operands, at, commands, painted, overlapped>>

DisplayNext ==
    \/ \E p \in Painters : Write(p) \/ Wait(p) \/ Copy(p) \/ SetHome(p) \/ StartDma(p)
    \/ Dma

-----------------------------------------------------------------------------

(* Frames reach the screen whole: when the DMA has ended and no write is    *)
(* under way, the screen shows what was written, each write over the ones   *)
(* before it.  Only the wait for the bus keeps a write from the buffer that *)
(* the DMA still sends, and nothing keeps two writes apart that both saw    *)
(* the bus free: those are left out (Ssd1306File::write, SSD1306_I2C::write). *)
FramesAreWhole ==
    ~overlapped /\ ~busy /\ (\A p \in Painters : ~Past(p)) => screen = painted
=============================================================================
