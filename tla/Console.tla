------------------------------- MODULE Console -------------------------------
(***************************************************************************)
(* The serial console: the receive interrupt of UsartDriver edits the line *)
(* on the screen and fills a ring buffer, while programs take keys from it *)
(* through UsartFile and edit the same line again in _fgets and scanf.     *)
(*                                                                         *)
(* The interrupt counts the characters it may erase; the reader keeps an   *)
(* index and the room that is left.  They never talk about it.             *)
(***************************************************************************)
EXTENDS Integers, Sequences, FiniteSets, SequencesExt

CONSTANTS
    Readers,     (* programs that read the console                          *)
    Chars,       (* printable characters                                    *)
    Erase,       (* key 127, '\b' in the ring                               *)
    Enter,       (* keys '\n' and '\r'                                      *)
    Nul,         (* the terminating zero                                    *)
    RingSize,    (* 64                                                      *)
    Sizes,       (* of buffers given to _fgets                              *)
    ReadSizes,   (* of buffers given to read                                *)
    MaxKeys      (* bound: keys typed                                       *)

ASSUME ConsoleAssumption ==
    /\ Erase # Enter /\ {Erase, Enter, Nul} \cap Chars = {} /\ Nul \notin {Erase, Enter}
    /\ RingSize \in Nat \ {0} /\ MaxKeys \in Nat
    /\ Sizes \subseteq Nat \ {0, 1} /\ ReadSizes \subseteq Nat \ {0}

VARIABLES
    ring,        (* UsartDriver::buffer_                                    *)
    count,       (* UsartDriver::readed_before_newline_                     *)
    echo,        (* UsartDriver::echo_                                      *)
    screen,      (* typed characters that stand behind the last output, in  *)
                 (* the line of the cursor                                  *)
    prompt,      (* what stands before them in that line is still there     *)
    call,        (* what each reader is in                                  *)
    readed, n, buffer, size,   (* its locals and arguments                  *)
    line,        (* what the last call of it returned                       *)
    keys,        (* history: number of keys typed                           *)
    consumed,    (* history: keys the call has read                         *)
    events       (* history: what makes screen and line disagree            *)

driver == <<ring, count, echo>>
terminal == <<screen, prompt>>
locals == <<call, readed, n, buffer, size, line, consumed>>
vars == <<driver, terminal, locals, keys, events>>

Keys == Chars \cup {Erase, Enter}

Init ==
    /\ ring = <<>> /\ count = 0 /\ echo = TRUE
    /\ screen = <<>> /\ prompt = TRUE
    /\ call = [r \in Readers |-> "none"]
    /\ readed = [r \in Readers |-> -1] /\ n = [r \in Readers |-> 0]
    /\ size = [r \in Readers |-> 0] /\ buffer = [r \in Readers |-> <<>>]
    /\ line = [r \in Readers |-> <<>>]
    /\ keys = 0 /\ consumed = [r \in Readers |-> <<>>] /\ events = {}

-----------------------------------------------------------------------------
(* The receive interrupt.                                                   *)

(* eul's ring_buffer: a full one loses the new key or the oldest.           *)
Push(k) ==
    IF Len(ring) < RingSize THEN ring' = Append(ring, k)
    ELSE ring' \in {ring, Append(Tail(ring), k)}

Note(k) ==
    /\ keys < MaxKeys /\ keys' = keys + 1
    /\ events' = (IF k = Enter THEN events \ {"behind"} ELSE events)
                    \cup (IF Len(ring) = RingSize THEN {"lost"} ELSE {})
                    \cup (IF echo THEN {} ELSE {"unseen"})

TypeErase ==
    /\ Note(Erase) /\ Push(Erase)
    /\ IF count > 0 THEN
          /\ count' = count - 1
          /\ IF echo /\ screen # <<>> THEN screen' = Front(screen) /\ UNCHANGED prompt
             ELSE prompt' = (prompt /\ ~echo) /\ UNCHANGED screen
       ELSE UNCHANGED <<count, terminal>>
    /\ UNCHANGED <<echo, locals>>

(* Fault: the characters of the line before still count.                    *)
TypeEnterKeepsCount ==
    /\ Note(Enter) /\ Push(Enter)
    /\ count' = count + 1
    /\ screen' = IF echo THEN <<>> ELSE screen
    /\ prompt' = (prompt \/ echo)
    /\ UNCHANGED <<echo, locals>>

(* The count goes to -1 and back to 0; of the new line nothing is erased.   *)
TypeEnter ==
    /\ Note(Enter) /\ Push(Enter)
    /\ count' = 0
    /\ screen' = IF echo THEN <<>> ELSE screen
    /\ prompt' = (prompt \/ echo)
    /\ UNCHANGED <<echo, locals>>

TypeChar(c) ==
    /\ Note(c) /\ Push(c)
    /\ count' = count + 1
    /\ screen' = IF echo THEN Append(screen, c) ELSE screen
    /\ UNCHANGED <<echo, prompt, locals>>

-----------------------------------------------------------------------------
(* Programs.                                                                *)

(* A second reader beside one that is in the middle of a line.              *)
Sharing(r) == IF \E q \in Readers \ {r} : call[q] # "none" THEN {"shared"} ELSE {}

Start(r, function, s) ==
    /\ call[r] = "none"
    /\ call' = [call EXCEPT ![r] = function]
    /\ line' = [line EXCEPT ![r] = <<>>]
    /\ size' = [size EXCEPT ![r] = s]
    /\ n' = [n EXCEPT ![r] = s]
    /\ buffer' = [buffer EXCEPT ![r] = [j \in 0..(s - 1) |-> Nul]]
    /\ events' = events \cup Sharing(r)
    /\ UNCHANGED <<driver, terminal, readed, consumed, keys>>

(* The locals end with the call.                                            *)
Forget(r) ==
    /\ readed' = [readed EXCEPT ![r] = -1]
    /\ n' = [n EXCEPT ![r] = 0] /\ size' = [size EXCEPT ![r] = 0]
    /\ buffer' = [buffer EXCEPT ![r] = <<>>]
    /\ consumed' = [consumed EXCEPT ![r] = <<>>]

StartFgets(r) == \E s \in Sizes : Start(r, "fgets", s)

(* scanf("%s") has no size; its caller's buffer holds all that is typed.    *)
StartScanf(r) == Start(r, "scanf", MaxKeys + 1)

(* read(fd, &c, 1) gives a key; an empty ring means another turn.           *)
Reading(r, function) == call[r] = function /\ ring # <<>>

TakeKey(r) ==
    /\ ring' = Tail(ring)
    /\ UNCHANGED <<count, echo, terminal, keys>>

(* The loop goes on.                                                        *)
Continue(r) ==
    /\ consumed' = [consumed EXCEPT ![r] = Append(@, Head(ring))]
    /\ UNCHANGED <<call, size, line>>

(* buffer[readed] = 0 behind the loop: what was stored last goes.           *)
Return(r, stored, last) ==
    /\ line' = [line EXCEPT ![r] = [j \in 1..last |-> stored[j - 1]]]
    /\ call' = [call EXCEPT ![r] = "none"]
    /\ Forget(r)

(* Faults: room is not given back; the first character cannot be undone.    *)
UndoKeepsRoom(r, room) ==
    /\ readed' = [readed EXCEPT ![r] = IF @ >= 0 THEN @ - 1 ELSE @]
    /\ UNCHANGED <<n, buffer, events>>

UndoNotFirst(r, room) ==
    /\ IF readed[r] > 0
       THEN readed' = [readed EXCEPT ![r] = @ - 1] /\ n' = [n EXCEPT ![r] = @ + room]
       ELSE UNCHANGED <<readed, n>>
    /\ UNCHANGED <<buffer, events>>

(* '\b' takes the last character back; _fgets counts the room again.        *)
Undo(r, room) ==
    /\ IF readed[r] >= 0
       THEN readed' = [readed EXCEPT ![r] = @ - 1] /\ n' = [n EXCEPT ![r] = @ + room]
       ELSE UNCHANGED <<readed, n>>
    /\ UNCHANGED <<buffer, events>>

FgetsErase(r) ==
    /\ Reading(r, "fgets") /\ Head(ring) = Erase
    /\ TakeKey(r) /\ Continue(r)
    /\ Undo(r, 1)

ScanfErase(r) ==
    /\ Reading(r, "scanf") /\ Head(ring) = Erase
    /\ TakeKey(r) /\ Continue(r)
    /\ Undo(r, 0)

(* Fault: the end of the line is not looked for.                            *)
StoreUntilFull(r, room) ==
    LET last == readed[r] + 1
        stored == [buffer[r] EXCEPT ![last] = Head(ring)]
    IN /\ IF n[r] - room = 1 THEN Return(r, stored, last)
          ELSE /\ Continue(r)
               /\ readed' = [readed EXCEPT ![r] = last]
               /\ n' = [n EXCEPT ![r] = @ - room]
               /\ buffer' = [buffer EXCEPT ![r] = stored]
       /\ UNCHANGED events

(* buffer[++readed] = c, also for '\n'; room is what it takes from n.  The   *)
(* line ends with '\n', or when one byte of room is left.                   *)
Store(r, room) ==
    LET last == readed[r] + 1
        stored == [buffer[r] EXCEPT ![last] = Head(ring)]
        full == n[r] - room = 1
    IN /\ IF Head(ring) = Enter \/ full THEN Return(r, stored, last)
          ELSE /\ Continue(r)
               /\ readed' = [readed EXCEPT ![r] = last]
               /\ n' = [n EXCEPT ![r] = @ - room]
               /\ buffer' = [buffer EXCEPT ![r] = stored]
       /\ events' = events \cup (IF Head(ring) # Enter /\ full THEN {"cut"} ELSE {})

FgetsKey(r) ==
    /\ Reading(r, "fgets") /\ Head(ring) # Erase
    /\ TakeKey(r)
    /\ Store(r, 1)

ScanfKey(r) ==
    /\ Reading(r, "scanf") /\ Head(ring) # Erase
    /\ TakeKey(r)
    /\ Store(r, 0)

(* read of up to s keys by any other program, without editing.              *)
RawRead(s) ==
    /\ ring # <<>>
    /\ ring' = SubSeq(ring, s + 1, Len(ring))
    /\ events' = events \cup {"shared"}
    /\ UNCHANGED <<count, echo, terminal, locals, keys>>

(* A program writes a character: a command its output, the shell its "> ".  *)
(* The line may already hold typed characters, which the interrupt counts.  *)
Output ==
    /\ screen' = <<>>
    /\ events' = events \cup (IF count > 0 THEN {"behind"} ELSE {})
    /\ UNCHANGED <<driver, prompt, locals, keys>>

(* tcsetattr of any program switches the echo.                              *)
SetEcho ==
    /\ echo' \in BOOLEAN
    /\ UNCHANGED <<ring, count, terminal, locals, keys, events>>

-----------------------------------------------------------------------------

ReadLine(r) == FgetsErase(r) \/ FgetsKey(r) \/ ScanfErase(r) \/ ScanfKey(r)

Next ==
    \/ TypeErase \/ TypeEnter
    \/ \E c \in Chars : TypeChar(c)
    \/ \E r \in Readers :
        \/ StartFgets(r) \/ StartScanf(r)
        \/ FgetsErase(r) \/ FgetsKey(r) \/ ScanfErase(r) \/ ScanfKey(r)
    \/ \E s \in ReadSizes : RawRead(s)
    \/ Output \/ SetEcho

(* A program that polls the ring gets the core again and again (Kernel).    *)
Spec == Init /\ [][Next]_vars /\ \A r \in Readers : WF_vars(ReadLine(r))

-----------------------------------------------------------------------------

(* What editing makes of a line and the keys that follow.                   *)
EditKey(text, k) ==
    IF k = Enter \/ (k = Erase /\ text = <<>>) THEN <<>>
    ELSE IF k = Erase THEN Front(text) ELSE Append(text, k)

EditFrom(text, ks) ==
    LET edited[j \in 0..Len(ks)] == IF j = 0 THEN text ELSE EditKey(edited[j - 1], ks[j])
    IN  edited[Len(ks)]

Edit(ks) == EditFrom(<<>>, ks)

(* What a reader has of the line.                                           *)
Text(r) == [j \in 1..(readed[r] + 1) |-> buffer[r][j - 1]]

(* While a line is read, the buffer holds what the keys read so far make of *)
(* it, and index and room together never pass the buffer's end (_fgets).    *)
BufferHoldsLine ==
    \A r \in Readers : call[r] # "none" =>
        /\ readed[r] + 1 < size[r]
        /\ Text(r) = Edit(consumed[r])
        /\ call[r] = "fgets" => readed[r] + n[r] = size[r] - 1 /\ n[r] > 1

(* A call that ends returns what was typed up to Enter, edited; a line that *)
(* fills the buffer comes back without its last character, as it was one    *)
(* short of the size (_fgets).                                              *)
ReturnsEditedLine ==
    [][\A r \in Readers : call[r] # "none" /\ call'[r] = "none" =>
        LET k == Append(consumed[r], Head(ring)) IN
        IF Last(k) = Enter THEN line'[r] = Edit(Front(k))
        ELSE /\ line'[r] = Front(Edit(k))
             /\ Len(line'[r]) = size[r] - 2 /\ call[r] = "fgets"]_vars

(* What the user sees typed behind the last output is what the program will *)
(* get: the reader's buffer, edited by the keys that are in the ring, is    *)
(* the text on the screen.  A line in which output came between typed keys  *)
(* is left out: there the user sees only the keys behind the output.        *)
ScreenShowsLine ==
    events = {} =>
        LET active == {r \in Readers : call[r] # "none"} IN
        \/ active = {} /\ EditFrom(<<>>, ring) = screen
        \/ \E r \in active : EditFrom(Text(r), ring) = screen

(* The erase key never eats into the prompt, nor into any other output, as  *)
(* long as no key was typed unseen and none stands in the line before the   *)
(* output: keys typed ahead of a prompt stay counted, and as many erase     *)
(* keys remove the prompt.  The next Enter ends that.                       *)
PromptStays == {"unseen", "behind"} \cap events = {} => prompt

(* Who waits for a line gets it once Enter is in the ring, unless the ring  *)
(* overflowed or somebody else reads too.                                   *)
EnterEndsLine ==
    \A r \in Readers :
        (call[r] # "none" /\ Enter \in ToSet(ring))
            ~> (call[r] = "none" \/ {"lost", "shared"} \cap events # {})
=============================================================================
