-------------------------------- MODULE Paths ---------------------------------
(***************************************************************************)
(* Paths as text: how a process keeps its working directory in an array of *)
(* PATH_MAX characters, how getcwd copies it out, and how dirent_utils     *)
(* takes the names off a path.  The array ends the object on an odd        *)
(* address, so that the byte behind it is padding.                         *)
(***************************************************************************)
EXTENDS Integers, Sequences, FiniteSets, SequencesExt

CONSTANTS
    PathMax,     (* PATH_MAX, 255 in the code                               *)
    Texts,       (* texts of directories                                    *)
    Slash,       (* the character "/"                                       *)
    Zero,        (* the character that ends a text                          *)
    Sizes,       (* sizes of the buffers given to getcwd                    *)
    Views        (* texts that are taken apart                              *)

ASSUME PathsAssumption ==
    /\ PathMax \in Nat /\ PathMax >= 2 /\ Slash # Zero
    /\ \A t \in Texts : t \in Seq(UNION {ToSet(u) : u \in Texts}) /\ Zero \notin ToSet(t)
    /\ \A t \in Views : t \in Seq(UNION {ToSet(u) : u \in Views}) /\ Zero \notin ToSet(t)
    /\ Sizes \subseteq Nat \ {0}

VARIABLES
    characters,  (* Process::cwd_ and the byte behind it                    *)
    told,        (* what the last getcwd gave, of which text, to what size  *)
    changed,     (* history: the text that was accepted last                *)
    view,        (* the path that is taken apart, what is left of it        *)
    names        (* history: the path as it was, and the names taken off it *)

pathVars == <<characters, told, changed, view, names>>

PathsInit ==
    /\ characters = [i \in 0 .. PathMax |-> IF i = 0 THEN Slash ELSE Zero]
    /\ told = [size |-> 2, text |-> <<Slash>>, of |-> <<Slash>>]
    /\ changed = <<Slash>>
    /\ view = <<>> /\ names = [path |-> <<>>, taken |-> <<>>]

(* Fault: the text is copied without its end.                               *)
SetCwdOpen(text) ==
    IF Len(text) > PathMax THEN UNCHANGED <<characters, changed>>
    ELSE /\ characters' = [i \in DOMAIN characters |->
                IF i < Len(text) THEN text[i + 1] ELSE characters[i]]
         /\ changed' = text

(* Process::set_cwd: the longest text leaves no room for its end in the     *)
(* array.                                                                   *)
SetCwd(text) ==
    IF Len(text) > PathMax THEN UNCHANGED <<characters, changed>>
    ELSE /\ characters' = [i \in DOMAIN characters |->
                IF i < Len(text) THEN text[i + 1] ELSE IF i = Len(text) THEN Zero ELSE characters[i]]
         /\ changed' = text

(* Process::get_cwd: a view of the characters up to the first end.          *)
GetCwd ==
    LET length == CHOOSE n \in DOMAIN characters :
            characters[n] = Zero /\ \A i \in 0 .. n - 1 : characters[i] # Zero
    IN  [i \in 1 .. length |-> characters[i - 1]]

(* chdir keeps the text once it has found a directory there.                *)
ChangeDirectory ==
    /\ \E text \in Texts : SetCwd(text)
    /\ UNCHANGED <<told, view, names>>

(* getcwd copies what fits and ends it.                                     *)
CopyCwd ==
    /\ \E size \in Sizes :
        LET length == IF size - 1 > Len(GetCwd) THEN Len(GetCwd) ELSE size - 1
        IN  told' = [size |-> size, text |-> SubSeq(GetCwd, 1, length), of |-> changed]
    /\ UNCHANGED <<characters, changed, view, names>>

Split(text, at) == [part |-> SubSeq(text, 1, at - 1), rest |-> SubSeq(text, at, Len(text))]

(* Where the first character is that is a slash or is none; 0: nowhere.     *)
FirstSlash(text) == SelectInSeq(text, LAMBDA c : c = Slash)
FirstOther(text) == SelectInSeq(text, LAMBDA c : c # Slash)

(* get_next_part: the first name without the slashes before it, and what    *)
(* follows it.                                                              *)
GetNextPart(text) ==
    LET path == SubSeq(text, FirstOther(text), Len(text))
    IN  IF FirstOther(text) = 0 THEN [part |-> <<>>, rest |-> <<>>]
        ELSE IF FirstSlash(path) = 0 THEN [part |-> path, rest |-> <<>>]
        ELSE Split(path, FirstSlash(path))

(* get_last_part does the same, in spite of its name.                       *)
GetLastPart(text) ==
    LET start == FirstOther(text)
        path == SubSeq(text, start, Len(text))
        slash == FirstSlash(path)
    IN  IF start = 0 THEN [part |-> <<>>, rest |-> <<>>]
        ELSE Split(path, IF slash = 0 THEN Len(path) + 1 ELSE slash)

BeginPath ==
    /\ view' \in Views
    /\ names' = [path |-> view', taken |-> <<>>]
    /\ UNCHANGED <<characters, told, changed>>

TakePart ==
    /\ \E cut \in {GetNextPart(view), GetLastPart(view)} :
        /\ view' = cut.rest
        /\ names' = IF cut.part = <<>> THEN names
                    ELSE [names EXCEPT !.taken = Append(@, cut.part)]
    /\ UNCHANGED <<characters, told, changed>>

PathsNext == ChangeDirectory \/ CopyCwd \/ BeginPath \/ TakePart

-----------------------------------------------------------------------------

(* The names of a path are its longest pieces without a slash: those that   *)
(* end where the path does or at a slash.                                   *)
NamesIn(text) ==
    LET piece[n \in 0 .. Len(text)] ==
            IF n = 0 \/ text[n] = Slash THEN <<>> ELSE Append(piece[n - 1], text[n])
        pieces[n \in 0 .. Len(text)] ==
            IF n = 0 THEN <<>>
            ELSE IF text[n] # Slash /\ (n = Len(text) \/ text[n + 1] = Slash)
                 THEN Append(pieces[n - 1], piece[n])
            ELSE pieces[n - 1]
    IN  pieces[Len(text)]

(* getcwd gives the text that chdir kept last, as much of it as the buffer  *)
(* takes, though shorter texts are copied over longer ones, the longest has *)
(* its end behind the array, and one that is too long changes nothing       *)
(* (process.cpp, unistd.cpp); a path is taken apart into its names, none    *)
(* of them twice and none left out, whatever slashes are between, before    *)
(* and behind them (dirent_utils.cpp).                                      *)
PathsAreKept ==
    /\ told.text = SubSeq(told.of, 1, IF Len(told.of) < told.size THEN Len(told.of) ELSE told.size - 1)
    /\ names.taken \o NamesIn(view) = NamesIn(names.path)
=============================================================================
