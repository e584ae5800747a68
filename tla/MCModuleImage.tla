----------------------------- MODULE MCModuleImage ---------------------------
(***************************************************************************)
(* An instance of ModuleImage for TLC: 20 bytes of text, two words of data *)
(* and one of bss.                                                         *)
(***************************************************************************)
EXTENDS ModuleImage

CONSTANTS f, d, b

MCInternals == {f, d, b}
MCSections == [s \in {Main, f, d, b} |->
    IF s \in {Main, f} THEN "text" ELSE IF s = d THEN "data" ELSE "bss"]
MCValues == [s \in {Main, f, d, b} |->
    IF s = f THEN 1 ELSE IF s = Main THEN 9 ELSE IF s = d THEN 20 ELSE 28]

(* No word of data has an address, or two have: of an object, of a function. *)
MCPointers == {<<>>, <<[word |-> 0, name |-> d], [word |-> 1, name |-> f]>>}
=============================================================================
