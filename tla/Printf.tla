-------------------------------- MODULE Printf --------------------------------
(***************************************************************************)
(* printf: a loop that writes what stands before the next percent sign and *)
(* the argument that the character behind it asks for.  The text goes to   *)
(* the USART at once.  How a number looks is in Numbers; here an argument  *)
(* is its own number, and a piece of the output a character or an argument *)
(* together with the character that asked for it.                          *)
(***************************************************************************)
EXTENDS Integers, Sequences, SequencesExt

CONSTANTS
    Characters,  (* that a format is made of; "%", "c", "s" and "d" mean    *)
                 (* something to printf                                     *)
    MaxFormat    (* bound: characters of a format                           *)

ASSUME PrintfAssumption ==
    {"%", "c", "s", "d"} \subseteq Characters /\ MaxFormat \in Nat

VARIABLES
    format,      (* of the call of printf                                   *)
    rest,        (* data: what of it is still to be read                    *)
    argument,    (* argptr: the argument that va_arg takes next             *)
    output,      (* what has been written to the USART                      *)
    size,        (* of the text before the percent signs                    *)
    returned     (* -1 before printf returns                                *)

printVars == <<format, rest, argument, output, size, returned>>

Formats == UNION {[1 .. n -> Characters] : n \in 0 .. MaxFormat}

PrintfInit ==
    /\ format = <<>> /\ rest = <<>> /\ argument = 1 /\ output = <<>> /\ size = 0
    /\ returned = 0

(* _printf, with the next format and its arguments.                         *)
CallPrintf ==
    /\ returned # -1 /\ returned' = -1
    /\ format' \in Formats /\ rest' = format'
    /\ argument' = 1 /\ output' = <<>> /\ size' = 0

(* UsartWriter::write of a string.                                          *)
Emit(text) == output' = output \o text

(* data.find("%").                                                          *)
Percents == {i \in DOMAIN rest : rest[i] = "%"}
Position == CHOOSE i \in Percents : \A j \in Percents : i <= j

PrintRest ==
    /\ returned = -1 /\ Percents = {}
    /\ Emit(rest) /\ returned' = size + Len(rest)
    /\ UNCHANGED <<format, rest, argument, size>>

Before == SubSeq(rest, 1, Position - 1)

(* A percent sign that ends the format is not written, but counted.         *)
EndOnPercent ==
    /\ returned = -1 /\ Percents # {} /\ Position = Len(rest)
    /\ Emit(Before)
    /\ size' = size + Len(Before) /\ returned' = size' + Len(rest)
    /\ UNCHANGED <<format, rest, argument>>

TakesArgument(specifier) == specifier \in {"c", "s", "d"}

(* A character that asks for nothing is left out, as its percent sign is.   *)
Conversion(specifier) ==
    IF TakesArgument(specifier) THEN <<[as |-> specifier, number |-> argument]>> ELSE <<>>

(* Fault: what comes next is the character that was looked at just now.     *)
AfterPercent == SubSeq(rest, Position + 1, Len(rest))

AfterSpecifier == SubSeq(rest, Position + 2, Len(rest))

Convert ==
    /\ returned = -1 /\ Percents # {} /\ Position < Len(rest)
    /\ LET specifier == rest[Position + 1]
       IN  /\ Emit(Before \o Conversion(specifier))
           /\ argument' = IF TakesArgument(specifier) THEN argument + 1 ELSE argument
    /\ size' = size + Len(Before)
    /\ IF Position + 1 = Len(rest)
       THEN returned' = size' + Len(rest) /\ UNCHANGED rest
       ELSE rest' = AfterSpecifier /\ UNCHANGED returned
    /\ UNCHANGED format

PrintfNext == CallPrintf \/ PrintRest \/ EndOnPercent \/ Convert

-----------------------------------------------------------------------------

(* Whether character i of the format is a percent sign that stands for the  *)
(* character behind it.                                                     *)
Escapes[i \in 0 .. Len(format)] == i > 0 /\ format[i] = "%" /\ ~Escapes[i - 1]

ArgumentOf(i) ==
    Cardinality({j \in 1 .. i : Escapes[j - 1] /\ TakesArgument(format[j])})

(* A piece of the output, or nothing: for a percent sign, and for a         *)
(* character behind one that asks for nothing, a width and "%%" too.        *)
Shows(i) ==
    IF Escapes[i] THEN <<>>
    ELSE IF ~Escapes[i - 1] THEN <<format[i]>>
    ELSE IF TakesArgument(format[i]) THEN <<[as |-> format[i], number |-> ArgumentOf(i)]>>
    ELSE <<>>

(* Every conversion of the format is one that the switch of printf has.     *)
ConversionsAreKnown ==
    \A i \in DOMAIN format : Escapes[i] => i < Len(format) /\ TakesArgument(format[i + 1])

(* Of a format whose conversions are all "%c", "%s" and "%d", printf writes *)
(* the characters between them once, in order, and each argument where it   *)
(* is asked for, none of them twice and none left out, wherever the percent *)
(* signs stand (printf.hpp).  Of any other conversion, "%%" and one with a  *)
(* width among them, the percent sign and the character behind it are lost; *)
(* nothing is said of formats that have one.                                *)
PrintsText ==
    returned # -1 /\ ConversionsAreKnown =>
        output = FlattenSeq([i \in DOMAIN format |-> Shows(i)])
=============================================================================
