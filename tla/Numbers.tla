------------------------------- MODULE Numbers -------------------------------
(***************************************************************************)
(* How UsartWriter prints a number: it turns the number's digits round, in *)
(* a number of the same type, prints that one from its last digit on and   *)
(* then the zeros that the turning lost.  A sign is printed first.         *)
(***************************************************************************)
EXTENDS Integers, Sequences, SequencesExt

CONSTANT Bits    (* width of the type                                       *)

ASSUME NumbersAssumption == Bits \in Nat \ {0}

VARIABLES
    base,        (* flags_.base_ of the writer                              *)
    shown        (* the number printed last, in which base, and its digits  *)

numberVars == <<base, shown>>

Flags == {"dec", "hex", "oct", "bin"}

GetBase(flag) ==
    CASE flag = "dec" -> 10
      [] flag = "hex" -> 16
      [] flag = "oct" -> 8
      [] flag = "bin" -> 2

(* How many values the type has: 2 to the power of its bits.                *)
Values ==
    LET power[n \in 0 .. Bits] == IF n = 0 THEN 1 ELSE 2 * power[n - 1]
    IN  power[Bits]

Half == Values \div 2

Unsigned == 0 .. Values - 1
Positive == 0 .. Half - 1
Signed == -Half .. Half - 1

Minus == -1
Garbled == <<-2>>      (* digits taken from outside of "0123456789abcdef"     *)

(* The digits that n % b and n / b give, until the number is zero.          *)
DigitsOf(number, b) ==
    LET digits[n \in 0 .. number] ==
            IF n = 0 THEN <<>> ELSE <<n % b>> \o digits[n \div b]
    IN  digits[number]

(* What digits stand for, the most significant first, in numbers that hold  *)
(* hold[x] where x is computed.                                             *)
Turned(digits, b, hold) ==
    LET value[n \in 0 .. Len(digits)] ==
            IF n = 0 THEN 0 ELSE hold[value[n - 1] * b + digits[n]]
    IN  value[Len(digits)]

(* An unsigned type wraps round; so does a signed type when it overflows.   *)
Wrapped == [x \in Int |-> x % Values]
WrappedRound == [x \in Int |-> ((x + Half) % Values) - Half]

(* reverse_number: the number with its digits turned round, as the type     *)
(* holds it, and how many zeros stood at the end of it.                     *)
Reversed(number, b) == Turned(DigitsOf(number, b), b, Wrapped)

ZerosAnywhere(number, b) ==   (* fault: counts all zeros, and none in 0   *)
    LET digits == DigitsOf(number, b)
    IN  Len(digits) - Len(SelectSeq(digits, LAMBDA d : d # 0))

ZerosAtEnd(number, b) ==
    LET digits == DigitsOf(number, b)
    IN  IF number = 0 THEN 1
        ELSE CHOOSE k \in 0 .. Len(digits) - 1 :
                digits[k + 1] # 0 /\ \A i \in 1 .. k : digits[i] = 0

(* write: write_number_as_text of the reversed number.                      *)
Printed(number, b) ==
    DigitsOf(Reversed(number, b), b) \o [i \in 1 .. ZerosAtEnd(number, b) |-> 0]

(* The same for a signed type: a number that has become negative has digits *)
(* that are less than zero.                                                 *)
ReversedSigned(number, b) == Turned(DigitsOf(number, b), b, WrappedRound)

PrintedSigned(number, b) ==
    LET size == WrappedRound[IF number < 0 THEN -number ELSE number]
        sign == IF number < 0 THEN <<Minus>> ELSE <<>>
    IN  IF size < 0 \/ ReversedSigned(size, b) < 0 THEN sign \o Garbled
        ELSE sign \o DigitsOf(ReversedSigned(size, b), b) \o [i \in 1 .. ZerosAtEnd(size, b) |-> 0]

(* operator<< of a base, and of a number.                                   *)
NumbersInit ==
    /\ base = "dec"
    /\ shown = [number |-> 0, base |-> 10, text |-> <<0>>, values |-> Unsigned]

SetFlag(flag) == base' = flag
SetBase(flag) == SetFlag(flag) /\ UNCHANGED shown

WriteNumber(number) ==
    /\ shown' = [number |-> number, base |-> GetBase(base),
                 text |-> Printed(number, GetBase(base)),
                 values |-> Unsigned]
    /\ UNCHANGED base

WriteSigned(number) ==
    /\ shown' = [number |-> number, base |-> GetBase(base),
                 text |-> PrintedSigned(number, GetBase(base)),
                 values |-> Positive]
    /\ UNCHANGED base

NumbersNext ==
    \/ \E flag \in Flags : SetBase(flag)
    \/ \E number \in Unsigned : WriteNumber(number)
    \/ \E number \in Signed : WriteSigned(number)

-----------------------------------------------------------------------------

(* The value that digits stand for, the most significant first.             *)
Value(digits, b) == Turned(digits, b, [x \in Int |-> x])

(* A number is printed right if, and only if, the same digits turned round  *)
(* are a number of the type: 8 bits print 255 in base 16 and 2, but 219 in  *)
(* base 10 comes out as 912 % 256 turned round, and the least of the signed *)
(* numbers has no positive one to print (usart_printer.hpp).                *)
PrintsNumbers ==
    LET size == IF shown.number < 0 THEN -shown.number ELSE shown.number
        digits == DigitsOf(size, shown.base)
        sign == IF shown.number < 0 THEN <<Minus>> ELSE <<>>
        right == shown.text = sign \o (IF size = 0 THEN <<0>> ELSE Reverse(digits))
    IN  right <=> {size, Value(digits, shown.base)} \subseteq shown.values
=============================================================================
