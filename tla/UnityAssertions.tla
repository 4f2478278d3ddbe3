-------------------------- MODULE UnityAssertions --------------------------
(***************************************************************************)
(* What the assertions of unity.c accept, as Boolean operators with the    *)
(* names of the functions: TRUE when the function returns, FALSE when it   *)
(* fails the test.  A UNITY_INT is a signed integer of UNITY_BITS bits,    *)
(* a string a sequence of characters without its NUL.                      *)
(***************************************************************************)
EXTENDS Integers, Sequences, FiniteSets

CONSTANTS
    UNITY_BITS,             \* bits of a UNITY_INT
    UNITY_INT_WIDTH,        \* bits of an int
    NULL

UINT == 0..2^UNITY_BITS - 1
INT  == -(2^(UNITY_BITS - 1))..2^(UNITY_BITS - 1) - 1
Unsigned(n) == n % 2^UNITY_BITS                 \* the cast to UNITY_UINT

\* The bits that are set, 0 the lowest.
Bits(n) == {i \in 0..UNITY_BITS - 1 : (Unsigned(n) \div 2^i) % 2 = 1}

-----------------------------------------------------------------------------
(* Integers *)

UnityAssertBits(mask, expected, actual) ==
    Bits(mask) \cap Bits(expected) = Bits(mask) \cap Bits(actual)

UnityAssertEqualNumber(expected, actual) == expected = actual

\* `compare' holds the flags "EQUAL_TO", "GREATER_THAN" and "SMALLER_THAN".
UnityAssertGreaterOrLessOrEqualNumber(threshold, actual, compare, signed) ==
    LET a == IF signed THEN actual ELSE Unsigned(actual)
        t == IF signed THEN threshold ELSE Unsigned(threshold)
    IN  IF threshold = actual
        THEN "EQUAL_TO" \in compare
        ELSE /\ a > t => "SMALLER_THAN" \notin compare
             /\ a < t => "GREATER_THAN" \notin compare

\* Mutant: the difference is taken of the signed numbers and wraps around.
NumbersWithinSigned(delta, expected, actual, signed) ==
    LET e    == IF signed THEN expected ELSE Unsigned(expected)
        a    == IF signed THEN actual ELSE Unsigned(actual)
        half == 2^(UNITY_BITS - 1)
        diff == IF a > e THEN a - e ELSE e - a
    IN  (((diff + half) % 2^UNITY_BITS) - half) <= delta

\* The larger less the smaller, in UNITY_UINT: no distance is too large for it.
UnityAssertNumbersWithin(delta, expected, actual, signed) ==
    LET larger == IF signed THEN actual > expected
                  ELSE Unsigned(actual) > Unsigned(expected)
    IN  IF larger THEN Unsigned(Unsigned(actual) - Unsigned(expected)) <= delta
        ELSE Unsigned(Unsigned(expected) - Unsigned(actual)) <= delta

-----------------------------------------------------------------------------
(* Arrays.  A pointer is NULL or an index of `mem', which says what it     *)
(* points to; `toVal' is the flag UNITY_ARRAY_TO_VAL.                      *)

UnityIsOneArrayNull(expected, actual) ==
    expected # actual /\ NULL \in {expected, actual}

\* What the functions on arrays share: no elements fail the test, and a
\* pointer equals itself whatever it points to; `same' is the loop.
Arrays(expected, actual, elements, same) ==
    /\ elements # 0
    /\ \/ expected = actual
       \/ ~ UnityIsOneArrayNull(expected, actual) /\ same

\* With ARRAY_TO_VAL the pointer to the expected values stays where it is.
Expected(values, k, toVal) == values[IF toVal THEN 1 ELSE k]

UnityAssertEqualIntArray(mem, expected, actual, elements, toVal) ==
    Arrays(expected, actual, elements,
           \A k \in 1..elements :
               Expected(mem[expected], k, toVal) = mem[actual][k])

\* Elements of `length' bytes; with ARRAY_TO_VAL the expected bytes start over
\* with every element.
UnityAssertEqualMemory(mem, expected, actual, length, elements, toVal) ==
    /\ elements # 0 /\ length # 0
    /\ \/ expected = actual
       \/ /\ ~ UnityIsOneArrayNull(expected, actual)
          /\ \A k \in 0..elements * length - 1 :
                 mem[expected][(IF toVal THEN k % length ELSE k) + 1] = mem[actual][k + 1]

-----------------------------------------------------------------------------
(* Strings: NULL or a sequence *)

\* The loop stops at the first difference, or where both have ended.
CharAt(string, i) == IF i <= Len(string) THEN string[i] ELSE "NUL"

UnityAssertEqualStringLen(expected, actual, length) ==
    IF NULL \in {expected, actual} THEN expected = actual
    ELSE \A i \in 1..length : CharAt(expected, i) = CharAt(actual, i)

UnityAssertEqualString(expected, actual) ==
    UnityAssertEqualStringLen(expected, actual,
        IF NULL \in {expected, actual} THEN 0 ELSE Len(expected) + Len(actual))

\* With ARRAY_TO_VAL `expected' points to the characters of a string, and not
\* to an array of strings: no NULL is expected then.
UnityAssertEqualStringArray(mem, expected, actual, elements, toVal) ==
    Arrays(expected, actual, elements,
           \A k \in 1..elements : UnityAssertEqualString(
               IF toVal THEN mem[expected] ELSE mem[expected][k], mem[actual][k]))

-----------------------------------------------------------------------------
(* Floating point: a number, an infinity or NaN.  Rounding is left out.    *)

Finite(n) == [kind |-> "finite", value |-> n]
Inf       == [kind |-> "inf"]
NegInf    == [kind |-> "neg_inf"]
NaN       == [kind |-> "nan"]
isinf(x)  == x \in {Inf, NegInf}
Magnitude(n) == IF n < 0 THEN -n ELSE n

\* UNITY_FLOAT_OR_DOUBLE_WITHIN.  Nothing is greater than NaN, and no finite
\* difference than an infinity.
UnityFloatsWithin(delta, expected, actual) ==
    \/ isinf(expected) /\ isinf(actual) /\ expected = actual
    \/ expected = NaN /\ actual = NaN
    \/ /\ {expected.kind, actual.kind} = {"finite"}
       /\ delta.kind = "finite"
              => Magnitude(actual.value - expected.value) <= Magnitude(delta.value)

UnityAssertFloatsWithin(delta, expected, actual)  == UnityFloatsWithin(delta, expected, actual)
UnityAssertDoublesWithin(delta, expected, actual) == UnityFloatsWithin(delta, expected, actual)

\* *ptr_expected * UNITY_FLOAT_PRECISION: UNITY_FLOAT_PRECISION is 1/precision.
Tolerance(expected, precision) ==
    IF expected.kind = "finite" THEN Finite(Magnitude(expected.value) \div precision) ELSE expected

UnityAssertEqualFloatArray(mem, expected, actual, elements, toVal, precision) ==
    Arrays(expected, actual, elements,
           \A k \in 1..elements :
               LET e == Expected(mem[expected], k, toVal)
               IN  UnityFloatsWithin(Tolerance(e, precision), e, mem[actual][k]))
UnityAssertEqualDoubleArray(mem, expected, actual, elements, toVal, precision) ==
    UnityAssertEqualFloatArray(mem, expected, actual, elements, toVal, precision)

UnityAssertFloatSpecial(actual, trait, should_be_trait) ==
    LET is_trait == CASE trait = "inf"     -> actual = Inf
                      [] trait = "neg_inf" -> actual = NegInf
                      [] trait = "nan"     -> actual = NaN
                      [] trait = "det"     -> ~ isinf(actual) /\ actual # NaN
    IN  is_trait = should_be_trait
UnityAssertDoubleSpecial(actual, trait, should_be_trait) ==
    UnityAssertFloatSpecial(actual, trait, should_be_trait)

-----------------------------------------------------------------------------
(* Numbers printed, as sequences of characters *)

DecDigits == <<"0", "1", "2", "3", "4", "5", "6", "7", "8", "9">>
HexDigits == <<"0", "1", "2", "3", "4", "5", "6", "7", "8", "9", "A", "B", "C", "D", "E", "F">>

\* 1, 10, 100, ...: the divisors of UnityPrintNumberUnsigned.
Divisors == LET divisor[k \in 0..UNITY_BITS] == IF k = 0 THEN 1 ELSE 10 * divisor[k - 1]
            IN  divisor

\* The first divisor that leaves one digit gives the first digit.
UnityPrintNumberUnsigned(number) ==
    LET OneDigit(k) == number \div Divisors[k] <= 9
        last == CHOOSE k \in 0..UNITY_BITS : OneDigit(k) /\ \A j \in 0..k - 1 : ~ OneDigit(j)
    IN  [i \in 1..last + 1 |-> DecDigits[((number \div Divisors[last + 1 - i]) % 10) + 1]]

\* The sign is changed in UNITY_UINT, where the smallest number has a place.
UnityPrintNumber(number) ==
    IF number < 0 THEN <<"-">> \o UnityPrintNumberUnsigned(Unsigned(-Unsigned(number)))
    ELSE UnityPrintNumberUnsigned(number)

UnityPrintNumberHex(number, nibbles_to_print) ==
    LET most    == UNITY_BITS \div 4
        nibbles == IF nibbles_to_print > most THEN most ELSE nibbles_to_print
    IN  [i \in 1..nibbles |-> HexDigits[((number \div 2^(4 * (nibbles - i))) % 16) + 1]]

\* The bits of an int, the highest one first.
UnityPrintMask(mask, number) ==
    [i \in 1..UNITY_INT_WIDTH |->
        LET bit == UNITY_INT_WIDTH - i
        IN  IF bit \notin Bits(mask) THEN "X" ELSE IF bit \in Bits(number) THEN "1" ELSE "0"]
=============================================================================
