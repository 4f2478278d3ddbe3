------------------------------- MODULE Input -------------------------------
(***************************************************************************)
(* What the programs make of a line of text: utils.c and the readers of    *)
(* routing_table_manager/src/input.c.  A text is a sequence of characters, *)
(* without the NUL that ends it.                                           *)
(***************************************************************************)
EXTENDS Integers, Sequences, FiniteSets, SequencesExt

CONSTANTS
    IP_ADDR_LEN,            \* the size of a buffer for an address
    IP_ADDR_GP,             \* the groups of an address
    IP_ADDR_MIN, IP_ADDR_MAX,
    MASK_MIN, MASK_MAX,
    INT_MIN, INT_MAX,
    LONG_MIN, LONG_MAX,     \* where strtol stops counting
    INT_BUFFER              \* INT_LEN, the size of a buffer for a number

ASSUME LimitsAssumption ==
    /\ {IP_ADDR_LEN, INT_BUFFER} \subseteq Nat \ {0} /\ IP_ADDR_GP \in Nat \ {0, 1}
    /\ {INT_MIN, INT_MAX, LONG_MIN, LONG_MAX} \subseteq Int
    /\ LONG_MIN < INT_MIN /\ INT_MIN <= 0 /\ 0 <= INT_MAX /\ INT_MAX < LONG_MAX
    /\ {IP_ADDR_MIN, IP_ADDR_MAX, MASK_MIN, MASK_MAX} \subseteq INT_MIN..INT_MAX
    /\ IP_ADDR_MIN <= IP_ADDR_MAX /\ MASK_MIN <= MASK_MAX

Digits == <<"0", "1", "2", "3", "4", "5", "6", "7", "8", "9">>
IsDigit(ch) == ch \in ToSet(Digits)
DigitValue(ch) == SelectInSeq(Digits, LAMBDA d : d = ch) - 1
Signs == {"-", "+"}

First(text, n) == SubSeq(text, 1, IF n < Len(text) THEN n ELSE Len(text))
After(text, n) == SubSeq(text, n + 1, Len(text))

-----------------------------------------------------------------------------
\* fgets takes n - 1 characters; remove_newline throws away the rest of the
\* line.
read_line(line, n) == First(line, n - 1)

\* The length of the longest beginning of the text made of these characters.
Run(text, chars) ==
    LET stop == SelectInSeq(text, LAMBDA ch : ch \notin chars)
    IN  IF stop = 0 THEN Len(text) ELSE stop - 1

\* A number grows digit by digit, and stays at the limit once it is there.
Grow(sign, value, digit) ==
    IF sign = -1 THEN Max({LONG_MIN, 10 * value - digit}) ELSE Min({LONG_MAX, 10 * value + digit})

\* The number after all the digits, from 0 before the first.
Counted(sign, digits) ==
    LET value[n \in 0..Len(digits)] ==
            IF n = 0 THEN 0 ELSE Grow(sign, value[n - 1], DigitValue(digits[n]))
    IN  value[Len(digits)]

\* Where the digits of a number begin: after blanks and a sign.
Before(text) ==
    LET blanks == Run(text, {" "})
    IN  blanks + (IF First(After(text, blanks), 1) \in {<<ch>> : ch \in Signs} THEN 1 ELSE 0)

\* strtol in base 10.  `end' counts the characters it has taken: none when
\* there is no digit.
strtol(text) ==
    LET before == Before(text)
        sign   == IF before > 0 /\ text[before] = "-" THEN -1 ELSE 1
        digits == First(After(text, before), Run(After(text, before), ToSet(Digits)))
    IN  [value |-> Counted(sign, digits),
         end   |-> IF digits = << >> THEN 0 ELSE before + Len(digits)]

\* Mutant: the end of the text is not looked at.
CheckIntPrefix(text) == strtol(text) \in [value : INT_MIN..INT_MAX, end : 1..Len(text)]

\* Something was read, nothing is left, and it fits an int.  The test of errno
\* changes nothing: the limits of long are no ints.
_check_int(text) == strtol(text) \in [value : INT_MIN..INT_MAX, end : {Len(text)} \ {0}]

IntIn(text) == strtol(text).value

\* The clients of the other programs read their numbers with the same calls.
read_int_from_stdin(line) == _check_int(read_line(line, INT_BUFFER))

-----------------------------------------------------------------------------
\* Where the texts between separators begin and end, the k-th one first.
Marks(text, separator) == {i \in DOMAIN text : text[i] = separator} \cup {0, Len(text) + 1}
Mark(marks, k) == CHOOSE i \in marks : Cardinality({j \in marks : j < i}) = k - 1

\* What strsep yields, one after another: the texts between separators.
Tokens(text, separator) ==
    LET marks == Marks(text, separator)
    IN  [k \in 1..Cardinality(marks) - 1 |->
            SubSeq(text, Mark(marks, k) + 1, Mark(marks, k + 1) - 1)]

\* Mutant: the copy that is taken apart has room for the NUL.
AddressCutShort(text) ==
    /\ Contains(text, ".")
    /\ LET groups == Tokens(First(text, IP_ADDR_LEN - 1), ".")
       IN  /\ Len(groups) = IP_ADDR_GP
           /\ \A g \in ToSet(groups) :
                  _check_int(g) /\ IntIn(g) \in IP_ADDR_MIN..IP_ADDR_MAX

\* strndup leaves IP_ADDR_LEN characters of the text to be taken apart.
read_ip_address_from_buffer(text) ==
    /\ Contains(text, ".")
    /\ LET groups == Tokens(First(text, IP_ADDR_LEN), ".")
       IN  /\ Len(groups) = IP_ADDR_GP
           /\ \A g \in ToSet(groups) :
                  _check_int(g) /\ IntIn(g) \in IP_ADDR_MIN..IP_ADDR_MAX

\* The numbers of an address that was accepted.
Address(text) ==
    [k \in 1..IP_ADDR_GP |-> IntIn(Tokens(First(text, IP_ADDR_LEN), ".")[k])]

read_ip_address_from_stdin(line) == read_ip_address_from_buffer(read_line(line, IP_ADDR_LEN))

MaskAccepted(text) == _check_int(text) /\ IntIn(text) \in MASK_MIN..MASK_MAX

\* The tokens of a line: whether the first, and whether the second one too, is
\* accepted.
AddressToken(text) ==
    /\ Contains(text, "/")
    /\ read_ip_address_from_buffer(First(Tokens(text, "/")[1], IP_ADDR_LEN))
MaskToken(text) == AddressToken(text) /\ MaskAccepted(Tokens(text, "/")[2])

\* What the record becomes: `mask' says whether the line has a mask to store.
Stored(tokens, ok, address, mask, old) ==
    [ok          |-> ok,
     destination |-> IF address THEN First(tokens[1], IP_ADDR_LEN) ELSE old.destination,
     mask        |-> IF mask THEN IntIn(tokens[2]) ELSE old.mask]

\* Mutant: the mask is stored before it is compared with its limits.
SubnetStoresEarly(text, old) ==
    LET tokens == Tokens(text, "/")
    IN  Stored(tokens, MaskToken(text) /\ Len(tokens) = 2, AddressToken(text),
               AddressToken(text) /\ _check_int(tokens[2]), old)

\* Mutant: what follows a second slash is not looked at.
SubnetOpenEnded(text, old) ==
    Stored(Tokens(text, "/"), MaskToken(text), AddressToken(text), MaskToken(text), old)

\* The tokens are stored one by one as they are accepted: a line that turns out
\* to be wrong further on has changed the record `old' by then.
read_destination_subnet_from_buffer(text, old) ==
    LET tokens == Tokens(text, "/")
    IN  Stored(tokens, MaskToken(text) /\ Len(tokens) = 2, AddressToken(text),
               MaskToken(text), old)

read_destination_subnet_from_stdin(line, old) ==
    read_destination_subnet_from_buffer(read_line(line, IP_ADDR_LEN + 3), old)

\* strncpy ends what it stores with a NUL only if there is room left.
Terminated(stored) == Len(stored) < IP_ADDR_LEN
=============================================================================
