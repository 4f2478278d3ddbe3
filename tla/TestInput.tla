----------------------------- MODULE TestInput -----------------------------
(***************************************************************************)
(* tests/test_input.c: the functions of Input, called by tests that the    *)
(* runner of Unity runs.  A test writes a text to its buffer, asserts what *)
(* a function returns for it, and goes on to the next text.                *)
(*                                                                         *)
(* The texts and what the tests expect are any, so that the runner also    *)
(* sees tests that fail; what test_input.c itself expects is in Accepted   *)
(* and Rejected.                                                           *)
(***************************************************************************)
EXTENDS Unity, Input

CONSTANTS
    Alphabet,
    Texts,                  \* for each test, the texts it may write
    NoText,                 \* nothing written yet
    UNITY_INT_WIDTH,        \* bits of an int
    UNITY_BITS,             \* what the assertions are tried on: ints of so many bits,
    ELEMENTS, Values,       \* arrays of so many values
    Strings,                \* and strings
    PRINTED_BITS            \* and bits of what is printed

ASSUME TextsAssumption ==
    /\ DOMAIN Texts = 1..MAX_TESTS /\ \A n \in 1..MAX_TESTS : Texts[n] \subseteq Seq(Alphabet)
    /\ NoText \notin Seq(Alphabet)

ASSUME AssertionsAssumption ==
    /\ UNITY_BITS \in Nat \ {0} /\ ELEMENTS \in Nat
    /\ PRINTED_BITS \in Nat \ {0} /\ PRINTED_BITS % 4 = 0
    /\ UNITY_INT_WIDTH \in 1..PRINTED_BITS
    /\ Strings \subseteq Seq(Alphabet) /\ "NUL" \notin Alphabet
    /\ NoText \notin {"p", "q"}

VARIABLES buffer            \* of the test that runs
vars == <<unityVars, buffer>>

Assertions == INSTANCE UnityAssertions WITH NULL <- NoText
Wide       == INSTANCE UnityAssertions WITH UNITY_BITS <- PRINTED_BITS, NULL <- NoText

\* What is printed fits a long.
ASSUME PrintedAssumption == Wide!INT \subseteq LONG_MIN..LONG_MAX

TypeOK ==
    /\ UnityTypeOK
    /\ buffer # NoText => pc = "Func" /\ buffer \in Seq(Alphabet)

Init == UnityInit /\ buffer = NoText

Status(accepted) == IF accepted THEN 0 ELSE -1

\* Any record: what a rejected subnet leaves of it is judged apart.
Blank == [destination |-> NoText, mask |-> NoText]

Results(text) == {Status(_check_int(text)), Status(read_ip_address_from_buffer(text)),
                  Status(read_destination_subnet_from_buffer(text, Blank).ok)}

Write ==
    /\ pc = "Func" /\ buffer = NoText
    /\ buffer' \in Texts[NumberOfTests]
    /\ UNCHANGED unityVars

\* TEST_ASSERT_EQUAL_INT(expected, read_...(buffer, ...))
TEST_ASSERT_EQUAL_INT(expected) ==
    /\ pc = "Func" /\ buffer # NoText /\ buffer' = NoText
    /\ \E actual \in Results(buffer) :
           IF Assertions!UnityAssertEqualNumber(expected, actual)
           THEN UNCHANGED unityVars
           ELSE AssertFails

\* The hooks, which are empty in test_input.c, may fail or ignore the test too.
HookFails == pc # "Func" /\ AssertFails /\ UNCHANGED buffer

Runner ==
    /\ UnityBegin \/ UnityDefaultTestRun \/ Return \/ UnityIgnore
       \/ TEST_PASS \/ UnityConcludeTest \/ UnityEnd
    /\ buffer' = NoText

Next ==
    \/ Runner \/ HookFails \/ Write
    \/ \E expected \in {0, -1} : TEST_ASSERT_EQUAL_INT(expected)

Spec == Init /\ [][Next]_vars

-----------------------------------------------------------------------------
(* What the texts mean, said without strtol and strsep *)

\* The number that the digits of a text stand for: ten times what they stand for
\* without the last one, and the last one.
Positional(digits) ==
    LET size[n \in 0..Len(digits)] ==
            IF n = 0 THEN 0 ELSE 10 * size[n - 1] + DigitValue(digits[n])
    IN  size[Len(digits)]

\* A text that fills a buffer for a number, and is written with neither sign nor
\* leading zeros, is too large for an int, the smallest such number already.
ASSUME BufferAssumption ==
    Positional([i \in 1..INT_BUFFER - 1 |-> IF i = 1 THEN "1" ELSE "0"]) > INT_MAX

\* Blanks, at most one sign, and digits to the end.
Spellings(text) ==
    {p \in (0..Len(text)) \X {0, 1} :
        LET b == p[1]
            s == p[2]
        IN  /\ b + s < Len(text)
            /\ \A i \in 1..b : text[i] = " "
            /\ s = 1 => text[b + 1] \in Signs
            /\ \A i \in b + s + 1..Len(text) : IsDigit(text[i])}

Meaning(text) ==
    LET spelling == CHOOSE p \in Spellings(text) : TRUE
        size     == Positional(After(text, spelling[1] + spelling[2]))
    IN  IF spelling[2] = 1 /\ text[spelling[1] + 1] = "-" THEN -size ELSE size

IsInteger(text, low, high) == Spellings(text) # {} /\ Meaning(text) \in low..high

\* A text is read as an int exactly if it spells one that fits, to its last
\* character, and as the number it spells: strtol stops at what it does not
\* know and stays at its limits (utils.c, _check_int and read_int_from_buffer).
IntGrammar ==
    buffer # NoText =>
        /\ _check_int(buffer) <=> IsInteger(buffer, INT_MIN, INT_MAX)
        /\ _check_int(buffer) => IntIn(buffer) = Meaning(buffer)

\* A number typed on a console is read whole or not at all, if it is written
\* without a sign, leading blanks and zeros: what a buffer of INT_LEN bytes
\* takes of a longer one fits no int.  A sign takes the place of the first digit
\* too many, so that of a negative number with too many digits only the first
\* ones are read (read_line and read_int_from_buffer in the clients of the
\* socket, queue and memory programs).
LineReadWhole ==
    (/\ buffer # NoText /\ read_int_from_stdin(buffer) /\ Spellings(buffer) # {}
     /\ buffer[1] \notin Signs \cup {" ", "0"})
        => IntIn(read_line(buffer, INT_BUFFER)) = Meaning(buffer)

\* Texts and lines are read as the numbers they spell.
NumbersRead == IntGrammar /\ LineReadWhole

\* A text with one dot less than there are groups, and a group between any two.
OfGroups(text, Group(_)) ==
    LET dots == {i \in DOMAIN text : text[i] = "."}
        ends == dots \cup {0, Len(text) + 1}
    IN  /\ Cardinality(dots) = IP_ADDR_GP - 1
        /\ \A i, j \in ends : (i < j /\ ~ \E k \in dots : i < k /\ k < j) =>
               Group(SubSeq(text, i + 1, j - 1))

\* A group that strtol takes: blanks and a sign before the digits do not matter.
NumberGroup(group) == IsInteger(group, IP_ADDR_MIN, IP_ADDR_MAX)

\* A group as the comment at input.c:18-21 wants it: digits, and nothing else.
DigitGroup(group) ==
    /\ group # << >> /\ \A i \in DOMAIN group : IsDigit(group[i])
    /\ Positional(group) \in IP_ADDR_MIN..IP_ADDR_MAX

\* An address is accepted exactly if its first IP_ADDR_LEN characters are groups
\* that strtol takes, with dots between them; a longer text is judged, and
\* stored, by these characters alone.  So every address of plain digits is
\* accepted that has room in the buffer.  The comment at input.c:18-21 asks for
\* digits; the code accepts more, because a group may begin with blanks and a
\* sign: "-0", "+1" and " 2" are groups (read_ip_address_from_buffer).
AddressGrammar ==
    buffer # NoText =>
        /\ read_ip_address_from_buffer(buffer) <=> OfGroups(First(buffer, IP_ADDR_LEN), NumberGroup)
        /\ Len(buffer) <= IP_ADDR_LEN /\ OfGroups(buffer, DigitGroup)
               => read_ip_address_from_buffer(buffer)

\* What an accepted line leaves in the record is the subnet of the line: the
\* mask it ends with, and a destination that, where its NUL has room, is read
\* back as the same address (read_destination_subnet_from_buffer).
SubnetStored(read) ==
    \A slash \in {i \in DOMAIN buffer : buffer[i] = "/"} :
        /\ read.mask = Meaning(After(buffer, slash)) /\ read.mask \in MASK_MIN..MASK_MAX
        /\ Terminated(read.destination) =>
               /\ read_ip_address_from_buffer(read.destination)
               /\ Address(read.destination) = Address(First(buffer, slash - 1))

\* A rejected line may have changed the record already, but only to an address
\* that was accepted, and the mask only after it and within its limits: the
\* rejected lines that Rtm gives its console.
RejectedLeaves(read) ==
    /\ read.destination # NoText => read_ip_address_from_buffer(read.destination)
    /\ read.mask # NoText => read.destination # NoText /\ read.mask \in MASK_MIN..MASK_MAX

\* A line leaves its subnet in the record, or only what is right of it.
SubnetsRead ==
    buffer # NoText =>
        \E read \in {read_destination_subnet_from_buffer(buffer, Blank)} :
            IF read.ok THEN SubnetStored(read) ELSE RejectedLeaves(read)

-----------------------------------------------------------------------------
(* What test_input.c expects, with the limits of the program.  TLC counts  *)
(* to 2^31 - 1: int and long are narrower here.                            *)

Real == INSTANCE Input WITH
            IP_ADDR_LEN <- 16, IP_ADDR_GP <- 4, IP_ADDR_MIN <- 0, IP_ADDR_MAX <- 255,
            MASK_MIN <- 0, MASK_MAX <- 32, INT_MIN <- -32768, INT_MAX <- 32767,
            LONG_MIN <- -100000000, LONG_MAX <- 99999999, INT_BUFFER <- 12

Chars(string) == [i \in 1..Len(string) |-> SubSeq(string, i, i)]

Integers_ ==
    [accepted |-> {"0", "-1", "1", "-32768", "32767"},
     rejected |-> {"-100000000", "99999999", "123456789012345678901234567890",
                   "-123456789012345678901234567890", "x", "", "123x456", "123x", "x456"}]

Addresses ==
    [accepted |-> {"1.2.3.4", "0.0.0.0", "255.255.255.255"},
     rejected |-> {"1.2.3.-1", "1.2.3.256", "1.2.3.", "1.2.3", "1.2.", "1.2", "1.", "1..",
                   "...", "1.2..3.4", "1.2.3.4x", "1.2.3.4/", "1.2.3.4/5", "", " ", "x"}]

Subnets ==
    [accepted |-> {"1.2.3.4/5", "0.0.0.0/0", "255.255.255.255/32"},
     rejected |-> {"1.2.3.-1/5", "1.2.3.0/-5", "1.2.3.256/5", "1.2.3.4/33", "1.2.3./5",
                   "1.2.3/5", "1.2./5", "1.2/5", "1./5", "1/5", "/5", " /5", "1", "1.2.3.4/",
                   "1../5", ".../5", "1.2..3.4/5", "1.2.3.4//5", "1.2.3.4/5/", "1.2.3.4//",
                   "1.2.3.4/ ", "1.2.3.4/x", "1.2.3.4x/5", "1.2.3.4/5x", "", " ", "x"}]

\* A subnet is accepted, and the record has what is before and after the slash.
SubnetAccepted(text) ==
    \E slash \in DOMAIN text :
        /\ text[slash] = "/"
        /\ Real!read_destination_subnet_from_buffer(text, Blank) =
               [ok |-> TRUE, destination |-> First(text, slash - 1),
                mask |-> Meaning(After(text, slash))]

\* The tests of the repository pass: every text test_input.c lists is accepted
\* or rejected as it says, with the value it says.  (Judged once, before the
\* tests run.)
RepositoryTests == pc = "begin" =>
    /\ \A t \in Integers_.accepted :
           Real!_check_int(Chars(t)) /\ Real!IntIn(Chars(t)) = Meaning(Chars(t))
    /\ \A t \in Integers_.rejected : ~ Real!_check_int(Chars(t))
    /\ \A t \in Addresses.accepted : Real!read_ip_address_from_buffer(Chars(t))
    /\ \A t \in Addresses.rejected : ~ Real!read_ip_address_from_buffer(Chars(t))
    /\ \A t \in Subnets.accepted : SubnetAccepted(Chars(t))
    /\ \A t \in Subnets.rejected : ~ Real!read_destination_subnet_from_buffer(Chars(t), Blank).ok

-----------------------------------------------------------------------------
(* The assertions of unity.c, over all numbers of UNITY_BITS bits, and      *)
(* what it prints of all numbers of PRINTED_BITS bits                      *)

\* What UnityPrintNumber prints is read back as the number, the smallest one
\* included, and no two numbers look alike; a mask shows exactly the bits of an
\* int.  Where all bits are compared, no number has the bits of another.
PrintedReads ==
    /\ \A n \in Wide!INT :
           LET text == Wide!UnityPrintNumber(n)
           IN  strtol(text) = [value |-> n, end |-> Len(text)]
    /\ Cardinality(Wide!UINT) = Cardinality({Wide!UnityPrintNumberUnsigned(n) : n \in Wide!UINT})
    /\ Cardinality(Wide!UINT) =
           Cardinality({Wide!UnityPrintNumberHex(n, PRINTED_BITS) : n \in Wide!UINT})
    /\ \A m, n \in Wide!UINT :
           Wide!UnityPrintMask(-1, m) = Wide!UnityPrintMask(-1, n)
               <=> m % 2^UNITY_INT_WIDTH = n % 2^UNITY_INT_WIDTH
    /\ \A t, a \in Assertions!INT :
           Assertions!UnityAssertBits(-1, t, a) <=> Assertions!UnityAssertEqualNumber(t, a)

Distance(m, n) == IF m < n THEN n - m ELSE m - n

Floats == {Assertions!Inf, Assertions!NegInf, Assertions!NaN}
          \cup {Assertions!Finite(n) : n \in Assertions!INT}

\* ..._WITHIN accepts exactly the numbers at most delta away, however far apart
\* the numbers are that it rejects, and does not mind which of two is expected.
WithinIsDistance ==
    /\ \A e, a \in Assertions!INT, delta \in Assertions!UINT :
           /\ Assertions!UnityAssertNumbersWithin(delta, e, a, TRUE) <=> Distance(e, a) <= delta
           /\ Assertions!UnityAssertNumbersWithin(delta, e, a, FALSE) <=>
                  Distance(Assertions!Unsigned(e), Assertions!Unsigned(a)) <= delta
    /\ \A e, a, delta \in Floats :
           /\ Assertions!UnityAssertFloatsWithin(delta, e, a)
                  <=> Assertions!UnityAssertFloatsWithin(delta, a, e)
           /\ Assertions!UnityAssertFloatsWithin(delta, e, a) /\ e.kind # "finite" => e = a

\* A pair of pointers, and what they point to.
Memory(c, d) == [p \in {"p", "q"} |-> IF p = "p" THEN c ELSE d]

\* What is equal is accepted and nothing else, whichever function compares it:
\* arrays, the same arrays as bytes, strings, and strings of an array, with those
\* of another or with one string.  No elements at all are never equal; NULL
\* equals only NULL, but as the one string expected of an array not even that.
\* Floating point numbers of an array may differ, by up to the given fraction of
\* the expected one (a precision of 1/precision).
EqualIsEqual ==
    /\ \A c, d \in [1..ELEMENTS -> Values], n \in 0..ELEMENTS :
           LET mem  == Memory(c, d)
               same == n > 0 /\ SubSeq(c, 1, n) = SubSeq(d, 1, n)
           IN  /\ Assertions!UnityAssertEqualIntArray(mem, "p", "q", n, FALSE) <=> same
               /\ Assertions!UnityAssertEqualMemory(mem, "p", "q", n, 1, FALSE) <=> same
               /\ Assertions!UnityAssertEqualMemory(mem, "p", "q", 1, n, FALSE) <=> same
               /\ Assertions!UnityAssertEqualMemory(mem, "p", "q", 1, n, TRUE)
                      <=> Assertions!UnityAssertEqualIntArray(mem, "p", "q", n, TRUE)
               /\ ~ Assertions!UnityAssertEqualIntArray(mem, NoText, "q", n, FALSE)
    /\ \A f, g \in Floats, n \in 0..1, precision \in 1..2^UNITY_BITS :
           Assertions!UnityAssertEqualFloatArray(Memory(<<f>>, <<g>>), "p", "q", n, FALSE,
                                                 precision)
               <=> /\ n = 1
                   /\ \/ f = g
                      \/ /\ {f.kind, g.kind} = {"finite"}
                         /\ Distance(f.value, g.value) * precision <= Distance(f.value, 0)
    /\ \A s, t \in Strings \cup {NoText} :
           /\ Assertions!UnityAssertEqualString(s, t) <=> s = t
           /\ Assertions!UnityAssertEqualStringArray(Memory(<<s, t>>, <<t, t>>), "p", "q", 2, FALSE)
                  <=> s = t
           /\ s # NoText =>
                  (Assertions!UnityAssertEqualStringArray(Memory(s, <<s, t>>), "p", "q", 2, TRUE)
                       <=> s = t)
           /\ ~ Assertions!UnityAssertEqualStringArray(Memory(s, <<t>>), NoText, "q", 1, TRUE)

\* Of a comparison and its opposite exactly one accepts two numbers, signed or
\* not, and so of a floating point trait and its negation.
OppositesDiffer ==
    /\ \A t, a \in Assertions!INT, signed \in BOOLEAN :
           LET Holds(compare) ==
                   Assertions!UnityAssertGreaterOrLessOrEqualNumber(t, a, compare, signed)
           IN  /\ Holds({"GREATER_THAN"}) <=> ~ Holds({"SMALLER_THAN", "EQUAL_TO"})
               /\ Holds({"SMALLER_THAN"}) <=> ~ Holds({"GREATER_THAN", "EQUAL_TO"})
    /\ \A f \in Floats, trait \in {"inf", "neg_inf", "nan", "det"} :
           Assertions!UnityAssertFloatSpecial(f, trait, TRUE)
               <=> ~ Assertions!UnityAssertFloatSpecial(f, trait, FALSE)
    /\ \A f \in Floats :
           Cardinality({trait \in {"inf", "neg_inf", "nan", "det"} :
                            Assertions!UnityAssertFloatSpecial(f, trait, TRUE)}) = 1

\* The assertions accept what their names promise, at the ends of the ranges and
\* of the arrays too, and what they print of a number tells which one it was.
\* (Judged once, before the tests run.)
AssertionsExact ==
    pc = "begin" => WithinIsDistance /\ EqualIsEqual /\ OppositesDiffer /\ PrintedReads
=============================================================================
