--------------------------- MODULE TestInputProofs ---------------------------
(***************************************************************************)
(* Theorems about the runner of Unity, for any number of tests: what a     *)
(* program of RUN_TESTs counts and returns; and about the readers of       *)
(* utils.c and input.c, for texts of any length over any alphabet and for  *)
(* any limits: what they accept and store is what the texts say; and about *)
(* the assertions of unity.c, for ints of any width, arrays of any length  *)
(* and any strings, and what it prints of numbers of any width.            *)
(***************************************************************************)
EXTENDS TestInput, FiniteSetTheorems, TLAPS

\* Between two tests no flag is set; in a test the flags say what was printed,
\* and at most one of them is set.
FlagsInv ==
    /\ pc \in {"begin", "main", "setUp", "ended"} =>
           ~ CurrentTestFailed /\ ~ CurrentTestIgnored
    /\ pc \in UserCode \cup {"conclude"} =>
           /\ CurrentTestFailed  <=> outcome = "FAIL"
           /\ CurrentTestIgnored <=> outcome = "IGNORE"

\* The test that runs is counted, and has no verdict yet.
CountInv ==
    /\ pc \in UserCode \cup {"conclude"} =>
           NumberOfTests = passes + TestIgnores + TestFailures + 1
    /\ pc \in {"begin", "main", "ended"} =>
           NumberOfTests = passes + TestIgnores + TestFailures
    /\ pc = "begin" => passes = 0
    /\ pc = "ended" => exit = TestFailures

UnityInv == UnityTypeOK /\ FlagsInv /\ CountInv

\* No flag is set at the start, and nothing is counted.
LEMMA InitInv == Init => UnityInv
<1> SUFFICES ASSUME UnityInit PROVE UnityInv
  BY DEF Init
<1>1. UnityTypeOK
  <2>1. 0 \in 0..MAX_TESTS
    BY UnityAssumption
  <2> QED  BY <2>1, Zenon DEF UnityInit, UnityTypeOK, UserCode
<1>2. FlagsInv
  BY DEF UnityInit, FlagsInv, UserCode
<1>3. CountInv
  BY DEF UnityInit, CountInv, UserCode
<1> QED  BY <1>1, <1>2, <1>3 DEF UnityInv

\* Whatever a test does, the runner sees one of its own steps, or none.
LEMMA NextIsUnity == [Next]_vars => [UnityNext]_unityVars
<1> SUFFICES ASSUME [Next]_vars PROVE UnityNext \/ UNCHANGED unityVars
  OBVIOUS
<1>1. CASE Runner
  BY <1>1 DEF Runner, UnityNext
<1>2. CASE HookFails
  BY <1>2 DEF HookFails, UnityNext
<1>3. CASE Write
  BY <1>3 DEF Write
<1>4. CASE \E expected \in {0, -1} : TEST_ASSERT_EQUAL_INT(expected)
  BY <1>4 DEF TEST_ASSERT_EQUAL_INT, UnityNext
<1>5. CASE UNCHANGED vars
  BY <1>5 DEF vars
<1> QED  BY <1>1, <1>2, <1>3, <1>4, <1>5 DEF Next

\* What a verdict adds to the totals.
LEMMA ConcludeCounts ==
  ASSUME UnityInv, UnityConcludeTest
  PROVE  \/ outcome = "none"   /\ passes' = passes + 1 /\ UNCHANGED <<TestFailures, TestIgnores>>
         \/ outcome = "FAIL"   /\ TestFailures' = TestFailures + 1 /\ UNCHANGED <<TestIgnores, passes>>
         \/ outcome = "IGNORE" /\ TestIgnores' = TestIgnores + 1 /\ UNCHANGED <<TestFailures, passes>>
<1>1. /\ CurrentTestFailed  <=> outcome = "FAIL"
      /\ CurrentTestIgnored <=> outcome = "IGNORE"
      /\ outcome \in {"none", "FAIL", "IGNORE"}
  BY DEF UnityInv, UnityTypeOK, FlagsInv, UnityConcludeTest
<1>2. {TestFailures, TestIgnores, passes} \subseteq Nat
  BY UnityAssumption DEF UnityInv, UnityTypeOK
<1>3. CASE outcome = "none"
  <2>1. /\ TestIgnores' = TestIgnores + 0 /\ TestFailures' = TestFailures + 0
        /\ passes' = passes + 1
    BY <1>1, <1>3, Zenon DEF UnityConcludeTest, RETURN_IF_FAIL_OR_IGNORE
  <2> QED  BY <1>2, <1>3, <2>1
<1>4. CASE outcome = "FAIL"
  <2>1. /\ TestIgnores' = TestIgnores + 0 /\ TestFailures' = TestFailures + 1
        /\ passes' = passes + 0
    BY <1>1, <1>4, Zenon DEF UnityConcludeTest, RETURN_IF_FAIL_OR_IGNORE
  <2> QED  BY <1>2, <1>4, <2>1
<1>5. CASE outcome = "IGNORE"
  <2>1. /\ TestIgnores' = TestIgnores + 1 /\ TestFailures' = TestFailures + 0
        /\ passes' = passes + 0
    BY <1>1, <1>5, Zenon DEF UnityConcludeTest, RETURN_IF_FAIL_OR_IGNORE
  <2> QED  BY <1>2, <1>5, <2>1
<1> QED  BY <1>1, <1>3, <1>4, <1>5

\* No step of the runner breaks them.
LEMMA NextInv == UnityInv /\ [UnityNext]_unityVars => UnityInv'
<1> SUFFICES ASSUME UnityInv, [UnityNext]_unityVars PROVE UnityInv'
  OBVIOUS
<1> USE UnityAssumption DEF UnityInv
<1>1. CASE UnityBegin
  <2>1. UnityTypeOK'
    BY <1>1 DEF UnityBegin, UnityTypeOK, CountInv, UserCode
  <2>2. FlagsInv'
    BY <1>1 DEF UnityBegin, FlagsInv, UnityTypeOK, UserCode
  <2>3. CountInv'
    BY <1>1 DEF UnityBegin, UnityTypeOK, CountInv, UserCode
  <2> QED  BY <2>1, <2>2, <2>3
<1>2. CASE UnityDefaultTestRun
  <2>1. UnityTypeOK'
    BY <1>2 DEF UnityDefaultTestRun, UnityTypeOK, CountInv, UserCode
  <2>2. FlagsInv'
    BY <1>2 DEF UnityDefaultTestRun, FlagsInv, UnityTypeOK, UserCode
  <2>3. CountInv'
    BY <1>2 DEF UnityDefaultTestRun, UnityTypeOK, CountInv, UserCode
  <2> QED  BY <2>1, <2>2, <2>3
<1>3. CASE Return
  <2>1. UnityTypeOK'
    BY <1>3 DEF Return, Counters, UnityTypeOK, CountInv, UserCode
  <2>2. FlagsInv'
    BY <1>3 DEF Return, Counters, FlagsInv, UnityTypeOK, UserCode
  <2>3. CountInv'
    BY <1>3 DEF Return, Counters, UnityTypeOK, CountInv, UserCode
  <2> QED  BY <2>1, <2>2, <2>3
<1>4. CASE AssertFails
  <2>1. UnityTypeOK'
    BY <1>4 DEF AssertFails, Abort, Counters, UnityTypeOK, CountInv, UserCode
  <2>2. FlagsInv'
    BY <1>4 DEF AssertFails, Abort, Counters, RETURN_IF_FAIL_OR_IGNORE, FlagsInv, UnityTypeOK, UserCode
  <2>3. CountInv'
    BY <1>4 DEF AssertFails, Abort, Counters, UnityTypeOK, CountInv, UserCode
  <2> QED  BY <2>1, <2>2, <2>3
<1>5. CASE UnityIgnore
  <2>1. UnityTypeOK'
    BY <1>5 DEF UnityIgnore, Abort, Counters, UnityTypeOK, CountInv, UserCode
  <2>2. FlagsInv'
    BY <1>5 DEF UnityIgnore, Abort, Counters, RETURN_IF_FAIL_OR_IGNORE, FlagsInv, UnityTypeOK, UserCode
  <2>3. CountInv'
    BY <1>5 DEF UnityIgnore, Abort, Counters, UnityTypeOK, CountInv, UserCode
  <2> QED  BY <2>1, <2>2, <2>3
<1>6. CASE TEST_PASS
  <2>1. UnityTypeOK'
    BY <1>6 DEF TEST_PASS, Abort, Counters, UnityTypeOK, CountInv, UserCode
  <2>2. FlagsInv'
    BY <1>6 DEF TEST_PASS, Abort, Counters, FlagsInv, UnityTypeOK, UserCode
  <2>3. CountInv'
    BY <1>6 DEF TEST_PASS, Abort, Counters, UnityTypeOK, CountInv, UserCode
  <2> QED  BY <2>1, <2>2, <2>3
<1>7. CASE UnityEnd
  <2>1. UnityTypeOK'
    BY <1>7 DEF UnityEnd, Counters, UnityTypeOK, CountInv, UserCode
  <2>2. FlagsInv'
    BY <1>7 DEF UnityEnd, Counters, FlagsInv, UnityTypeOK, UserCode
  <2>3. CountInv'
    BY <1>7 DEF UnityEnd, Counters, UnityTypeOK, CountInv, UserCode
  <2> QED  BY <2>1, <2>2, <2>3
<1>8. CASE UnityConcludeTest
  <2>1. /\ NumberOfTests' = passes' + TestIgnores' + TestFailures'
        /\ {TestFailures', TestIgnores', passes'} \subseteq 0..MAX_TESTS
    <3>1. /\ NumberOfTests = passes + TestIgnores + TestFailures + 1
          /\ UNCHANGED NumberOfTests
      BY <1>8 DEF UnityConcludeTest, CountInv
    <3>2. /\ NumberOfTests \in 0..MAX_TESTS
          /\ {TestFailures, TestIgnores, passes} \subseteq 0..MAX_TESTS
      BY DEF UnityTypeOK
    <3> HIDE DEF UnityInv
    <3> QED  BY <1>8, <3>1, <3>2, ConcludeCounts
  <2>2. UnityTypeOK'
    BY <1>8, <2>1 DEF UnityConcludeTest, UnityTypeOK
  <2>3. FlagsInv'
    BY <1>8 DEF UnityConcludeTest, FlagsInv, UserCode
  <2>4. CountInv'
    BY <1>8, <2>1 DEF UnityConcludeTest, CountInv, UserCode
  <2> QED  BY <2>2, <2>3, <2>4
<1>9. CASE UNCHANGED unityVars
  BY <1>9 DEF unityVars, UnityTypeOK, FlagsInv, CountInv
<1> QED
  BY <1>1, <1>2, <1>3, <1>4, <1>5, <1>6, <1>7, <1>8, <1>9 DEF UnityNext

\* A text is written in the function of a test only, and is one of its texts.
BufferInv == buffer # NoText => pc = "Func" /\ buffer \in Seq(Alphabet)

\* The buffer stays one of the texts, or none, whatever is written.
LEMMA NextBuffer == UnityInv /\ BufferInv /\ [Next]_vars => BufferInv'
<1> SUFFICES ASSUME UnityInv, BufferInv, [Next]_vars PROVE BufferInv'
  OBVIOUS
<1>1. CASE Runner
  BY <1>1 DEF Runner, BufferInv
<1>2. CASE HookFails
  <2>1. buffer = NoText /\ buffer' = buffer
    BY <1>2 DEF HookFails, BufferInv
  <2> QED  BY <2>1 DEF BufferInv
<1>3. CASE Write
  <2>1. NumberOfTests \in 1..MAX_TESTS
    <3>1. NumberOfTests = passes + TestIgnores + TestFailures + 1
      BY <1>3 DEF Write, UnityInv, CountInv, UserCode
    <3>2. /\ NumberOfTests \in 0..MAX_TESTS /\ MAX_TESTS \in Nat
          /\ {TestFailures, TestIgnores, passes} \subseteq Nat
      BY UnityAssumption DEF UnityInv, UnityTypeOK
    <3> QED  BY <3>1, <3>2
  <2>2. buffer' \in Texts[NumberOfTests] /\ pc = "Func" /\ pc' = pc
    BY <1>3 DEF Write, unityVars
  <2>3. buffer' \in Seq(Alphabet)
    BY <2>1, <2>2, TextsAssumption
  <2> QED  BY <2>2, <2>3 DEF BufferInv
<1>4. CASE \E expected \in {0, -1} : TEST_ASSERT_EQUAL_INT(expected)
  BY <1>4 DEF TEST_ASSERT_EQUAL_INT, BufferInv
<1>5. CASE UNCHANGED vars
  BY <1>5 DEF vars, unityVars, BufferInv
<1> QED  BY <1>1, <1>2, <1>3, <1>4, <1>5 DEF Next

\* Every counter of the runner stays within the tests there are, every flag is a
\* flag (struct UNITY_STORAGE_T), and the buffer of a test holds one of its texts.
THEOREM TypeCorrect == Spec => []TypeOK
<1>1. Init => BufferInv
  BY DEF Init, BufferInv
<1>2. UnityInv /\ BufferInv => TypeOK
  BY DEF UnityInv, BufferInv, TypeOK
<1> QED  BY InitInv, NextIsUnity, NextInv, NextBuffer, <1>1, <1>2, PTL DEF Spec

\* What main returns is the number of tests that failed, and every test is in
\* one of the three totals, wherever its assertions jump (UnityConcludeTest,
\* UnityEnd).
THEOREM TestsAreCounted == Spec => []EveryTestCounts
<1>1. UnityInv => EveryTestCounts
  BY DEF UnityInv, CountInv, EveryTestCounts
<1> QED  BY InitInv, NextIsUnity, NextInv, <1>1, PTL DEF Spec

\* A test counts as what it was told first, whatever setUp, the function and
\* tearDown go on to do (UnityConcludeTest).
THEOREM FirstVerdictCounts == Spec => VerdictIsFirst
<1>1. UnityInv /\ [UnityNext]_unityVars =>
          [pc = "conclude" =>
              /\ TestFailures' > TestFailures <=> outcome = "FAIL"
              /\ TestIgnores'  > TestIgnores  <=> outcome = "IGNORE"
              /\ passes'       > passes       <=> outcome = "none"]_unityVars
  <2> SUFFICES ASSUME UnityInv, UnityNext, pc = "conclude"
      PROVE /\ TestFailures' > TestFailures <=> outcome = "FAIL"
            /\ TestIgnores'  > TestIgnores  <=> outcome = "IGNORE"
            /\ passes'       > passes       <=> outcome = "none"
    OBVIOUS
  <2>1. UnityConcludeTest
    BY DEF UnityNext, UnityBegin, UnityDefaultTestRun, Return, AssertFails, UnityIgnore,
           TEST_PASS, UnityEnd, UserCode
  <2> QED
    BY <2>1, ConcludeCounts, UnityAssumption DEF UnityInv, UnityTypeOK
<1> QED  BY InitInv, NextIsUnity, NextInv, <1>1, PTL DEF Spec, VerdictIsFirst

-----------------------------------------------------------------------------
(* Induction over the naturals, from the theorems about finite sets: an
   injection of a finite set into itself is onto. *)

\* The sets of naturals are inductive.
LEMMA Induction ==
  ASSUME NEW n \in Nat, NEW S, 0 \in S, \A k \in 1..n : k - 1 \in S => k \in S
  PROVE  0..n \subseteq S
<1> SUFFICES ASSUME NEW x \in 0..n, x \notin S PROVE FALSE
  OBVIOUS
<1> DEFINE D == {i \in 0..x : i \notin S}
           down == [i \in D |-> i - 1]
<1>1. IsFiniteSet(D)
  <2>1. IsFiniteSet(0..x)  BY FS_Interval
  <2>2. D \in SUBSET (0..x)  OBVIOUS
  <2> QED  BY <2>1, <2>2, FS_Subset
<1>2. \A i \in D : i - 1 \in D
  OBVIOUS
<1>3. down \in Injection(D, D)
  <2>1. down \in [D -> D]  BY <1>2
  <2>2. \A i, j \in D : down[i] = down[j] => i = j  OBVIOUS
  <2> HIDE DEF down
  <2> QED  BY <2>1, <2>2 DEF Injection, IsInjective
<1>4. PICK i \in D : down[i] = x
  <2>1. down \in Surjection(D, D)
    BY <1>1, <1>3, FS_Injection
  <2>2. x \in D  OBVIOUS
  <2> HIDE DEF down, D
  <2> QED  BY <2>1, <2>2 DEF Surjection
<1> QED  BY <1>4

\* A set of naturals that is not empty has a least element.
LEMMA LeastElement ==
  ASSUME NEW n \in Nat, NEW T \in SUBSET (0..n), T # {}
  PROVE  \E m \in T : \A k \in T : m <= k
<1> SUFFICES ASSUME \A m \in T : \E k \in T : k < m PROVE FALSE
  OBVIOUS
<1> DEFINE S == {k \in 0..n : \A j \in T : k < j}
<1>1. 0 \in S
  OBVIOUS
<1>2. \A k \in 1..n : k - 1 \in S => k \in S
  OBVIOUS
<1>3. 0..n \subseteq S
  <2> HIDE DEF S
  <2> QED  BY <1>1, <1>2, Induction
<1>4. PICK m \in T : TRUE
  OBVIOUS
<1>5. m \in S
  BY <1>3
<1> QED  BY <1>5

\* A recursive definition over 0..n, with a step for each number, has a function.
LEMMA Recursion ==
  ASSUME NEW n \in Nat, NEW start \in Int, NEW step \in [1..n -> [Int -> Int]]
  PROVE  \E f \in [0..n -> Int] : /\ f[0] = start
                                /\ \A k \in 1..n : f[k] = step[k][f[k - 1]]
<1> DEFINE Upto(m, f) == f[0] = start /\ \A k \in 1..m : f[k] = step[k][f[k - 1]]
           S == {m \in 0..n : \E f \in [0..n -> Int] : Upto(m, f)}
<1>1. 0 \in S
  <2>1. [k \in 0..n |-> start] \in [0..n -> Int]  OBVIOUS
  <2>2. Upto(0, [k \in 0..n |-> start])  OBVIOUS
  <2> HIDE DEF Upto
  <2> QED  BY <2>1, <2>2
<1>2. ASSUME NEW k \in 1..n, k - 1 \in S PROVE k \in S
  <2>1. PICK f \in [0..n -> Int] : Upto(k - 1, f)  BY <1>2
  <2> DEFINE g == [f EXCEPT ![k] = step[k][f[k - 1]]]
  <2>2. f[k - 1] \in Int /\ step[k][f[k - 1]] \in Int
    OBVIOUS
  <2>3. g \in [0..n -> Int]  BY <2>2
  <2>4. g[0] = start  BY <2>1
  <2>5. ASSUME NEW j \in 1..k PROVE g[j] = step[j][g[j - 1]]
    <3>1. g[j - 1] = f[j - 1]
      OBVIOUS
    <3>2. CASE j = k
      BY <3>1, <3>2
    <3>3. CASE j < k
      <4>1. j \in 1..k - 1 /\ j \in 0..n /\ j # k
        BY <3>3
      <4>2. g[j] = f[j]
        BY <4>1
      <4>3. f[j] = step[j][f[j - 1]]
        BY <2>1, <4>1
      <4> QED  BY <3>1, <4>2, <4>3
    <3> QED  BY <3>2, <3>3
  <2>6. Upto(k, g)  BY <2>4, <2>5
  <2> HIDE DEF g, Upto
  <2> QED  BY <2>3, <2>6
<1>3. 0..n \subseteq S
  <2> HIDE DEF S
  <2> QED  BY <1>1, <1>2, Induction
<1>4. n \in S
  <2>1. n \in 0..n  OBVIOUS
  <2> HIDE DEF S
  <2> QED  BY <1>3, <2>1
<1> QED  BY <1>4

-----------------------------------------------------------------------------
(* Characters, and the beginnings of texts *)

\* What is known of a digit, whatever character it is.
LEMMA DigitChar ==
  ASSUME NEW ch, IsDigit(ch)
  PROVE  /\ DigitValue(ch) \in 0..9
         /\ ch # "0" => DigitValue(ch) > 0
         /\ ch # " " /\ ch \notin Signs
<1>1. PICK i \in 1..10 : Digits[i] = ch
  BY DEF IsDigit, ToSet, Digits
<1>2. \A j \in 1..10 : Digits[j] = ch => j = i
  BY <1>1 DEF Digits
<1>3. {j \in 1..Len(Digits) : Digits[j] = ch} = {i}
  BY <1>1, <1>2 DEF Digits
<1>4. DigitValue(ch) = i - 1
  BY <1>3 DEF DigitValue, SelectInSeq, Min
<1>5. ch # "0" => i # 1
  BY <1>1 DEF Digits
<1>6. ch \notin {" ", "-", "+"}
  <2>1. ch \in {"0", "1", "2", "3", "4", "5", "6", "7", "8", "9"}
    BY <1>1 DEF Digits
  <2> QED  BY <2>1
<1>7. DigitValue(ch) \in 0..9 /\ (ch # "0" => DigitValue(ch) > 0)
  BY <1>4, <1>5
<1> QED  BY <1>6, <1>7 DEF Signs

\* The characters of a beginning of a text.
LEMMA FirstIs ==
  ASSUME NEW A, NEW text \in Seq(A), NEW n \in Nat
  PROVE  /\ First(text, n) \in Seq(A)
         /\ Len(First(text, n)) = IF n < Len(text) THEN n ELSE Len(text)
         /\ \A i \in 1..Len(First(text, n)) : First(text, n)[i] = text[i]
BY DEF First

\* The characters of a text after its first n.
LEMMA AfterIs ==
  ASSUME NEW A, NEW text \in Seq(A), NEW n \in 0..Len(text)
  PROVE  /\ After(text, n) \in Seq(A)
         /\ Len(After(text, n)) = Len(text) - n
         /\ \A i \in 1..Len(text) - n : After(text, n)[i] = text[n + i]
BY DEF After

\* Min of the sets that Run looks into.
LEMMA MinIs ==
  ASSUME NEW n \in Nat, NEW T \in SUBSET (1..n), T # {}
  PROVE  Min(T) \in T /\ \A k \in T : Min(T) <= k
<1>1. T \in SUBSET (0..n)
  OBVIOUS
<1>2. \E m \in T : \A k \in T : m <= k
  BY <1>1, LeastElement
<1> QED  BY <1>2 DEF Min

\* The length Run computes from the places where it may stop.
LEMMA FirstStop ==
  ASSUME NEW n \in Nat, NEW stops \in SUBSET (1..n), NEW at, NEW r,
         at = IF stops # {} THEN Min(stops) ELSE 0, r = IF at = 0 THEN n ELSE at - 1
  PROVE  /\ r \in 0..n
         /\ \A i \in 1..r : i \notin stops
         /\ r < n => r + 1 \in stops
<1>1. CASE stops = {}
  BY <1>1
<1>2. CASE stops # {}
  <2>1. at \in stops /\ \A k \in stops : at <= k
    BY <1>2, MinIs
  <2> QED  BY <2>1
<1> QED  BY <1>1, <1>2

\* Run is the longest beginning of a text that is made of the characters.
LEMMA RunIs ==
  ASSUME NEW A, NEW text \in Seq(A), NEW chars
  PROVE  /\ Run(text, chars) \in 0..Len(text)
         /\ \A i \in 1..Run(text, chars) : text[i] \in chars
         /\ Run(text, chars) < Len(text) => text[Run(text, chars) + 1] \notin chars
<1> DEFINE stops == {i \in 1..Len(text) : text[i] \notin chars}
<1>1. stops \in SUBSET (1..Len(text)) /\ Len(text) \in Nat
  OBVIOUS
<1>2. PICK at : /\ at = IF stops # {} THEN Min(stops) ELSE 0
                /\ Run(text, chars) = IF at = 0 THEN Len(text) ELSE at - 1
  BY DEF Run, SelectInSeq
<1>3. /\ Run(text, chars) \in 0..Len(text)
      /\ \A i \in 1..Run(text, chars) : i \notin stops
      /\ Run(text, chars) < Len(text) => Run(text, chars) + 1 \in stops
  <2> HIDE DEF stops
  <2> QED  BY <1>1, <1>2, FirstStop
<1> QED  BY <1>3

-----------------------------------------------------------------------------
(* The numbers that strtol counts and that digits stand for *)

\* The text is made of digits.
AllDigits(text) == \A i \in 1..Len(text) : IsDigit(text[i])

\* One more digit: the number it gives, or the limit.
LEMMA GrowIs ==
  ASSUME NEW sign \in {-1, 1}, NEW v \in Int, NEW d \in 0..9
  PROVE  /\ Grow(sign, v, d) \in Int
         /\ sign = 1  => Grow(sign, v, d) = IF 10 * v + d < LONG_MAX THEN 10 * v + d ELSE LONG_MAX
         /\ sign = -1 => Grow(sign, v, d) = IF 10 * v - d > LONG_MIN THEN 10 * v - d ELSE LONG_MIN
<1>1. LONG_MIN \in Int /\ LONG_MAX \in Int
  BY LimitsAssumption
<1>2. ASSUME NEW a \in Int, NEW b \in Int
      PROVE  /\ Min({a, b}) = IF b < a THEN b ELSE a
             /\ Max({a, b}) = IF b > a THEN b ELSE a
  BY DEF Min, Max
<1>3. 10 * v - d \in Int /\ 10 * v + d \in Int
  OBVIOUS
<1>4. CASE sign = 1
  <2>1. Grow(sign, v, d) = Min({LONG_MAX, 10 * v + d})
    BY <1>4 DEF Grow
  <2> QED  BY <1>1, <1>2, <1>3, <1>4, <2>1
<1>5. CASE sign = -1
  <2>1. Grow(sign, v, d) = Max({LONG_MIN, 10 * v - d})
    BY <1>5 DEF Grow
  <2>2. Max({LONG_MIN, 10 * v - d}) = IF 10 * v - d > LONG_MIN THEN 10 * v - d ELSE LONG_MIN
    BY <1>1, <1>2, <1>3
  <2>3. Grow(sign, v, d) \in Int
    BY <1>1, <1>3, <2>1, <2>2
  <2> QED  BY <1>5, <2>1, <2>2, <2>3
<1> QED  BY <1>4, <1>5

\* The recursive function in Counted, as the provers see it.
IsCount(value, sign, d, n) ==
    value = [k \in 0..n |-> IF k = 0 THEN 0 ELSE Grow(sign, value[k - 1], DigitValue(d[k]))]

\* The function that Counted chooses exists ...
LEMMA CountExists ==
  ASSUME NEW n \in Nat, NEW d, \A k \in 1..n : DigitValue(d[k]) \in 0..9, NEW sign \in {-1, 1}
  PROVE  \E f : IsCount(f, sign, d, n)
<1> DEFINE step == [k \in 1..n |-> [v \in Int |-> Grow(sign, v, DigitValue(d[k]))]]
<1>1. \A k \in 1..n, v \in Int : Grow(sign, v, DigitValue(d[k])) \in Int
  BY GrowIs
<1>2. step \in [1..n -> [Int -> Int]]
  BY <1>1
<1>3. PICK f \in [0..n -> Int] : f[0] = 0 /\ \A k \in 1..n : f[k] = step[k][f[k - 1]]
  <2> HIDE DEF step
  <2>1. 0 \in Int
    OBVIOUS
  <2> QED  BY <1>2, <2>1, Recursion
<1>4. ASSUME NEW k \in 1..n PROVE f[k] = Grow(sign, f[k - 1], DigitValue(d[k]))
  <2>1. f[k - 1] \in Int /\ f[k] = step[k][f[k - 1]]
    BY <1>3
  <2> QED  BY <2>1
<1> HIDE DEF step
<1>5. \A k \in 0..n : f[k] = IF k = 0 THEN 0 ELSE Grow(sign, f[k - 1], DigitValue(d[k]))
  BY <1>3, <1>4
<1>6. IsCount(f, sign, d, n)
  BY <1>5 DEF IsCount
<1> QED  BY <1>6

\* ... and obeys its definition.
LEMMA CountUnfolds ==
  ASSUME NEW n \in Nat, NEW d, \A k \in 1..n : DigitValue(d[k]) \in 0..9, NEW sign \in {-1, 1},
         NEW value, IsCount(value, sign, d, n)
  PROVE  /\ \A k \in 0..n : value[k] \in Int
         /\ value[0] = 0
         /\ \A k \in 1..n : value[k] = Grow(sign, value[k - 1], DigitValue(d[k]))
<1>1. \A k \in 0..n : value[k] = IF k = 0 THEN 0 ELSE Grow(sign, value[k - 1], DigitValue(d[k]))
  BY DEF IsCount
<1>2. value[0] = 0 /\ \A k \in 1..n : value[k] = Grow(sign, value[k - 1], DigitValue(d[k]))
  BY <1>1
<1> DEFINE S == {k \in 0..n : value[k] \in Int}
<1>3. 0 \in S
  BY <1>2
<1>4. ASSUME NEW k \in 1..n, k - 1 \in S PROVE k \in S
  <2>1. Grow(sign, value[k - 1], DigitValue(d[k])) \in Int
    BY <1>4, GrowIs
  <2> QED  BY <1>2, <2>1
<1>5. 0..n \subseteq S
  <2> HIDE DEF S
  <2> QED  BY <1>3, <1>4, Induction
<1> QED  BY <1>2, <1>5

\* The values of the digits of a text.
LEMMA DigitsAre ==
  ASSUME NEW A, NEW digits \in Seq(A), AllDigits(digits)
  PROVE  Len(digits) \in Nat /\ \A k \in 1..Len(digits) : DigitValue(digits[k]) \in 0..9
<1>1. ASSUME NEW k \in 1..Len(digits) PROVE DigitValue(digits[k]) \in 0..9
  <2>1. IsDigit(digits[k])
    BY DEF AllDigits
  <2> QED  BY <2>1, DigitChar
<1> QED  BY <1>1

\* Counted is the last value of its function.
LEMMA CountedIs ==
  ASSUME NEW A, NEW digits \in Seq(A), AllDigits(digits), NEW sign \in {-1, 1}
  PROVE  \E value : /\ IsCount(value, sign, digits, Len(digits))
                    /\ Counted(sign, digits) = value[Len(digits)]
<1>1. Len(digits) \in Nat /\ \A k \in 1..Len(digits) : DigitValue(digits[k]) \in 0..9
  BY DigitsAre
<1>2. \E f : IsCount(f, sign, digits, Len(digits))
  BY <1>1, CountExists
<1> QED  BY <1>2, Zenon DEF Counted, IsCount

\* The recursive function in Positional.
IsSize(size, d, n) ==
    size = [k \in 0..n |-> IF k = 0 THEN 0 ELSE 10 * size[k - 1] + DigitValue(d[k])]

\* The function that Positional chooses exists ...
LEMMA SizeExists ==
  ASSUME NEW n \in Nat, NEW d, \A k \in 1..n : DigitValue(d[k]) \in 0..9
  PROVE  \E f : IsSize(f, d, n)
<1> DEFINE step == [k \in 1..n |-> [v \in Int |-> 10 * v + DigitValue(d[k])]]
<1>1. step \in [1..n -> [Int -> Int]]
  OBVIOUS
<1>2. PICK f \in [0..n -> Int] : f[0] = 0 /\ \A k \in 1..n : f[k] = step[k][f[k - 1]]
  <2> HIDE DEF step
  <2>1. 0 \in Int
    OBVIOUS
  <2> QED  BY <1>1, <2>1, Recursion
<1>3. ASSUME NEW k \in 1..n PROVE f[k] = 10 * f[k - 1] + DigitValue(d[k])
  <2>1. f[k] = step[k][f[k - 1]]
    BY <1>2
  <2>2. f[k - 1] \in Int
    OBVIOUS
  <2> QED  BY <2>1, <2>2
<1> HIDE DEF step
<1>4. \A k \in 0..n : f[k] = IF k = 0 THEN 0 ELSE 10 * f[k - 1] + DigitValue(d[k])
  BY <1>2, <1>3
<1>5. IsSize(f, d, n)
  BY <1>4 DEF IsSize
<1> QED  BY <1>5

\* ... obeys its definition and counts up from 0 ...
LEMMA SizeUnfolds ==
  ASSUME NEW n \in Nat, NEW d, \A k \in 1..n : DigitValue(d[k]) \in 0..9,
         NEW size, IsSize(size, d, n)
  PROVE  /\ size \in [0..n -> Nat]
         /\ size[0] = 0
         /\ \A k \in 1..n : size[k] = 10 * size[k - 1] + DigitValue(d[k])
<1>1. \A k \in 0..n : size[k] = IF k = 0 THEN 0 ELSE 10 * size[k - 1] + DigitValue(d[k])
  BY DEF IsSize
<1>2. size[0] = 0 /\ \A k \in 1..n : size[k] = 10 * size[k - 1] + DigitValue(d[k])
  BY <1>1
<1> DEFINE S == {k \in 0..n : size[k] \in Nat}
<1>3. 0 \in S
  BY <1>2
<1>4. ASSUME NEW k \in 1..n, k - 1 \in S PROVE k \in S
  BY <1>2, <1>4
<1>5. 0..n \subseteq S
  <2> HIDE DEF S
  <2> QED  BY <1>3, <1>4, Induction
<1>6. size \in [0..n -> Nat]
  BY <1>5 DEF IsSize
<1> QED  BY <1>2, <1>6

\* ... and its last value is Positional.
LEMMA PositionalIs ==
  ASSUME NEW A, NEW digits \in Seq(A), AllDigits(digits)
  PROVE  \E size : /\ IsSize(size, digits, Len(digits))
                   /\ Positional(digits) = size[Len(digits)]
<1>1. Len(digits) \in Nat /\ \A k \in 1..Len(digits) : DigitValue(digits[k]) \in 0..9
  BY DigitsAre
<1>2. \E f : IsSize(f, digits, Len(digits))
  BY <1>1, SizeExists
<1> QED  BY <1>2, Zenon DEF Positional, IsSize

\* strtol counts to the number that the digits stand for, or to its limit.
LEMMA CountedClamps ==
  ASSUME NEW A, NEW digits \in Seq(A), AllDigits(digits), NEW sign \in {-1, 1}
  PROVE  /\ Positional(digits) \in Nat
         /\ sign = 1  => Counted(sign, digits) =
                IF Positional(digits) < LONG_MAX THEN Positional(digits) ELSE LONG_MAX
         /\ sign = -1 => Counted(sign, digits) =
                IF -Positional(digits) > LONG_MIN THEN -Positional(digits) ELSE LONG_MIN
<1> DEFINE n == Len(digits)
<1>1. n \in Nat /\ \A k \in 1..n : DigitValue(digits[k]) \in 0..9
  BY DigitsAre
<1>2. PICK value : IsCount(value, sign, digits, n) /\ Counted(sign, digits) = value[n]
  BY CountedIs
<1>3. PICK size : IsSize(size, digits, n) /\ Positional(digits) = size[n]
  BY PositionalIs
<1> HIDE DEF n
<1>4. /\ \A k \in 0..n : value[k] \in Int
      /\ value[0] = 0
      /\ \A k \in 1..n : value[k] = Grow(sign, value[k - 1], DigitValue(digits[k]))
  BY <1>1, <1>2, CountUnfolds
<1>5. /\ size \in [0..n -> Nat]
      /\ size[0] = 0
      /\ \A k \in 1..n : size[k] = 10 * size[k - 1] + DigitValue(digits[k])
  BY <1>1, <1>3, SizeUnfolds
<1>6. LONG_MIN \in Int /\ LONG_MAX \in Int /\ LONG_MIN < 0 /\ 0 < LONG_MAX
  BY LimitsAssumption
<1> DEFINE Clamped(v, p) ==
              /\ sign = 1  => v = IF p < LONG_MAX THEN p ELSE LONG_MAX
              /\ sign = -1 => v = IF -p > LONG_MIN THEN -p ELSE LONG_MIN
           S == {k \in 0..n : Clamped(value[k], size[k])}
<1>7. 0 \in S
  BY <1>4, <1>5, <1>6, <1>1
<1>8. ASSUME NEW k \in 1..n, k - 1 \in S PROVE k \in S
  <2> DEFINE d == DigitValue(digits[k])
             v == value[k - 1]
             p == size[k - 1]
  <2>1. d \in 0..9 /\ v \in Int /\ p \in Nat /\ k \in 0..n
    BY <1>1, <1>4, <1>5
  <2>2. Clamped(v, p)
    BY <1>8
  <2>3. value[k] = Grow(sign, v, d) /\ size[k] = 10 * p + d
    BY <1>4, <1>5
  <2> HIDE DEF d, v, p
  <2>4. CASE sign = 1
    <3>1. value[k] = IF 10 * v + d < LONG_MAX THEN 10 * v + d ELSE LONG_MAX
      BY <2>1, <2>3, <2>4, GrowIs
    <3> QED  BY <1>6, <2>1, <2>2, <2>3, <2>4, <3>1
  <2>5. CASE sign = -1
    <3>1. value[k] = IF 10 * v - d > LONG_MIN THEN 10 * v - d ELSE LONG_MIN
      BY <2>1, <2>3, <2>5, GrowIs
    <3> QED  BY <1>6, <2>1, <2>2, <2>3, <2>5, <3>1
  <2> QED  BY <2>4, <2>5
<1>9. n \in S
  <2>1. 0..n \subseteq S
    <3> HIDE DEF S
    <3> QED  BY <1>1, <1>7, <1>8, Induction
  <2>2. n \in 0..n  BY <1>1
  <2> HIDE DEF S
  <2> QED  BY <2>1, <2>2
<1>10. Clamped(value[n], size[n])
  BY <1>9
<1>11. size[n] \in Nat
  BY <1>1, <1>5
<1> QED  BY <1>2, <1>3, <1>10, <1>11

-----------------------------------------------------------------------------
(* The parts of a text that strtol goes through *)

\* (Named, so that the characters of a text stay abstract in the proofs.)
IsBlank(ch) == ch \in {" "}
IsMinus(ch) == ch = "-"

\* The text begins with b blanks and s signs.
Opening(text, b, s) ==
    /\ b \in 0..Len(text) /\ s \in {0, 1} /\ b + s <= Len(text)
    /\ \A i \in 1..b : IsBlank(text[i])
    /\ b < Len(text) => ~ IsBlank(text[b + 1])
    /\ s = 1 <=> b < Len(text) /\ text[b + 1] \in Signs

\* Then come r digits, and what does not begin with one.
Parts(text, b, s, r) ==
    /\ Opening(text, b, s)
    /\ r \in Nat /\ b + s + r <= Len(text)
    /\ \A i \in b + s + 1..b + s + r : IsDigit(text[i])
    /\ b + s + r < Len(text) => ~ IsDigit(text[b + s + r + 1])

\* The sign of the number that begins after b blanks.
Sign(text, b, s) == IF s = 1 /\ IsMinus(text[b + 1]) THEN -1 ELSE 1

\* The digits begin after the opening of a text: Before skips blanks and one sign.
LEMMA BeforeIs ==
  ASSUME NEW A, NEW text \in Seq(A)
  PROVE  \E b, s : Opening(text, b, s) /\ Before(text) = b + s
<1>0. Len(text) \in Nat
  OBVIOUS
<1> DEFINE b == Run(text, {" "})
           s == IF First(After(text, b), 1) \in {<<ch>> : ch \in Signs} THEN 1 ELSE 0
<1>1. Before(text) = b + s
  BY DEF Before
<1>2. /\ b \in 0..Len(text)
      /\ \A i \in 1..b : IsBlank(text[i])
      /\ b < Len(text) => ~ IsBlank(text[b + 1])
  BY RunIs, Zenon DEF IsBlank
<1> HIDE DEF b
<1> DEFINE rest == After(text, b)
           ch == First(rest, 1)
<1>3. rest \in Seq(A) /\ Len(rest) = Len(text) - b /\ \A i \in 1..Len(text) - b : rest[i] = text[b + i]
  BY <1>2, AfterIs
<1> HIDE DEF rest
<1>4. ch \in Seq(A) /\ Len(ch) = (IF 1 < Len(rest) THEN 1 ELSE Len(rest))
      /\ \A i \in 1..Len(ch) : ch[i] = rest[i]
  BY <1>3, FirstIs
<1>5. s = IF ch \in {<<c>> : c \in Signs} THEN 1 ELSE 0
  BY DEF rest
<1> HIDE DEF ch, s
<1>6. CASE b = Len(text)
  <2>1. Len(ch) = 0
    BY <1>3, <1>4, <1>6
  <2>2. \A c : Len(<<c>>) = 1
    OBVIOUS
  <2>3. s = 0
    BY <1>5, <2>1, <2>2
  <2>4. Opening(text, b, s)
    BY <1>0, <1>2, <1>6, <2>3 DEF Opening
  <2> QED  BY <1>1, <2>4
<1>7. CASE b < Len(text)
  <2>1. Len(ch) = 1
    BY <1>0, <1>2, <1>3, <1>4, <1>7
  <2>2. ch[1] = rest[1]
    BY <1>4, <2>1
  <2>3. rest[1] = text[b + 1]
    BY <1>0, <1>2, <1>3, <1>7
  <2>4. ch = <<text[b + 1]>>
    BY <1>4, <2>1, <2>2, <2>3
  <2>5. ch \in {<<c>> : c \in Signs} <=> text[b + 1] \in Signs
    BY <2>4
  <2>6. s = IF text[b + 1] \in Signs THEN 1 ELSE 0
    BY <1>5, <2>5
  <2>7. Opening(text, b, s)
    BY <1>0, <1>2, <1>7, <2>6 DEF Opening
  <2> QED  BY <1>1, <2>7
<1> QED  BY <1>0, <1>2, <1>6, <1>7

\* What strtol makes of a text with these parts.
Converts(text, b, s, r, digits) ==
    /\ Parts(text, b, s, r)
    /\ Len(digits) = r /\ AllDigits(digits) /\ \A i \in 1..r : digits[i] = text[b + s + i]
    /\ r = Len(text) - (b + s) => digits = After(text, b + s)
    /\ strtol(text) = [value |-> Counted(Sign(text, b, s), digits),
                       end   |-> IF r = 0 THEN 0 ELSE b + s + r]

\* Every text has its parts, and strtol computes its value and its end from them.
LEMMA StrtolIs ==
  ASSUME NEW A, NEW text \in Seq(A)
  PROVE  \E b, s, r : \E digits \in Seq(A) : Converts(text, b, s, r, digits)
<1>0. Len(text) \in Nat
  OBVIOUS
<1>1. PICK b, s : Opening(text, b, s) /\ Before(text) = b + s
  BY BeforeIs
<1> DEFINE before == Before(text)
           rest == After(text, before)
           r == Run(rest, ToSet(Digits))
           digits == First(rest, r)
           sign == IF before > 0 /\ IsMinus(text[before]) THEN -1 ELSE 1
<1>2. strtol(text) = [value |-> Counted(sign, digits),
                      end   |-> IF digits = << >> THEN 0 ELSE before + Len(digits)]
  BY Zenon DEF strtol, IsMinus
<1>3. before \in 0..Len(text) /\ before = b + s
  BY <1>0, <1>1 DEF Opening
<1> HIDE DEF before
<1>4. /\ rest \in Seq(A) /\ Len(rest) = Len(text) - before
      /\ \A i \in 1..Len(text) - before : rest[i] = text[before + i]
  BY <1>3, AfterIs
<1> HIDE DEF rest
<1>5. /\ r \in 0..Len(rest)
      /\ \A i \in 1..r : IsDigit(rest[i])
      /\ r < Len(rest) => ~ IsDigit(rest[r + 1])
  BY <1>4, RunIs DEF IsDigit
<1> HIDE DEF r
<1>6. digits \in Seq(A) /\ Len(digits) = r /\ \A i \in 1..r : digits[i] = rest[i]
  BY <1>4, <1>5, FirstIs
<1>7. r = Len(rest) => digits = rest
  BY <1>4, <1>5 DEF First
<1> HIDE DEF digits
<1>8. sign = Sign(text, b, s)
  <2>1. CASE s = 1
    BY <1>0, <1>1, <1>3, <2>1 DEF Sign, Opening
  <2>2. CASE s = 0
    <3>1. before > 0 => IsBlank(text[before])
      BY <1>0, <1>1, <1>3, <2>2 DEF Opening
    <3>2. \A ch : IsBlank(ch) => ~ IsMinus(ch)
      BY DEF IsBlank, IsMinus
    <3> QED  BY <2>2, <3>1, <3>2 DEF Sign
  <2> QED  BY <1>1, <2>1, <2>2 DEF Opening
<1> HIDE DEF sign
<1>9. (IF digits = << >> THEN 0 ELSE before + Len(digits)) = IF r = 0 THEN 0 ELSE b + s + r
  BY <1>3, <1>5, <1>6
<1>10. Parts(text, b, s, r)
  <2>1. r \in Nat /\ b + s + r <= Len(text)
    BY <1>0, <1>3, <1>4, <1>5
  <2>2. ASSUME NEW i \in b + s + 1..b + s + r PROVE IsDigit(text[i])
    <3> DEFINE j == i - (b + s)
    <3>1. j \in 1..r /\ j \in 1..Len(text) - before /\ before + j = i
      BY <1>0, <1>3, <1>4, <1>5, <2>1
    <3>2. rest[j] = text[i]
      BY <1>4, <3>1
    <3> QED  BY <1>5, <3>1, <3>2
  <2>3. b + s + r < Len(text) => ~ IsDigit(text[b + s + r + 1])
    <3> SUFFICES ASSUME b + s + r < Len(text) PROVE ~ IsDigit(text[b + s + r + 1])
      OBVIOUS
    <3>1. r < Len(rest) /\ r + 1 \in 1..Len(text) - before /\ before + (r + 1) = b + s + r + 1
      BY <1>0, <1>3, <1>4, <1>5, <2>1
    <3> QED  BY <1>4, <1>5, <3>1
  <2> QED  BY <1>1, <2>1, <2>2, <2>3 DEF Parts
<1>11. ASSUME NEW i \in 1..r PROVE digits[i] = text[b + s + i] /\ IsDigit(digits[i])
  <2>1. i \in 1..Len(text) - before
    BY <1>0, <1>3, <1>4, <1>5
  <2>2. rest[i] = text[before + i]
    BY <1>4, <2>1
  <2> QED  BY <1>3, <1>5, <1>6, <2>2
<1>12. AllDigits(digits)
  BY <1>6, <1>11 DEF AllDigits
<1>13. r = Len(text) - (b + s) => digits = After(text, b + s)
  BY <1>3, <1>4, <1>7 DEF rest
<1>14. strtol(text) = [value |-> Counted(Sign(text, b, s), digits),
                       end   |-> IF r = 0 THEN 0 ELSE b + s + r]
  BY <1>2, <1>8, <1>9
<1>15. Converts(text, b, s, r, digits)
  BY <1>6, <1>10, <1>11, <1>12, <1>13, <1>14 DEF Converts
<1> QED  BY <1>6, <1>15

-----------------------------------------------------------------------------
(* The numbers that texts spell *)

\* The text spells a number: b blanks, s signs and digits to the end.
Spelt(text, b, s) ==
    /\ b \in 0..Len(text) /\ s \in {0, 1} /\ b + s < Len(text)
    /\ \A i \in 1..b : IsBlank(text[i])
    /\ s = 1 => text[b + 1] \in Signs
    /\ \A i \in b + s + 1..Len(text) : IsDigit(text[i])

\* Spellings is the set of these pairs.
LEMMA SpellingsAre ==
  ASSUME NEW text, NEW p
  PROVE  p \in Spellings(text) <=> \E b, s : p = <<b, s>> /\ Spelt(text, b, s)
<1>1. \A ch : IsBlank(ch) <=> ch = " "
  BY DEF IsBlank
<1>2. ASSUME p \in Spellings(text)
      PROVE  p = <<p[1], p[2]>> /\ Spelt(text, p[1], p[2])
  <2>1. p \in (0..Len(text)) \X {0, 1}
    BY <1>2, Zenon DEF Spellings
  <2>2. p = <<p[1], p[2]>> /\ p[1] \in 0..Len(text) /\ p[2] \in {0, 1}
    BY <2>1
  <2> QED  BY <1>1, <1>2, <2>2, Zenon DEF Spellings, Spelt
<1>3. ASSUME NEW b, NEW s, p = <<b, s>>, Spelt(text, b, s)
      PROVE  p \in Spellings(text)
  <2>1. b \in 0..Len(text) /\ s \in {0, 1}
    BY <1>3 DEF Spelt
  <2>2. p \in (0..Len(text)) \X {0, 1} /\ p[1] = b /\ p[2] = s
    BY <1>3, <2>1
  <2> QED  BY <1>1, <1>3, <2>2, Zenon DEF Spellings, Spelt
<1> QED  BY <1>2, <1>3

\* A text has at most one spelling: its parts.
LEMMA SpeltParts ==
  ASSUME NEW A, NEW text \in Seq(A), NEW b, NEW s, NEW r, Parts(text, b, s, r)
  PROVE  /\ Spelt(text, b, s) <=> r > 0 /\ b + s + r = Len(text)
         /\ \A c, t : Spelt(text, c, t) => c = b /\ t = s
<1>0. Len(text) \in Nat
  OBVIOUS
<1>1. /\ b \in 0..Len(text) /\ s \in {0, 1} /\ r \in Nat /\ b + s + r <= Len(text)
      /\ \A i \in 1..b : IsBlank(text[i])
      /\ b < Len(text) => ~ IsBlank(text[b + 1])
      /\ s = 1 <=> b < Len(text) /\ text[b + 1] \in Signs
      /\ \A i \in b + s + 1..b + s + r : IsDigit(text[i])
      /\ b + s + r < Len(text) => ~ IsDigit(text[b + s + r + 1])
  BY DEF Parts, Opening
<1>2. \A ch : /\ IsDigit(ch) => ~ IsBlank(ch) /\ ch \notin Signs
              /\ ch \in Signs => ~ IsBlank(ch)
  BY DigitChar DEF IsBlank, Signs
<1>3. ASSUME NEW c, NEW t, Spelt(text, c, t) PROVE c = b /\ t = s
  <2>1. /\ c \in 0..Len(text) /\ t \in {0, 1} /\ c + t < Len(text)
        /\ \A i \in 1..c : IsBlank(text[i])
        /\ t = 1 => text[c + 1] \in Signs
        /\ \A i \in c + t + 1..Len(text) : IsDigit(text[i])
    BY <1>3 DEF Spelt
  <2>2. t = 0 => IsDigit(text[c + 1])
    BY <1>0, <2>1
  <2>3. ~ IsBlank(text[c + 1])
    BY <1>2, <2>1, <2>2
  <2>4. ~ c < b
    BY <1>0, <1>1, <2>1, <2>3
  <2>5. ~ b < c
    <3> SUFFICES ASSUME b < c PROVE FALSE
      OBVIOUS
    <3>1. b + 1 \in 1..c /\ b < Len(text)
      BY <1>0, <1>1, <2>1
    <3> QED  BY <1>1, <2>1, <3>1
  <2>6. c = b
    BY <1>0, <1>1, <2>1, <2>4, <2>5
  <2>7. b < Len(text)
    BY <1>0, <2>1, <2>6
  <2>8. t = s
    BY <1>1, <1>2, <2>1, <2>2, <2>6, <2>7
  <2> QED  BY <2>6, <2>8
<1>4. ASSUME Spelt(text, b, s) PROVE r > 0 /\ b + s + r = Len(text)
  <2>1. b + s < Len(text) /\ \A i \in b + s + 1..Len(text) : IsDigit(text[i])
    BY <1>4 DEF Spelt
  <2>2. ~ b + s + r < Len(text)
    <3> SUFFICES ASSUME b + s + r < Len(text) PROVE FALSE
      OBVIOUS
    <3>1. b + s + r + 1 \in b + s + 1..Len(text)
      BY <1>0, <1>1
    <3> QED  BY <1>1, <2>1, <3>1
  <2> QED  BY <1>0, <1>1, <2>1, <2>2
<1>5. ASSUME r > 0, b + s + r = Len(text) PROVE Spelt(text, b, s)
  BY <1>0, <1>1, <1>5 DEF Spelt
<1> QED  BY <1>3, <1>4, <1>5

\* What the text means, in terms of its parts.
LEMMA MeaningIs ==
  ASSUME NEW A, NEW text \in Seq(A), NEW b, NEW s, NEW r, Parts(text, b, s, r)
  PROVE  /\ Spellings(text) # {} <=> r > 0 /\ b + s + r = Len(text)
         /\ Spellings(text) # {} =>
               Meaning(text) = IF Sign(text, b, s) = -1 THEN -Positional(After(text, b + s))
                                                        ELSE Positional(After(text, b + s))
<1>1. Spellings(text) # {} <=> Spelt(text, b, s)
  <2>1. ASSUME NEW p \in Spellings(text) PROVE Spelt(text, b, s)
    <3>1. PICK c, t : p = <<c, t>> /\ Spelt(text, c, t)
      BY SpellingsAre
    <3>2. c = b /\ t = s
      BY <3>1, SpeltParts
    <3> QED  BY <3>1, <3>2
  <2>2. ASSUME Spelt(text, b, s) PROVE <<b, s>> \in Spellings(text)
    BY <2>2, SpellingsAre
  <2> QED  BY <2>1, <2>2
<1>2. ASSUME Spelt(text, b, s)
      PROVE  Meaning(text) = IF Sign(text, b, s) = -1 THEN -Positional(After(text, b + s))
                                                      ELSE Positional(After(text, b + s))
  <2> DEFINE p == CHOOSE p \in Spellings(text) : TRUE
  <2>1. p \in Spellings(text)
    BY <1>1, <1>2
  <2>2. p[1] = b /\ p[2] = s
    <3> HIDE DEF p
    <3>1. PICK c, t : p = <<c, t>> /\ Spelt(text, c, t)
      BY <2>1, SpellingsAre
    <3>2. c = b /\ t = s
      BY <3>1, SpeltParts
    <3> QED  BY <3>1, <3>2
  <2>3. Meaning(text) = IF p[2] = 1 /\ IsMinus(text[p[1] + 1])
                        THEN -Positional(After(text, p[1] + p[2]))
                        ELSE Positional(After(text, p[1] + p[2]))
    BY Zenon DEF Meaning, IsMinus
  <2> HIDE DEF p
  <2>4. Sign(text, b, s) = -1 <=> s = 1 /\ IsMinus(text[b + 1])
    BY DEF Sign
  <2> QED  BY <2>2, <2>3, <2>4
<1> QED  BY <1>1, <1>2, SpeltParts

\* A text is read as an int if it spells one, to its last character.
LEMMA IntRead ==
  ASSUME NEW A, NEW text \in Seq(A)
  PROVE  /\ _check_int(text) <=> IsInteger(text, INT_MIN, INT_MAX)
         /\ _check_int(text) => IntIn(text) = Meaning(text)
<1>0. Len(text) \in Nat
  OBVIOUS
<1>1. PICK b, s, r : \E digits \in Seq(A) : Converts(text, b, s, r, digits)
  BY StrtolIs
<1>2. PICK digits \in Seq(A) : Converts(text, b, s, r, digits)
  BY <1>1
<1> DEFINE sign == Sign(text, b, s)
           value == Counted(sign, digits)
           size == Positional(digits)
<1>3. Parts(text, b, s, r) /\ AllDigits(digits)
  BY <1>2 DEF Converts
<1>4. strtol(text) = [value |-> value, end |-> IF r = 0 THEN 0 ELSE b + s + r]
  BY <1>2 DEF Converts
<1>5. sign \in {-1, 1}
  BY DEF Sign
<1>6. /\ size \in Nat
      /\ sign = 1  => value = IF size < LONG_MAX THEN size ELSE LONG_MAX
      /\ sign = -1 => value = IF -size > LONG_MIN THEN -size ELSE LONG_MIN
  <2> HIDE DEF sign
  <2> QED  BY <1>3, <1>5, CountedClamps
<1>7. b \in Nat /\ s \in Nat /\ r \in Nat
  BY <1>0, <1>3 DEF Parts, Opening
<1>8. _check_int(text) <=> r > 0 /\ b + s + r = Len(text) /\ value \in INT_MIN..INT_MAX
  <2>1. _check_int(text) <=> /\ value \in INT_MIN..INT_MAX
                             /\ (IF r = 0 THEN 0 ELSE b + s + r) \in {Len(text)} \ {0}
    <3> HIDE DEF value
    <3> QED  BY <1>4 DEF _check_int
  <2> HIDE DEF value
  <2> QED  BY <1>0, <1>7, <2>1
<1>9. Spellings(text) # {} <=> r > 0 /\ b + s + r = Len(text)
  BY <1>3, MeaningIs
<1>10. ASSUME r > 0, b + s + r = Len(text)
       PROVE  Meaning(text) = IF sign = -1 THEN -size ELSE size
  <2>1. digits = After(text, b + s)
    BY <1>0, <1>2, <1>7, <1>10 DEF Converts
  <2> QED  BY <1>3, <1>10, <2>1, MeaningIs
<1>11. IntIn(text) = value
  BY <1>4 DEF IntIn
<1> HIDE DEF sign, value, size
<1>12. /\ {INT_MIN, INT_MAX, LONG_MIN, LONG_MAX} \subseteq Int
       /\ LONG_MIN < INT_MIN /\ INT_MIN <= 0 /\ 0 <= INT_MAX /\ INT_MAX < LONG_MAX
  BY LimitsAssumption
<1>13. ASSUME r > 0, b + s + r = Len(text)
       PROVE  /\ value \in INT_MIN..INT_MAX <=> Meaning(text) \in INT_MIN..INT_MAX
              /\ value \in INT_MIN..INT_MAX => value = Meaning(text)
  BY <1>5, <1>6, <1>10, <1>12, <1>13
<1> QED  BY <1>8, <1>9, <1>11, <1>13 DEF IsInteger

-----------------------------------------------------------------------------
(* Numbers that fill a buffer *)

\* The digits and their values.
LEMMA TenDigits ==
  ASSUME NEW i \in 1..10
  PROVE  IsDigit(Digits[i]) /\ DigitValue(Digits[i]) = i - 1
<1> DEFINE ch == Digits[i]
<1>1. \A j \in 1..10 : Digits[j] = ch => j = i
  BY DEF Digits
<1>2. {j \in 1..Len(Digits) : Digits[j] = ch} = {i}
  BY <1>1 DEF Digits
<1>3. DigitValue(ch) = i - 1
  BY <1>2 DEF DigitValue, SelectInSeq, Min
<1>4. IsDigit(ch)
  BY DEF IsDigit, ToSet, Digits
<1> QED  BY <1>3, <1>4

\* The digits of the smallest number that fills a buffer.
LEMMA ZeroAndOne == /\ IsDigit("0") /\ DigitValue("0") = 0
                    /\ IsDigit("1") /\ DigitValue("1") = 1
<1>2. Digits[1] = "0" /\ Digits[2] = "1"
  BY DEF Digits
<1>3. 1 \in 1..10 /\ 2 \in 1..10 /\ 1 - 1 = 0 /\ 2 - 1 = 1
  OBVIOUS
<1>4. IsDigit("0") /\ DigitValue("0") = 1 - 1
  BY <1>2, <1>3, TenDigits, Zenon
<1>5. IsDigit("1") /\ DigitValue("1") = 2 - 1
  BY <1>2, <1>3, TenDigits, Zenon
<1> QED  BY <1>3, <1>4, <1>5

\* The step of the comparison below.
LEMMA TenTimes ==
  ASSUME NEW m \in Int, NEW p \in Int, NEW c \in Int, NEW d \in Int, m <= p, c <= d
  PROVE  10 * m + c <= 10 * p + d
<1>1. 10 * m <= 10 * p
  OBVIOUS
<1> QED  BY <1>1

\* Digits alone spell the number they stand for.
LEMMA DigitsMean ==
  ASSUME NEW A, NEW text \in Seq(A), AllDigits(text), Len(text) > 0
  PROVE  Spellings(text) # {} /\ Meaning(text) = Positional(text)
<1>0. Len(text) \in Nat
  OBVIOUS
<1>1. \A ch : IsDigit(ch) => ~ IsBlank(ch) /\ ch \notin Signs
  BY DigitChar DEF IsBlank
<1>2. \A i \in 1..Len(text) : IsDigit(text[i])
  BY DEF AllDigits
<1>3. IsDigit(text[1])
  BY <1>0, <1>2
<1>4. Opening(text, 0, 0)
  BY <1>0, <1>1, <1>3 DEF Opening
<1>5. Parts(text, 0, 0, Len(text))
  BY <1>0, <1>2, <1>4 DEF Parts
<1>6. After(text, 0 + 0) = text
  BY <1>0 DEF After
<1>7. Sign(text, 0, 0) # -1
  BY DEF Sign
<1> QED  BY <1>0, <1>5, <1>6, <1>7, MeaningIs

\* Of two rows of digits of one length, the one with the larger digits stands for
\* the larger number.
LEMMA PositionalGrows ==
  ASSUME NEW A, NEW low \in Seq(A), NEW high \in Seq(A), AllDigits(low), AllDigits(high),
         Len(low) = Len(high),
         \A i \in 1..Len(low) : DigitValue(low[i]) <= DigitValue(high[i])
  PROVE  Positional(low) <= Positional(high)
<1> DEFINE n == Len(low)
<1>1. /\ n \in Nat
      /\ \A k \in 1..n : DigitValue(low[k]) \in 0..9
      /\ \A k \in 1..n : DigitValue(high[k]) \in 0..9
  <2>1. n \in Nat /\ \A k \in 1..n : DigitValue(low[k]) \in 0..9
    BY DigitsAre
  <2>2. \A k \in 1..Len(high) : DigitValue(high[k]) \in 0..9
    BY DigitsAre
  <2> QED  BY <2>1, <2>2
<1>2. PICK l : IsSize(l, low, n) /\ Positional(low) = l[n]
  BY PositionalIs
<1>3. PICK h : IsSize(h, high, n) /\ Positional(high) = h[n]
  <2>1. PICK h : IsSize(h, high, Len(high)) /\ Positional(high) = h[Len(high)]
    BY PositionalIs
  <2> QED  BY <2>1
<1>4. \A k \in 1..n : DigitValue(low[k]) <= DigitValue(high[k])
  OBVIOUS
<1> HIDE DEF n
<1>5. /\ l \in [0..n -> Nat] /\ l[0] = 0
      /\ \A k \in 1..n : l[k] = 10 * l[k - 1] + DigitValue(low[k])
  BY <1>1, <1>2, SizeUnfolds
<1>6. /\ h \in [0..n -> Nat] /\ h[0] = 0
      /\ \A k \in 1..n : h[k] = 10 * h[k - 1] + DigitValue(high[k])
  BY <1>1, <1>3, SizeUnfolds
<1> DEFINE S == {k \in 0..n : l[k] <= h[k]}
<1>7. 0 \in S
  BY <1>1, <1>5, <1>6
<1>8. ASSUME NEW k \in 1..n, k - 1 \in S PROVE k \in S
  <2>1. /\ l[k] = 10 * l[k - 1] + DigitValue(low[k])
        /\ h[k] = 10 * h[k - 1] + DigitValue(high[k])
    BY <1>5, <1>6
  <2>2. l[k - 1] \in Nat /\ h[k - 1] \in Nat /\ l[k - 1] <= h[k - 1] /\ k \in 0..n
    BY <1>1, <1>5, <1>6, <1>8
  <2>3. /\ DigitValue(low[k]) \in 0..9 /\ DigitValue(high[k]) \in 0..9
        /\ DigitValue(low[k]) <= DigitValue(high[k])
    BY <1>1, <1>4
  <2>4. l[k] <= h[k]
    <3>1. DigitValue(low[k]) \in Int /\ DigitValue(high[k]) \in Int
      BY <2>3
    <3>2. 10 * l[k - 1] + DigitValue(low[k]) <= 10 * h[k - 1] + DigitValue(high[k])
      BY <2>2, <2>3, <3>1, TenTimes
    <3> QED  BY <2>1, <3>2
  <2> QED  BY <2>2, <2>4
<1>9. n \in S
  <2>1. n \in 0..n  BY <1>1
  <2> HIDE DEF S
  <2> QED  BY <1>1, <1>7, <1>8, <2>1, Induction
<1> QED  BY <1>2, <1>3, <1>9

\* What a buffer takes of a line that is too long for it fits no int.
LEMMA FullBufferOverflows ==
  ASSUME NEW A, NEW head \in Seq(A), AllDigits(head), Len(head) = INT_BUFFER - 1,
         Len(head) > 0 => head[1] # "0"
  PROVE  Positional(head) > INT_MAX
<1> DEFINE n == INT_BUFFER - 1
           least == [i \in 1..n |-> IF i = 1 THEN "1" ELSE "0"]
           B == A \cup {"0", "1"}
<1>1. n \in Nat /\ INT_MAX \in Int
  BY LimitsAssumption
<1>2. least \in Seq(B) /\ head \in Seq(B) /\ Len(least) = n
  BY <1>1
<1>3. AllDigits(least) /\ \A i \in 1..n : DigitValue(least[i]) = IF i = 1 THEN 1 ELSE 0
  BY <1>1, <1>2, ZeroAndOne DEF AllDigits
<1>4. ASSUME NEW i \in 1..n PROVE DigitValue(least[i]) <= DigitValue(head[i])
  <2>1. IsDigit(head[i])
    BY DEF AllDigits
  <2>2. DigitValue(head[i]) \in 0..9 /\ (head[i] # "0" => DigitValue(head[i]) > 0)
    BY <2>1, DigitChar
  <2> QED  BY <1>1, <1>3, <2>2
<1>5. Positional(least) > INT_MAX
  BY BufferAssumption
<1>6. Positional(least) <= Positional(head)
  <2> HIDE DEF least, B
  <2> QED  BY <1>2, <1>3, <1>4, PositionalGrows
<1>7. Positional(least) \in Nat /\ Positional(head) \in Nat
  <2> HIDE DEF least, B
  <2>1. 1 \in {-1, 1}
    OBVIOUS
  <2> QED  BY <1>2, <1>3, <2>1, CountedClamps
<1> HIDE DEF least
<1> QED  BY <1>1, <1>5, <1>6, <1>7

\* Begins neither with a sign nor with a blank nor with a zero.
Plain(ch) == ch \notin Signs \cup {" ", "0"}

\* A number that begins so is written with digits only.
LEMMA PlainDigits ==
  ASSUME NEW A, NEW text \in Seq(A), Spellings(text) # {}, Plain(text[1])
  PROVE  AllDigits(text) /\ Len(text) > 0
<1>0. Len(text) \in Nat
  OBVIOUS
<1>1. PICK b, s, r : Parts(text, b, s, r)
  BY StrtolIs DEF Converts
<1>2. r > 0 /\ b + s + r = Len(text)
  BY <1>1, MeaningIs
<1>3. /\ b \in Nat /\ s \in {0, 1} /\ r \in Nat
      /\ \A i \in 1..b : IsBlank(text[i])
      /\ s = 1 => text[b + 1] \in Signs
      /\ \A i \in b + s + 1..b + s + r : IsDigit(text[i])
  BY <1>0, <1>1 DEF Parts, Opening
<1>4. ~ IsBlank(text[1]) /\ text[1] \notin Signs
  BY Zenon DEF Plain, IsBlank
<1>5. b = 0
  BY <1>3, <1>4
<1>6. s = 0
  BY <1>3, <1>4, <1>5
<1> QED  BY <1>0, <1>2, <1>3, <1>5, <1>6 DEF AllDigits

\* A line that is read as an int, and spells a number so, is read as this number.
LEMMA LineRead ==
  ASSUME NEW A, NEW text \in Seq(A), read_int_from_stdin(text), Spellings(text) # {},
         Plain(text[1])
  PROVE  IntIn(read_line(text, INT_BUFFER)) = Meaning(text)
<1>0. Len(text) \in Nat /\ INT_BUFFER \in Nat \ {0}
  BY LimitsAssumption
<1> DEFINE head == First(text, INT_BUFFER - 1)
<1>1. read_line(text, INT_BUFFER) = head /\ _check_int(head)
  BY DEF read_int_from_stdin, read_line
<1>2. AllDigits(text) /\ Len(text) > 0
  BY PlainDigits
<1>3. /\ head \in Seq(A)
      /\ Len(head) = IF INT_BUFFER - 1 < Len(text) THEN INT_BUFFER - 1 ELSE Len(text)
      /\ \A i \in 1..Len(head) : head[i] = text[i]
  BY <1>0, FirstIs
<1>4. IsInteger(head, INT_MIN, INT_MAX) /\ IntIn(head) = Meaning(head)
  BY <1>1, <1>3, IntRead
<1>5. Spellings(head) # {} /\ Meaning(head) \in INT_MIN..INT_MAX
  BY <1>4 DEF IsInteger
<1>6. AllDigits(head)
  BY <1>0, <1>2, <1>3 DEF AllDigits
<1>7. Len(head) > 0
  <2>1. PICK b, s, r : Parts(head, b, s, r)
    BY <1>3, StrtolIs DEF Converts
  <2>2. r > 0 /\ b + s + r = Len(head)
    BY <1>3, <1>5, <2>1, MeaningIs
  <2>3. b \in Nat /\ s \in {0, 1} /\ r \in Nat
    BY <1>3, <2>1 DEF Parts, Opening
  <2> QED  BY <2>2, <2>3
<1>8. Meaning(head) = Positional(head)
  BY <1>3, <1>6, <1>7, DigitsMean
<1>9. Len(text) <= INT_BUFFER - 1
  <2> SUFFICES ASSUME INT_BUFFER - 1 < Len(text) PROVE FALSE
    BY <1>0
  <2>1. Len(head) = INT_BUFFER - 1
    BY <1>3
  <2>2. head[1] = text[1]
    BY <1>3, <1>7
  <2>3. text[1] # "0"
    BY Zenon DEF Plain
  <2>4. Positional(head) > INT_MAX
    <3> HIDE DEF head
    <3> QED  BY <1>3, <1>6, <2>1, <2>2, <2>3, FullBufferOverflows
  <2> QED  BY <1>5, <1>8, <2>4, LimitsAssumption
<1>10. head = text
  BY <1>0, <1>9 DEF First
<1> QED  BY <1>1, <1>4, <1>10

-----------------------------------------------------------------------------
(* What strsep yields *)

\* The number of marks before a mark.
Rank(marks, i) == Cardinality({j \in marks : j < i})

\* The marks are finitely many, and their ranks grow with them.
LEMMA RankGrows ==
  ASSUME NEW n \in Nat, NEW marks \in SUBSET (0..n)
  PROVE  /\ IsFiniteSet(marks) /\ Cardinality(marks) \in Nat
         /\ \A i \in marks : Rank(marks, i) \in Nat /\ Rank(marks, i) < Cardinality(marks)
         /\ \A i, j \in marks : i < j => Rank(marks, i) < Rank(marks, j)
         /\ \A i, j \in marks : (i < j /\ ~ \E k \in marks : i < k /\ k < j)
                                   => Rank(marks, j) = Rank(marks, i) + 1
<1>0. \A i \in marks : i \in Int
  OBVIOUS
<1>1. \A T \in SUBSET marks : IsFiniteSet(T)
  <2>1. IsFiniteSet(0..n)
    BY FS_Interval
  <2>2. \A T \in SUBSET marks : T \in SUBSET (0..n)
    OBVIOUS
  <2> QED  BY <2>1, <2>2, FS_Subset
<1>2. \A T \in SUBSET marks : Cardinality(T) \in Nat
  BY <1>1, FS_CardinalityType
<1>3. ASSUME NEW i \in marks
      PROVE  /\ {j \in marks : j < i} \cup {i} \in SUBSET marks
             /\ Rank(marks, i) \in Nat
             /\ Cardinality({j \in marks : j < i} \cup {i}) = Rank(marks, i) + 1
  <2> DEFINE T == {j \in marks : j < i}
  <2>1. T \in SUBSET marks /\ T \cup {i} \in SUBSET marks /\ i \notin T
    OBVIOUS
  <2>2. Rank(marks, i) = Cardinality(T)
    BY DEF Rank
  <2> HIDE DEF T
  <2>3. Cardinality(T \cup {i}) = Cardinality(T) + 1
    BY <1>1, <2>1, FS_AddElement
  <2>4. Cardinality(T) \in Nat
    BY <1>2, <2>1
  <2>5. T \cup {i} \in SUBSET marks /\ Rank(marks, i) \in Nat
        /\ Cardinality(T \cup {i}) = Rank(marks, i) + 1
    BY <2>1, <2>2, <2>3, <2>4
  <2> QED  BY <2>5 DEF T
<1>4. \A T \in SUBSET marks : \A U \in SUBSET T : Cardinality(U) <= Cardinality(T)
  BY <1>1, FS_Subset
<1>5. ASSUME NEW i \in marks PROVE Rank(marks, i) < Cardinality(marks)
  <2>1. Rank(marks, i) + 1 <= Cardinality(marks)
    BY <1>3, <1>4
  <2>2. Rank(marks, i) \in Nat /\ Cardinality(marks) \in Nat
    BY <1>2, <1>3
  <2> QED  BY <2>1, <2>2
<1>6. ASSUME NEW i \in marks, NEW j \in marks, i < j
      PROVE  Rank(marks, i) < Rank(marks, j)
  <2> DEFINE T == {k \in marks : k < i} \cup {i}
             U == {k \in marks : k < j}
  <2>1. T \in SUBSET U /\ U \in SUBSET marks
    <3>1. \A k \in marks : k < i => k < j
      BY <1>0, <1>6
    <3> QED  BY <1>6, <3>1
  <2>2. Cardinality(T) = Rank(marks, i) + 1 /\ Cardinality(U) = Rank(marks, j)
    BY <1>3 DEF Rank
  <2> HIDE DEF T, U
  <2>3. Rank(marks, i) + 1 <= Rank(marks, j)
    BY <1>4, <2>1, <2>2
  <2>4. Rank(marks, i) \in Nat /\ Rank(marks, j) \in Nat
    BY <1>3
  <2> QED  BY <2>3, <2>4
<1>7. ASSUME NEW i \in marks, NEW j \in marks, i < j, ~ \E k \in marks : i < k /\ k < j
      PROVE  Rank(marks, j) = Rank(marks, i) + 1
  <2>1. {k \in marks : k < j} = {k \in marks : k < i} \cup {i}
    <3>1. \A k \in marks : k < j <=> k < i \/ k = i
      BY <1>0, <1>7
    <3> QED  BY <3>1, Zenon
  <2> QED  BY <1>3, <2>1 DEF Rank
<1> QED  BY <1>1, <1>2, <1>3, <1>5, <1>6, <1>7

\* The k-th mark exists, and is the one with k - 1 marks before it.
LEMMA MarkIs ==
  ASSUME NEW n \in Nat, NEW marks \in SUBSET (0..n)
  PROVE  /\ \A k \in 1..Cardinality(marks) :
                Mark(marks, k) \in marks /\ Rank(marks, Mark(marks, k)) = k - 1
         /\ \A i \in marks : Mark(marks, Rank(marks, i) + 1) = i
<1> DEFINE c == Cardinality(marks)
           rank == [i \in marks |-> Rank(marks, i)]
<1>1. /\ IsFiniteSet(marks) /\ c \in Nat
      /\ \A i \in marks : Rank(marks, i) \in 0..c - 1
      /\ \A i, j \in marks : i < j => Rank(marks, i) < Rank(marks, j)
  <2>1. /\ IsFiniteSet(marks) /\ c \in Nat
        /\ \A i \in marks : Rank(marks, i) \in Nat /\ Rank(marks, i) < c
        /\ \A i, j \in marks : i < j => Rank(marks, i) < Rank(marks, j)
    BY RankGrows, Zenon
  <2> HIDE DEF c
  <2> QED  BY <2>1
<1>2. \A i, j \in marks : Rank(marks, i) = Rank(marks, j) => i = j
  <2> SUFFICES ASSUME NEW i \in marks, NEW j \in marks, Rank(marks, i) = Rank(marks, j), i # j
               PROVE  FALSE
    OBVIOUS
  <2>1. i < j \/ j < i
    OBVIOUS
  <2> QED  BY <1>1, <2>1
<1> HIDE DEF c
<1>3. IsFiniteSet(0..c - 1) /\ Cardinality(0..c - 1) = c
  BY <1>1, FS_Interval
<1>4. rank \in Injection(marks, 0..c - 1)
  <2>1. rank \in [marks -> 0..c - 1]
    BY <1>1
  <2>2. \A i, j \in marks : rank[i] = rank[j] => i = j
    BY <1>2
  <2> HIDE DEF rank
  <2> QED  BY <2>1, <2>2 DEF Injection, IsInjective
<1>5. rank \in Surjection(marks, 0..c - 1)
  <2> HIDE DEF rank
  <2> QED  BY <1>3, <1>4, FS_Injection DEF c
<1>6. \A m \in 0..c - 1 : \E i \in marks : Rank(marks, i) = m
  <2>1. \A m \in 0..c - 1 : \E i \in marks : rank[i] = m
    <3> HIDE DEF rank
    <3> QED  BY <1>5 DEF Surjection
  <2> QED  BY <2>1
<1>7. ASSUME NEW k \in 1..c
      PROVE  Mark(marks, k) \in marks /\ Rank(marks, Mark(marks, k)) = k - 1
  <2>1. k - 1 \in 0..c - 1
    BY <1>1
  <2>2. \E i \in marks : Rank(marks, i) = k - 1
    BY <1>6, <2>1
  <2>3. Mark(marks, k) = CHOOSE i \in marks : Rank(marks, i) = k - 1
    BY Zenon DEF Mark, Rank
  <2> QED  BY <2>2, <2>3
<1>8. ASSUME NEW i \in marks PROVE Mark(marks, Rank(marks, i) + 1) = i
  <2>1. Rank(marks, i) + 1 \in 1..c /\ (Rank(marks, i) + 1) - 1 = Rank(marks, i)
    BY <1>1
  <2> QED  BY <1>2, <1>7, <2>1
<1> QED  BY <1>7, <1>8 DEF c

\* No mark is between these two.
Adjacent(marks, i, j) == i < j /\ ~ \E k \in marks : i < k /\ k < j

\* The marks that follow each other are the k-th and the next one.
LEMMA Stretches ==
  ASSUME NEW n \in Nat, NEW marks \in SUBSET (0..n)
  PROVE  /\ \A k \in 1..Cardinality(marks) - 1 :
                /\ Mark(marks, k) \in marks /\ Mark(marks, k + 1) \in marks
                /\ Adjacent(marks, Mark(marks, k), Mark(marks, k + 1))
         /\ \A i, j \in marks : Adjacent(marks, i, j) =>
                \E k \in 1..Cardinality(marks) - 1 : i = Mark(marks, k) /\ j = Mark(marks, k + 1)
<1> DEFINE c == Cardinality(marks)
<1>1. /\ c \in Nat
      /\ \A i \in marks : Rank(marks, i) \in 0..c - 1
      /\ \A i, j \in marks : i < j => Rank(marks, i) < Rank(marks, j)
      /\ \A i, j \in marks : Adjacent(marks, i, j) => Rank(marks, j) = Rank(marks, i) + 1
  BY RankGrows DEF Adjacent
<1>2. /\ \A k \in 1..c : Mark(marks, k) \in marks /\ Rank(marks, Mark(marks, k)) = k - 1
      /\ \A i \in marks : Mark(marks, Rank(marks, i) + 1) = i
  BY MarkIs
<1> HIDE DEF c
<1>3. ASSUME NEW k \in 1..c - 1
      PROVE  /\ Mark(marks, k) \in marks /\ Mark(marks, k + 1) \in marks
             /\ Adjacent(marks, Mark(marks, k), Mark(marks, k + 1))
  <2> DEFINE i == Mark(marks, k)
             j == Mark(marks, k + 1)
  <2>1. k \in 1..c /\ k + 1 \in 1..c
    BY <1>1
  <2>2. i \in marks /\ j \in marks /\ Rank(marks, i) = k - 1 /\ Rank(marks, j) = k
    BY <1>2, <2>1
  <2> HIDE DEF i, j
  <2>3. i < j
    <3>1. ~ j < i /\ j # i
      BY <1>1, <2>1, <2>2
    <3> QED  BY <2>2, <3>1
  <2>4. ASSUME NEW m \in marks, i < m, m < j PROVE FALSE
    <3>1. Rank(marks, m) \in Int /\ k - 1 < Rank(marks, m) /\ Rank(marks, m) < k
      BY <1>1, <2>2, <2>4
    <3> QED  BY <2>1, <3>1
  <2>5. Adjacent(marks, i, j)
    BY <2>3, <2>4 DEF Adjacent
  <2> QED  BY <2>2, <2>5 DEF i, j
<1>4. ASSUME NEW i \in marks, NEW j \in marks, Adjacent(marks, i, j)
      PROVE  \E k \in 1..c - 1 : i = Mark(marks, k) /\ j = Mark(marks, k + 1)
  <2> DEFINE k == Rank(marks, i) + 1
  <2>1. Rank(marks, j) = k
    BY <1>1, <1>4
  <2>2. k \in 1..c - 1
    BY <1>1, <2>1
  <2>3. i = Mark(marks, k) /\ j = Mark(marks, k + 1)
    BY <1>2, <2>1
  <2> HIDE DEF k
  <2> QED  BY <2>2, <2>3
<1> QED  BY <1>3, <1>4 DEF c

\* Where a text has a separator, and where its tokens begin and end.
Separators(text, separator) == {i \in DOMAIN text : text[i] = separator}
Ends(text, separator) == Separators(text, separator) \cup {0, Len(text) + 1}

\* There are two ends more than there are separators.
LEMMA EndsAre ==
  ASSUME NEW A, NEW text \in Seq(A), NEW separator
  PROVE  /\ Len(text) \in Nat
         /\ Separators(text, separator) \in SUBSET (1..Len(text))
         /\ Ends(text, separator) \in SUBSET (0..Len(text) + 1)
         /\ Cardinality(Separators(text, separator)) \in Nat
         /\ Cardinality(Ends(text, separator)) = Cardinality(Separators(text, separator)) + 2
         /\ Contains(text, separator) <=> Cardinality(Separators(text, separator)) # 0
<1> DEFINE S == Separators(text, separator)
<1>1. Len(text) \in Nat /\ DOMAIN text = 1..Len(text)
  OBVIOUS
<1>2. S \in SUBSET (1..Len(text)) /\ (Contains(text, separator) <=> S # {})
  BY <1>1, Zenon DEF Separators, Contains
<1>3. Ends(text, separator) = (S \cup {0}) \cup {Len(text) + 1}
  BY DEF Ends
<1> HIDE DEF S
<1>4. IsFiniteSet(S)
  <2>1. IsFiniteSet(1..Len(text))
    BY <1>1, FS_Interval
  <2> QED  BY <1>2, <2>1, FS_Subset
<1>5. Cardinality(S) \in Nat /\ (Cardinality(S) = 0 <=> S = {})
  BY <1>4, FS_CardinalityType, FS_EmptySet
<1>6. IsFiniteSet(S \cup {0}) /\ Cardinality(S \cup {0}) = Cardinality(S) + 1
  <2>1. 0 \notin S
    BY <1>1, <1>2
  <2> QED  BY <1>4, <2>1, FS_AddElement
<1>7. Cardinality((S \cup {0}) \cup {Len(text) + 1}) = Cardinality(S \cup {0}) + 1
  <2>1. Len(text) + 1 \notin S \cup {0}
    BY <1>1, <1>2
  <2> QED  BY <1>6, <2>1, FS_AddElement
<1>8. Cardinality(Ends(text, separator)) = Cardinality(S) + 2
  BY <1>3, <1>5, <1>6, <1>7
<1>9. Ends(text, separator) \in SUBSET (0..Len(text) + 1)
  <2>1. 0 \in 0..Len(text) + 1 /\ Len(text) + 1 \in 0..Len(text) + 1
        /\ \A i \in 1..Len(text) : i \in 0..Len(text) + 1
    BY <1>1
  <2> QED  BY <1>2, <1>3, <2>1
<1> QED  BY <1>1, <1>2, <1>5, <1>8, <1>9 DEF S

\* What strsep yields: the stretches between consecutive separators.
LEMMA TokensAre ==
  ASSUME NEW A, NEW text \in Seq(A), NEW separator
  PROVE  /\ Tokens(text, separator) \in Seq(Seq(A))
         /\ Len(Tokens(text, separator)) = Cardinality(Separators(text, separator)) + 1
         /\ \A k \in 1..Len(Tokens(text, separator)) :
               Tokens(text, separator)[k] = SubSeq(text, Mark(Ends(text, separator), k) + 1,
                                                         Mark(Ends(text, separator), k + 1) - 1)
<1> DEFINE E == Ends(text, separator)
           c == Cardinality(Separators(text, separator))
           token(k) == SubSeq(text, Mark(E, k) + 1, Mark(E, k + 1) - 1)
<1>1. /\ Len(text) \in Nat /\ E \in SUBSET (0..Len(text) + 1) /\ c \in Nat
      /\ Cardinality(E) = c + 2
  BY EndsAre
<1>2. Tokens(text, separator) = [k \in 1..c + 1 |-> token(k)]
  <2>1. Marks(text, separator) = E
    BY DEF Marks, Ends, Separators
  <2>2. c + 1 = Cardinality(E) - 1
    BY <1>1
  <2>3. Tokens(text, separator) = [k \in 1..Cardinality(E) - 1 |-> token(k)]
    BY <2>1, Zenon DEF Tokens
  <2> HIDE DEF E, c, token
  <2> QED  BY <2>2, <2>3
<1> HIDE DEF E, c
<1>3. ASSUME NEW k \in 1..c + 1 PROVE token(k) \in Seq(A)
  <2>1. k \in 1..Cardinality(E) /\ k + 1 \in 1..Cardinality(E)
    BY <1>1
  <2>2. Len(text) + 1 \in Nat
    BY <1>1
  <2>3. Mark(E, k) \in E /\ Mark(E, k + 1) \in E
    BY <1>1, <2>1, <2>2, MarkIs
  <2>4. Mark(E, k) \in 0..Len(text) + 1 /\ Mark(E, k + 1) \in 0..Len(text) + 1
    BY <1>1, <2>3
  <2>5. ASSUME NEW i \in 0..Len(text) + 1, NEW j \in 0..Len(text) + 1
        PROVE  SubSeq(text, i + 1, j - 1) \in Seq(A)
    BY <1>1
  <2> QED  BY <2>4, <2>5
<1>4. /\ Tokens(text, separator) \in Seq(Seq(A))
      /\ Len(Tokens(text, separator)) = c + 1
      /\ \A k \in 1..c + 1 : Tokens(text, separator)[k] = token(k)
  <2> HIDE DEF token
  <2>1. c + 1 \in Nat
    BY <1>1
  <2> QED  BY <1>2, <1>3, <2>1
<1> QED  BY <1>4 DEF E, c

\* The tokens are the stretches between the ends that follow each other.
LEMMA TokenStretches ==
  ASSUME NEW A, NEW text \in Seq(A), NEW separator
  PROVE  /\ \A k \in 1..Len(Tokens(text, separator)) :
               \E i, j \in Ends(text, separator) :
                  /\ Adjacent(Ends(text, separator), i, j)
                  /\ Tokens(text, separator)[k] = SubSeq(text, i + 1, j - 1)
         /\ \A i, j \in Ends(text, separator) : Adjacent(Ends(text, separator), i, j) =>
               \E k \in 1..Len(Tokens(text, separator)) :
                  Tokens(text, separator)[k] = SubSeq(text, i + 1, j - 1)
<1> DEFINE E == Ends(text, separator)
           T == Tokens(text, separator)
<1>1. /\ Len(text) + 1 \in Nat /\ E \in SUBSET (0..Len(text) + 1)
      /\ Len(T) = Cardinality(E) - 1
      /\ \A k \in 1..Len(T) : T[k] = SubSeq(text, Mark(E, k) + 1, Mark(E, k + 1) - 1)
  <2>1. /\ Len(text) \in Nat /\ E \in SUBSET (0..Len(text) + 1)
        /\ Cardinality(Separators(text, separator)) \in Nat
        /\ Cardinality(E) = Cardinality(Separators(text, separator)) + 2
    BY EndsAre
  <2>2. Len(T) = Cardinality(Separators(text, separator)) + 1
    BY TokensAre
  <2>3. \A k \in 1..Len(T) : T[k] = SubSeq(text, Mark(E, k) + 1, Mark(E, k + 1) - 1)
    BY TokensAre
  <2> HIDE DEF E, T
  <2> QED  BY <2>1, <2>2, <2>3
<1> HIDE DEF E, T
<1>2. /\ \A k \in 1..Len(T) :
                /\ Mark(E, k) \in E /\ Mark(E, k + 1) \in E
                /\ Adjacent(E, Mark(E, k), Mark(E, k + 1))
      /\ \A i, j \in E : Adjacent(E, i, j) =>
                \E k \in 1..Len(T) : i = Mark(E, k) /\ j = Mark(E, k + 1)
  <2>1. /\ \A k \in 1..Cardinality(E) - 1 :
                /\ Mark(E, k) \in E /\ Mark(E, k + 1) \in E
                /\ Adjacent(E, Mark(E, k), Mark(E, k + 1))
        /\ \A i, j \in E : Adjacent(E, i, j) =>
                \E k \in 1..Cardinality(E) - 1 : i = Mark(E, k) /\ j = Mark(E, k + 1)
    <3>1. ASSUME NEW n \in Nat, NEW marks \in SUBSET (0..n)
          PROVE  /\ \A k \in 1..Cardinality(marks) - 1 :
                    /\ Mark(marks, k) \in marks /\ Mark(marks, k + 1) \in marks
                    /\ Adjacent(marks, Mark(marks, k), Mark(marks, k + 1))
                 /\ \A i, j \in marks : Adjacent(marks, i, j) =>
                    \E k \in 1..Cardinality(marks) - 1 : i = Mark(marks, k) /\ j = Mark(marks, k + 1)
      BY Stretches
    <3> QED  BY <1>1, <3>1, Zenon
  <2> QED  BY <1>1, <2>1
<1>3. \A k \in 1..Len(T) : \E i, j \in E : Adjacent(E, i, j) /\ T[k] = SubSeq(text, i + 1, j - 1)
  BY <1>1, <1>2
<1>4. \A i, j \in E : Adjacent(E, i, j) =>
         \E k \in 1..Len(T) : T[k] = SubSeq(text, i + 1, j - 1)
  <2> SUFFICES ASSUME NEW i \in E, NEW j \in E, Adjacent(E, i, j)
               PROVE  \E k \in 1..Len(T) : T[k] = SubSeq(text, i + 1, j - 1)
    OBVIOUS
  <2>1. PICK k \in 1..Len(T) : i = Mark(E, k) /\ j = Mark(E, k + 1)
    BY <1>2
  <2>2. T[k] = SubSeq(text, i + 1, j - 1)
    BY <1>1, <2>1
  <2> QED  BY <2>2
<1> QED  BY <1>3, <1>4 DEF E, T

-----------------------------------------------------------------------------
(* Addresses *)

\* A text is read as a number within limits if it spells one.
LEMMA IntWithin ==
  ASSUME NEW A, NEW text \in Seq(A), NEW low \in INT_MIN..INT_MAX, NEW high \in INT_MIN..INT_MAX
  PROVE  _check_int(text) /\ IntIn(text) \in low..high <=> IsInteger(text, low, high)
<1>1. INT_MIN \in Int /\ INT_MAX \in Int
  BY LimitsAssumption
<1>2. \A v : v \in low..high => v \in INT_MIN..INT_MAX
  BY <1>1
<1>3. _check_int(text) <=> Spellings(text) # {} /\ Meaning(text) \in INT_MIN..INT_MAX
  BY IntRead DEF IsInteger
<1>4. _check_int(text) => IntIn(text) = Meaning(text)
  BY IntRead
<1> QED  BY <1>2, <1>3, <1>4 DEF IsInteger

\* What the beginning of a text contains, the text contains.
LEMMA HeadContains ==
  ASSUME NEW A, NEW text \in Seq(A), NEW n \in Nat, NEW ch, Contains(First(text, n), ch)
  PROVE  Contains(text, ch)
<1>1. PICK i \in 1..Len(First(text, n)) : First(text, n)[i] = ch
  BY DEF Contains
<1>2. text[i] = ch /\ i \in 1..Len(text)
  BY <1>1, FirstIs
<1> QED  BY <1>2 DEF Contains

\* What is between the separators passes the test.
LEMMA TokensAll ==
  ASSUME NEW A, NEW text \in Seq(A), NEW separator, NEW good
  PROVE  (\A g \in ToSet(Tokens(text, separator)) : g \in good)
         <=> \A i, j \in Ends(text, separator) :
                Adjacent(Ends(text, separator), i, j) => SubSeq(text, i + 1, j - 1) \in good
<1> DEFINE E == Ends(text, separator)
           T == Tokens(text, separator)
<1>1. ToSet(T) = {T[k] : k \in 1..Len(T)}
  <2>1. T \in Seq(Seq(A))
    BY TokensAre
  <2> HIDE DEF T
  <2> QED  BY <2>1 DEF ToSet
<1>2. /\ \A k \in 1..Len(T) :
           \E i, j \in E : Adjacent(E, i, j) /\ T[k] = SubSeq(text, i + 1, j - 1)
      /\ \A i, j \in E : Adjacent(E, i, j) =>
           \E k \in 1..Len(T) : T[k] = SubSeq(text, i + 1, j - 1)
  BY TokenStretches
<1> HIDE DEF E, T
<1>3. ASSUME \A g \in ToSet(T) : g \in good, NEW i \in E, NEW j \in E, Adjacent(E, i, j)
      PROVE  SubSeq(text, i + 1, j - 1) \in good
  BY <1>1, <1>2, <1>3
<1>4. ASSUME \A i, j \in E : Adjacent(E, i, j) => SubSeq(text, i + 1, j - 1) \in good,
             NEW k \in 1..Len(T)
      PROVE  T[k] \in good
  <2>1. PICK i \in E, j \in E : Adjacent(E, i, j) /\ T[k] = SubSeq(text, i + 1, j - 1)
    BY <1>2
  <2> QED  BY <1>4, <2>1
<1> QED  BY <1>1, <1>3, <1>4 DEF E, T

\* An address is accepted by the number of its dots and by what is between them.
LEMMA AddressRead ==
  ASSUME NEW A, NEW buf \in Seq(A), NEW text, text = First(buf, IP_ADDR_LEN)
  PROVE  read_ip_address_from_buffer(buf) <=>
            /\ Cardinality(Separators(text, ".")) = IP_ADDR_GP - 1
            /\ \A i, j \in Ends(text, ".") : Adjacent(Ends(text, "."), i, j) =>
                   IsInteger(SubSeq(text, i + 1, j - 1), IP_ADDR_MIN, IP_ADDR_MAX)
<1>0. IP_ADDR_LEN \in Nat /\ IP_ADDR_GP \in Nat \ {0, 1}
      /\ IP_ADDR_MIN \in INT_MIN..INT_MAX /\ IP_ADDR_MAX \in INT_MIN..INT_MAX
  BY LimitsAssumption
<1>1. text \in Seq(A)
  BY <1>0, FirstIs
<1> DEFINE T == Tokens(text, ".")
           E == Ends(text, ".")
           n == Cardinality(Separators(text, "."))
           good == {g \in Seq(A) : IsInteger(g, IP_ADDR_MIN, IP_ADDR_MAX)}
<1>2. /\ T \in Seq(Seq(A)) /\ Len(T) = n + 1 /\ n \in Nat
      /\ n # 0 => Contains(text, ".")
  BY <1>1, TokensAre, EndsAre
<1>3. Contains(text, ".") => Contains(buf, ".")
  BY <1>0, HeadContains
<1>4. (\A g \in ToSet(T) : g \in good)
         <=> \A i, j \in E : Adjacent(E, i, j) => SubSeq(text, i + 1, j - 1) \in good
  <2> HIDE DEF good
  <2> QED  BY <1>1, TokensAll
<1>5. read_ip_address_from_buffer(buf) <=>
         /\ Contains(buf, ".") /\ Len(T) = IP_ADDR_GP
         /\ \A g \in ToSet(T) : _check_int(g) /\ IntIn(g) \in IP_ADDR_MIN..IP_ADDR_MAX
  BY Zenon DEF read_ip_address_from_buffer
<1>6. \A g \in ToSet(T) : g \in Seq(A)
  <2> HIDE DEF T
  <2> QED  BY <1>2 DEF ToSet
<1>7. \A g \in Seq(A) :
         _check_int(g) /\ IntIn(g) \in IP_ADDR_MIN..IP_ADDR_MAX <=> IsInteger(g, IP_ADDR_MIN, IP_ADDR_MAX)
  BY <1>0, IntWithin
<1>8. (\A g \in ToSet(T) : _check_int(g) /\ IntIn(g) \in IP_ADDR_MIN..IP_ADDR_MAX)
         <=> \A g \in ToSet(T) : g \in good
  BY <1>6, <1>7
<1>9. ASSUME NEW i \in E, NEW j \in E
      PROVE  SubSeq(text, i + 1, j - 1) \in good
                <=> IsInteger(SubSeq(text, i + 1, j - 1), IP_ADDR_MIN, IP_ADDR_MAX)
  <2>1. Len(text) \in Nat /\ i \in 0..Len(text) + 1 /\ j \in 0..Len(text) + 1
    BY <1>1, <1>9, EndsAre
  <2>2. SubSeq(text, i + 1, j - 1) \in Seq(A)
    BY <1>1, <2>1
  <2> QED  BY <2>2
<1>10. Len(T) = IP_ADDR_GP <=> n = IP_ADDR_GP - 1
  BY <1>0, <1>2
<1>11. Len(T) = IP_ADDR_GP => Contains(buf, ".")
  BY <1>0, <1>2, <1>3, <1>10
<1> HIDE DEF T, E, n, good
<1> QED  BY <1>4, <1>5, <1>8, <1>9, <1>10, <1>11 DEF E, n

\* The marks between two ends are the separators between them.
LEMMA AdjacentEnds ==
  ASSUME NEW A, NEW text \in Seq(A), NEW separator,
         NEW i \in Ends(text, separator), NEW j \in Ends(text, separator)
  PROVE  Adjacent(Ends(text, separator), i, j)
         <=> i < j /\ ~ \E k \in Separators(text, separator) : i < k /\ k < j
<1>1. /\ Len(text) \in Nat /\ i \in 0..Len(text) + 1 /\ j \in 0..Len(text) + 1
  BY EndsAre
<1>2. \A k : k \in Ends(text, separator)
             <=> k \in Separators(text, separator) \/ k = 0 \/ k = Len(text) + 1
  BY DEF Ends
<1>3. ~ i < 0 /\ ~ Len(text) + 1 < j
  BY <1>1
<1> QED  BY <1>2, <1>3 DEF Adjacent

\* The same, in the words of AddressGrammar.
LEMMA AddressJudged ==
  ASSUME NEW A, NEW buf \in Seq(A)
  PROVE  read_ip_address_from_buffer(buf) <=> OfGroups(First(buf, IP_ADDR_LEN), NumberGroup)
<1> DEFINE text == First(buf, IP_ADDR_LEN)
           dots == {i \in DOMAIN text : text[i] = "."}
           ends == dots \cup {0, Len(text) + 1}
           exact == read_ip_address_from_buffer(buf) <=>
                /\ Cardinality(dots) = IP_ADDR_GP - 1
                /\ \A i, j \in ends : (i < j /\ ~ \E k \in dots : i < k /\ k < j) =>
                       IsInteger(SubSeq(text, i + 1, j - 1), IP_ADDR_MIN, IP_ADDR_MAX)
<1>1. text \in Seq(A)
  BY FirstIs, LimitsAssumption
<1>2. dots = Separators(text, ".") /\ ends = Ends(text, ".")
  BY Zenon DEF Separators, Ends
<1>3. read_ip_address_from_buffer(buf) <=>
            /\ Cardinality(Separators(text, ".")) = IP_ADDR_GP - 1
            /\ \A i, j \in Ends(text, ".") : Adjacent(Ends(text, "."), i, j) =>
                   IsInteger(SubSeq(text, i + 1, j - 1), IP_ADDR_MIN, IP_ADDR_MAX)
  <2> HIDE DEF dots, ends, exact
  <2> QED  BY AddressRead
<1>4. \A i, j \in ends : Adjacent(ends, i, j) <=> i < j /\ ~ \E k \in dots : i < k /\ k < j
  <2> HIDE DEF text, dots, ends, exact
  <2> QED  BY <1>1, <1>2, AdjacentEnds
<1>5. exact
  <2> HIDE DEF text, dots, ends
  <2> QED  BY <1>2, <1>3, <1>4
<1>6. OfGroups(text, NumberGroup)
         <=> /\ Cardinality(dots) = IP_ADDR_GP - 1
             /\ \A i, j \in ends : (i < j /\ ~ \E k \in dots : i < k /\ k < j) =>
                    IsInteger(SubSeq(text, i + 1, j - 1), IP_ADDR_MIN, IP_ADDR_MAX)
  <2> HIDE DEF text, exact
  <2> QED  BY Zenon DEF OfGroups, NumberGroup
<1> QED  BY <1>5, <1>6, Zenon DEF exact

\* Plain digits are a number to strtol.
LEMMA DigitsAreNumber ==
  ASSUME NEW A, NEW group \in Seq(A), DigitGroup(group)
  PROVE  NumberGroup(group)
<1>1. AllDigits(group) /\ Len(group) > 0
  BY DEF DigitGroup, AllDigits
<1>2. Spellings(group) # {} /\ Meaning(group) = Positional(group)
  BY <1>1, DigitsMean
<1> QED  BY <1>2 DEF NumberGroup, DigitGroup, IsInteger

\* An address of plain digits that is not cut is accepted.
LEMMA DigitsJudged ==
  ASSUME NEW A, NEW buf \in Seq(A), Len(buf) <= IP_ADDR_LEN, OfGroups(buf, DigitGroup)
  PROVE  read_ip_address_from_buffer(buf)
<1> DEFINE dots == {i \in DOMAIN buf : buf[i] = "."}
           ends == dots \cup {0, Len(buf) + 1}
           Apart(i, j) == i < j /\ ~ \E k \in dots : i < k /\ k < j
<1>1. First(buf, IP_ADDR_LEN) = buf
  <2>1. IP_ADDR_LEN \in Nat /\ Len(buf) \in Nat
    BY LimitsAssumption
  <2>2. (IF IP_ADDR_LEN < Len(buf) THEN IP_ADDR_LEN ELSE Len(buf)) = Len(buf)
    BY <2>1
  <2>3. SubSeq(buf, 1, Len(buf)) = buf
    OBVIOUS
  <2> QED  BY <2>2, <2>3 DEF First
<1>2. ASSUME NEW i \in ends, NEW j \in ends
      PROVE  SubSeq(buf, i + 1, j - 1) \in Seq(A)
  <2>1. Len(buf) \in Nat /\ i \in 0..Len(buf) + 1 /\ j \in 0..Len(buf) + 1
    BY <1>2
  <2> QED  BY <2>1
<1>3. /\ Cardinality(dots) = IP_ADDR_GP - 1
      /\ \A i, j \in ends : Apart(i, j) => DigitGroup(SubSeq(buf, i + 1, j - 1))
  BY Zenon DEF OfGroups
<1>4. \A i, j \in ends : Apart(i, j) => NumberGroup(SubSeq(buf, i + 1, j - 1))
  <2> HIDE DEF ends, Apart
  <2> QED  BY <1>2, <1>3, DigitsAreNumber
<1>5. OfGroups(buf, NumberGroup)
  BY <1>3, <1>4, Zenon DEF OfGroups
<1> QED  BY <1>1, <1>5, AddressJudged

-----------------------------------------------------------------------------
(* Subnets *)

\* Cut once is cut for good: what read_destination_subnet_from_buffer stores is
\* not cut again when it is read back.
LEMMA HeadOfHead ==
  ASSUME NEW A, NEW text \in Seq(A), NEW n \in Nat
  PROVE  First(First(text, n), n) = First(text, n)
<1> DEFINE m == IF n < Len(text) THEN n ELSE Len(text)
           head == First(text, n)
<1>1. m \in 0..Len(text) /\ Len(text) \in Nat /\ ~ n < m
  OBVIOUS
<1>2. head \in Seq(A) /\ Len(head) = m
  BY FirstIs
<1> HIDE DEF m, head
<1>3. First(head, n) = SubSeq(head, 1, m)
  BY <1>1, <1>2 DEF First
<1>4. SubSeq(head, 1, m) = head
  BY <1>1, <1>2
<1> QED  BY <1>3, <1>4 DEF head

\* A text with one separator has the tokens before and after it.
LEMMA TwoTokens ==
  ASSUME NEW A, NEW text \in Seq(A), NEW separator, NEW slash \in Separators(text, separator)
  PROVE  Len(Tokens(text, separator)) = 2 =>
         /\ slash \in 1..Len(text)
         /\ Tokens(text, separator)[1] = First(text, slash - 1)
         /\ Tokens(text, separator)[2] = After(text, slash)
<1>0. \A k \in 1..Len(Tokens(text, separator)) :
          Tokens(text, separator)[k] = SubSeq(text, Mark(Ends(text, separator), k) + 1,
                                                    Mark(Ends(text, separator), k + 1) - 1)
  BY TokensAre
<1> SUFFICES ASSUME Len(Tokens(text, separator)) = 2
             PROVE  /\ slash \in 1..Len(text)
                    /\ Tokens(text, separator)[1] = First(text, slash - 1)
                    /\ Tokens(text, separator)[2] = After(text, slash)
  OBVIOUS
<1> DEFINE S == Separators(text, separator)
           E == Ends(text, separator)
           T == Tokens(text, separator)
           n == Len(text) + 1
<1>1. /\ Len(text) \in Nat /\ S \in SUBSET (1..Len(text)) /\ E \in SUBSET (0..n)
      /\ Cardinality(S) \in Nat /\ Cardinality(E) = Cardinality(S) + 2
  BY EndsAre
<1>2. /\ Len(T) = Cardinality(S) + 1
      /\ \A k \in 1..Len(T) : T[k] = SubSeq(text, Mark(E, k) + 1, Mark(E, k + 1) - 1)
  <2>1. Len(T) = Cardinality(S) + 1
    BY TokensAre
  <2>2. \A k \in 1..Len(T) : T[k] = SubSeq(text, Mark(E, k) + 1, Mark(E, k + 1) - 1)
    BY <1>0
  <2> HIDE DEF T, S, E
  <2> QED  BY <2>1, <2>2
<1>3. E = S \cup {0, n} /\ slash \in S /\ Len(T) = 2
  BY DEF Ends
<1> HIDE DEF S, E, T
<1>4. S = {slash}
  <2>1. Cardinality(S) = 1
    <3>1. Cardinality(S) + 1 = 2 /\ Cardinality(S) \in Nat
      BY <1>1, <1>2, <1>3
    <3> QED  BY <3>1
  <2>2. IsFiniteSet(S)
    <3>1. IsFiniteSet(1..Len(text))
      BY <1>1, FS_Interval
    <3> QED  BY <1>1, <3>1, FS_Subset
  <2>3. PICK x : S = {x}
    BY <2>1, <2>2, FS_Singleton
  <2> QED  BY <1>3, <2>3
<1>5. slash \in 1..Len(text) /\ n \in Nat /\ 0 < slash /\ slash < n
  BY <1>1, <1>3
<1>6. E = {0, slash, n}
  BY <1>3, <1>4
<1> HIDE DEF n
<1>7. \A i, j \in E : (i < j /\ ~ \E k \in E : i < k /\ k < j) => Rank(E, j) = Rank(E, i) + 1
  BY <1>1, <1>5, RankGrows
<1>8. Rank(E, 0) = 0
  <2>1. {j \in E : j < 0} = {}
    BY <1>5, <1>6
  <2> QED  BY <2>1, FS_EmptySet DEF Rank
<1>9. Rank(E, slash) = 1
  <2>1. 0 \in E /\ slash \in E /\ 0 < slash /\ ~ \E k \in E : 0 < k /\ k < slash
    BY <1>5, <1>6
  <2>2. Rank(E, slash) = Rank(E, 0) + 1
    BY <1>7, <2>1
  <2> QED  BY <1>8, <2>2
<1>10. Rank(E, n) = 2
  <2>1. slash \in E /\ n \in E /\ slash < n /\ ~ \E k \in E : slash < k /\ k < n
    BY <1>5, <1>6
  <2>2. Rank(E, n) = Rank(E, slash) + 1
    BY <1>7, <2>1
  <2> QED  BY <1>9, <2>2
<1>11. Mark(E, 1) = 0 /\ Mark(E, 2) = slash /\ Mark(E, 3) = n
  <2>1. \A i \in E : Mark(E, Rank(E, i) + 1) = i
    BY <1>1, <1>5, MarkIs
  <2>2. 0 \in E /\ slash \in E /\ n \in E /\ 0 + 1 = 1 /\ 1 + 1 = 2 /\ 2 + 1 = 3
    BY <1>6
  <2> QED  BY <1>8, <1>9, <1>10, <2>1, <2>2
<1>12. T[1] = SubSeq(text, 1, slash - 1) /\ T[2] = SubSeq(text, slash + 1, Len(text))
  <2>1. 1 \in 1..2 /\ 2 \in 1..2 /\ 1 + 1 = 2 /\ 2 + 1 = 3 /\ 0 + 1 = 1 /\ n - 1 = Len(text)
    BY <1>1 DEF n
  <2>2. T[1] = SubSeq(text, Mark(E, 1) + 1, Mark(E, 1 + 1) - 1)
    BY <1>2, <1>3, <2>1
  <2>3. T[2] = SubSeq(text, Mark(E, 2) + 1, Mark(E, 2 + 1) - 1)
    BY <1>2, <1>3, <2>1
  <2> QED  BY <1>11, <2>1, <2>2, <2>3
<1>13. First(text, slash - 1) = SubSeq(text, 1, slash - 1)
  BY <1>1, <1>5 DEF First
<1> QED  BY <1>5, <1>12, <1>13 DEF T, After

\* What a line leaves in the record.
LEMMA RecordIs ==
  ASSUME NEW buf, NEW tokens, tokens = Tokens(buf, "/"), NEW read,
         read = read_destination_subnet_from_buffer(buf, Blank)
  PROVE  /\ read.ok <=> MaskToken(buf) /\ Len(tokens) = 2
         /\ read.destination = IF AddressToken(buf) THEN First(tokens[1], IP_ADDR_LEN) ELSE NoText
         /\ read.mask = IF MaskToken(buf) THEN IntIn(tokens[2]) ELSE NoText
         /\ MaskToken(buf) => /\ AddressToken(buf) /\ _check_int(tokens[2])
                              /\ IntIn(tokens[2]) \in MASK_MIN..MASK_MAX
         /\ AddressToken(buf) => read_ip_address_from_buffer(First(tokens[1], IP_ADDR_LEN))
<1> DEFINE ok == MaskToken(buf) /\ Len(tokens) = 2
           destination == IF AddressToken(buf) THEN First(tokens[1], IP_ADDR_LEN) ELSE NoText
           mask == IF MaskToken(buf) THEN IntIn(tokens[2]) ELSE NoText
<1>1. Blank.destination = NoText /\ Blank.mask = NoText
  BY DEF Blank
<1>2. read = [ok |-> ok, destination |-> destination, mask |-> mask]
  BY <1>1, Zenon DEF read_destination_subnet_from_buffer, Stored
<1>3. read.ok = ok /\ read.destination = destination /\ read.mask = mask
  <2> HIDE DEF ok, destination, mask
  <2> QED  BY <1>2
<1>4. MaskToken(buf) => /\ AddressToken(buf) /\ _check_int(tokens[2])
                        /\ IntIn(tokens[2]) \in MASK_MIN..MASK_MAX
  BY Zenon DEF MaskToken, MaskAccepted
<1>5. AddressToken(buf) => read_ip_address_from_buffer(First(tokens[1], IP_ADDR_LEN))
  BY Zenon DEF AddressToken
<1> QED  BY <1>3, <1>4, <1>5, Zenon

\* What a line leaves in the record is its subnet, or only what is right of it.
LEMMA SubnetRead ==
  ASSUME NEW read, buffer \in Seq(Alphabet),
         read = read_destination_subnet_from_buffer(buffer, Blank)
  PROVE  /\ read.ok => SubnetStored(read)
         /\ RejectedLeaves(read)
<1> DEFINE tokens == Tokens(buffer, "/")
<1>1. /\ read.ok <=> MaskToken(buffer) /\ Len(tokens) = 2
      /\ read.destination = IF AddressToken(buffer) THEN First(tokens[1], IP_ADDR_LEN) ELSE NoText
      /\ read.mask = IF MaskToken(buffer) THEN IntIn(tokens[2]) ELSE NoText
      /\ MaskToken(buffer) => /\ AddressToken(buffer) /\ _check_int(tokens[2])
                              /\ IntIn(tokens[2]) \in MASK_MIN..MASK_MAX
      /\ AddressToken(buffer) => read_ip_address_from_buffer(First(tokens[1], IP_ADDR_LEN))
  BY RecordIs, Zenon
<1>2. /\ tokens \in Seq(Seq(Alphabet)) /\ Len(tokens) \in Nat /\ Len(tokens) >= 1
      /\ IP_ADDR_LEN \in Nat
  <2>1. tokens \in Seq(Seq(Alphabet))
        /\ Len(tokens) = Cardinality(Separators(buffer, "/")) + 1
    BY TokensAre
  <2>2. Cardinality(Separators(buffer, "/")) \in Nat
    BY EndsAre
  <2> HIDE DEF tokens
  <2> QED  BY <2>1, <2>2, LimitsAssumption
<1>3. First(tokens[1], IP_ADDR_LEN) # NoText
  <2> HIDE DEF tokens
  <2>1. tokens[1] \in Seq(Alphabet)
    BY <1>2
  <2>2. First(tokens[1], IP_ADDR_LEN) \in Seq(Alphabet)
    BY <1>2, <2>1, FirstIs
  <2> QED  BY <2>2, TextsAssumption
<1>4. RejectedLeaves(read)
  <2> HIDE DEF tokens
  <2> QED  BY <1>1, <1>3 DEF RejectedLeaves
<1>5. ASSUME read.ok, NEW slash \in Separators(buffer, "/")
      PROVE  /\ read.mask = Meaning(After(buffer, slash)) /\ read.mask \in MASK_MIN..MASK_MAX
             /\ Terminated(read.destination) =>
                   /\ read_ip_address_from_buffer(read.destination)
                   /\ Address(read.destination) = Address(First(buffer, slash - 1))
  <2>1. /\ tokens[1] = First(buffer, slash - 1) /\ tokens[2] = After(buffer, slash)
        /\ tokens[1] \in Seq(Alphabet) /\ tokens[2] \in Seq(Alphabet)
    <3>1. Len(Tokens(buffer, "/")) = 2
      BY <1>1, <1>5
    <3>2. tokens[1] = First(buffer, slash - 1) /\ tokens[2] = After(buffer, slash)
      BY <3>1, TwoTokens
    <3> HIDE DEF tokens
    <3>3. tokens[1] \in Seq(Alphabet) /\ tokens[2] \in Seq(Alphabet)
      <4>1. tokens \in Seq(Seq(Alphabet)) /\ Len(tokens) = 2
        BY <1>1, <1>2, <1>5
      <4>2. 1 \in 1..Len(tokens) /\ 2 \in 1..Len(tokens)
        BY <4>1
      <4>3. ASSUME NEW B, NEW seq \in Seq(B), NEW k \in 1..Len(seq) PROVE seq[k] \in B
        OBVIOUS
      <4> QED  BY <4>1, <4>2, <4>3, Zenon
    <3> QED  BY <3>2, <3>3
  <2> HIDE DEF tokens
  <2>2. IntIn(tokens[2]) = Meaning(tokens[2])
    BY <1>1, <1>5, <2>1, IntRead
  <2>3. First(First(tokens[1], IP_ADDR_LEN), IP_ADDR_LEN) = First(tokens[1], IP_ADDR_LEN)
    BY <1>2, <2>1, HeadOfHead
  <2>4. Address(First(tokens[1], IP_ADDR_LEN)) = Address(tokens[1])
    BY <2>3, Zenon DEF Address
  <2> QED  BY <1>1, <1>5, <2>1, <2>2, <2>4, Zenon
<1>6. ASSUME read.ok PROVE SubnetStored(read)
  <2>1. {i \in DOMAIN buffer : buffer[i] = "/"} = Separators(buffer, "/")
    BY Zenon DEF Separators
  <2> HIDE DEF tokens
  <2> QED  BY <1>5, <1>6, <2>1, Zenon DEF SubnetStored
<1> QED  BY <1>4, <1>6

-----------------------------------------------------------------------------
(* The assertions on ints of any width *)

\* Twice as many sets, of one element more.
LEMMA PowerOfTwo ==
  ASSUME NEW w \in Nat
  PROVE  2^w \in Nat \ {0} /\ 2^(w + 1) = 2 * 2^w
<1> DEFINE S == SUBSET (1..w)
           With == {A \cup {w + 1} : A \in S}
           f == [A \in S |-> A \cup {w + 1}]
<1>1. IsFiniteSet(S) /\ Cardinality(S) = 2^w
  <2>1. IsFiniteSet(1..w) /\ Cardinality(1..w) = w
    BY FS_Interval
  <2> QED  BY <2>1, FS_SUBSET
<1>2. Cardinality(SUBSET (1..w + 1)) = 2^(w + 1)
  <2>1. IsFiniteSet(1..w + 1) /\ Cardinality(1..w + 1) = w + 1
    BY FS_Interval
  <2> QED  BY <2>1, FS_SUBSET
<1>3. SUBSET (1..w + 1) = S \cup With
  <2>1. \A i : i \in 1..w + 1 <=> i \in 1..w \/ i = w + 1
    OBVIOUS
  <2>2. ASSUME NEW A \in SUBSET (1..w + 1) PROVE A \in S \cup With
    <3>1. CASE w + 1 \in A
      <4>1. A \ {w + 1} \in S /\ A = (A \ {w + 1}) \cup {w + 1}
        BY <2>1, <3>1
      <4> QED  BY <4>1
    <3>2. CASE w + 1 \notin A
      BY <2>1, <3>2
    <3> QED  BY <3>1, <3>2
  <2>3. ASSUME NEW A \in S \cup With PROVE A \in SUBSET (1..w + 1)
    BY <2>1
  <2> QED  BY <2>2, <2>3
<1>4. S \cap With = {}
  <2>1. w + 1 \notin 1..w
    OBVIOUS
  <2> QED  BY <2>1
<1>5. IsFiniteSet(With) /\ Cardinality(With) = Cardinality(S)
  <2>1. f \in Surjection(S, With)
    <3>1. f \in [S -> With] /\ \A B \in With : \E A \in S : f[A] = B
      OBVIOUS
    <3> HIDE DEF f, With, S
    <3> QED  BY <3>1 DEF Surjection
  <2>2. f \in Injection(S, With)
    <3>1. w + 1 \notin 1..w
      OBVIOUS
    <3>2. \A A, B \in S : f[A] = f[B] => A = B
      BY <3>1
    <3>3. f \in [S -> With]
      OBVIOUS
    <3> HIDE DEF f, With, S
    <3> QED  BY <3>2, <3>3 DEF Injection, IsInjective
  <2> HIDE DEF f, With, S
  <2> QED  BY <1>1, <2>1, <2>2, FS_Surjection
<1> HIDE DEF S, With
<1>6. Cardinality(S \cup With) = Cardinality(S) + Cardinality(With) - 0
  BY <1>1, <1>4, <1>5, FS_Union, FS_EmptySet
<1>7. Cardinality(S) \in Nat
  BY <1>1, FS_CardinalityType
<1>8. Cardinality(S) # 0
  <2>1. {} \in S
    BY DEF S
  <2> QED  BY <1>1, <2>1, FS_EmptySet
<1> DEFINE c == Cardinality(S)
<1>9. 2^(w + 1) = c + c - 0 /\ 2^w = c
  BY <1>1, <1>2, <1>3, <1>5, <1>6
<1>10. c \in Nat /\ c # 0
  BY <1>7, <1>8
<1> HIDE DEF c
<1>11. c + c - 0 = 2 * c
  BY <1>10
<1> QED  BY <1>9, <1>10, <1>11

\* What % returns, and when it changes nothing.
LEMMA Modulo ==
  ASSUME NEW x \in Int, NEW m \in Nat \ {0}
  PROVE  x % m \in 0..m - 1 /\ (x \in 0..m - 1 => x % m = x)
OBVIOUS

\* A number that fits is what it is.
LEMMA ModuloBelow ==
  ASSUME NEW m \in Nat \ {0}, NEW x \in -m..-1
  PROVE  x % m = x + m
OBVIOUS

\* What the cast makes of an int, of m values.
Cast(n, m) == IF n < 0 THEN n + m ELSE n

\* The cast to an unsigned int maps the ints onto the unsigned ones.
LEMMA Casts ==
  \E m \in Nat \ {0}, half \in Nat \ {0} :
     /\ m = 2^UNITY_BITS /\ m = 2 * half
     /\ \A n : n \in Assertions!INT <=> n \in -half..half - 1
     /\ \A n : n \in Assertions!UINT <=> n \in 0..m - 1
     /\ \A n : Assertions!Unsigned(n) = n % m
     /\ \A n \in Assertions!INT : Assertions!Unsigned(n) = Cast(n, m)
<1> DEFINE w == UNITY_BITS - 1
           half == 2^w
           m == 2^UNITY_BITS
<1>1. w \in Nat /\ w + 1 = UNITY_BITS
  BY AssertionsAssumption
<1>2. half \in Nat \ {0} /\ m = 2 * half
  <2> HIDE DEF w
  <2> QED  BY <1>1, PowerOfTwo
<1>3. /\ \A n : n \in Assertions!INT <=> n \in -half..half - 1
      /\ \A n : n \in Assertions!UINT <=> n \in 0..m - 1
  BY DEF Assertions!INT, Assertions!UINT
<1>4. \A n : Assertions!Unsigned(n) = n % m
  BY DEF Assertions!Unsigned
<1>5. m = 2^UNITY_BITS
  OBVIOUS
<1> HIDE DEF half, m
<1>6. m \in Nat \ {0}
  BY <1>2
<1>7. ASSUME NEW n \in Assertions!INT PROVE Assertions!Unsigned(n) = Cast(n, m)
  <2>1. n \in Int /\ (n < 0 => n \in -m..-1) /\ (~ n < 0 => n \in 0..m - 1)
    BY <1>2, <1>3
  <2>2. n % m = Cast(n, m)
    <3>1. CASE n < 0
      BY <1>6, <2>1, <3>1, ModuloBelow DEF Cast
    <3>2. CASE ~ n < 0
      BY <1>6, <2>1, <3>2, Modulo DEF Cast
    <3> QED  BY <3>1, <3>2
  <2> QED  BY <1>4, <2>2
<1> m \in Nat \ {0} /\ half \in Nat \ {0}
  BY <1>2, <1>6
<1> WITNESS m \in Nat \ {0}, half \in Nat \ {0}
<1> QED  BY <1>2, <1>3, <1>4, <1>5, <1>7

\* The difference that is compared with delta, for ints and for what their casts
\* make of them.
LEMMA Difference ==
  ASSUME NEW half \in Nat \ {0}, NEW m \in Nat \ {0}, m = 2 * half,
         NEW a \in -half..half - 1, NEW e \in -half..half - 1
  PROVE  /\ Cast(a, m) \in Int
         /\ a >= e => (Cast(a, m) - Cast(e, m)) % m = a - e
         /\ Cast(a, m) >= Cast(e, m) =>
                (Cast(a, m) - Cast(e, m)) % m = Cast(a, m) - Cast(e, m)
<1> DEFINE u == Cast(a, m)
           v == Cast(e, m)
<1>0. u = (IF a < 0 THEN a + m ELSE a) /\ v = (IF e < 0 THEN e + m ELSE e)
  BY DEF Cast
<1> HIDE DEF u, v
<1>1. u \in 0..m - 1 /\ v \in 0..m - 1 /\ u - v \in Int
  BY <1>0
<1>2. u >= v => (u - v) % m = u - v
  <2> SUFFICES ASSUME u >= v PROVE (u - v) % m = u - v
    OBVIOUS
  <2>1. u - v \in 0..m - 1
    BY <1>1
  <2> QED  BY <1>1, <2>1, Modulo
<1>3. ASSUME a >= e PROVE (u - v) % m = a - e
  <2>1. CASE a >= 0 /\ e < 0
    <3>1. u - v = a - e - m /\ u - v \in -m..-1
      BY <1>0, <2>1
    <3>2. (u - v) % m = (u - v) + m
      BY <1>1, <3>1, ModuloBelow
    <3> QED  BY <1>1, <3>1, <3>2
  <2>2. CASE ~ (a >= 0 /\ e < 0)
    <3>1. u - v = a - e /\ u >= v
      BY <1>0, <1>3, <2>2
    <3> QED  BY <1>2, <3>1
  <2> QED  BY <2>1, <2>2
<1>4. u \in Int
  BY <1>1
<1> QED  BY <1>2, <1>3, <1>4 DEF u, v

\* UnityAssertNumbersWithin compares the distance, signed and unsigned.
LEMMA WithinInts ==
  ASSUME NEW e \in Assertions!INT, NEW a \in Assertions!INT, NEW delta \in Assertions!UINT
  PROVE  /\ Assertions!UnityAssertNumbersWithin(delta, e, a, TRUE) <=> Distance(e, a) <= delta
         /\ Assertions!UnityAssertNumbersWithin(delta, e, a, FALSE) <=>
               Distance(Assertions!Unsigned(e), Assertions!Unsigned(a)) <= delta
<1> DEFINE u == Assertions!Unsigned(a)
           v == Assertions!Unsigned(e)
<1>1. PICK m \in Nat \ {0}, half \in Nat \ {0} :
         /\ m = 2^UNITY_BITS /\ m = 2 * half
         /\ \A n : n \in Assertions!INT <=> n \in -half..half - 1
         /\ \A n : n \in Assertions!UINT <=> n \in 0..m - 1
         /\ \A n : Assertions!Unsigned(n) = n % m
         /\ \A n \in Assertions!INT : Assertions!Unsigned(n) = Cast(n, m)
  BY Casts
<1>2. /\ Assertions!UnityAssertNumbersWithin(delta, e, a, TRUE) <=>
            IF a > e THEN Assertions!Unsigned(u - v) <= delta ELSE Assertions!Unsigned(v - u) <= delta
      /\ Assertions!UnityAssertNumbersWithin(delta, e, a, FALSE) <=>
            IF u > v THEN Assertions!Unsigned(u - v) <= delta ELSE Assertions!Unsigned(v - u) <= delta
  BY DEF Assertions!UnityAssertNumbersWithin
<1>3. Assertions!Unsigned(u - v) = (u - v) % m /\ Assertions!Unsigned(v - u) = (v - u) % m
  BY <1>1
<1>4. u = Cast(a, m) /\ v = Cast(e, m)
  BY <1>1
<1>5. a \in -half..half - 1 /\ e \in -half..half - 1 /\ m = 2 * half
  BY <1>1
<1> HIDE DEF u, v
<1>6. /\ u \in Int /\ (a >= e => (u - v) % m = a - e)
      /\ u >= v => (u - v) % m = u - v
  BY <1>4, <1>5, Difference
<1>7. /\ v \in Int /\ (e >= a => (v - u) % m = e - a)
      /\ v >= u => (v - u) % m = v - u
  BY <1>4, <1>5, Difference
<1>8. a \in Int /\ e \in Int
  BY <1>5
<1>9. (IF a > e THEN (u - v) % m ELSE (v - u) % m) = Distance(e, a)
  BY <1>6, <1>7, <1>8 DEF Distance
<1>10. (IF u > v THEN (u - v) % m ELSE (v - u) % m) = Distance(v, u)
  BY <1>6, <1>7, <1>8 DEF Distance
<1>11. Assertions!UnityAssertNumbersWithin(delta, e, a, TRUE) <=> Distance(e, a) <= delta
  BY <1>2, <1>3, <1>9
<1>12. Assertions!UnityAssertNumbersWithin(delta, e, a, FALSE) <=> Distance(v, u) <= delta
  BY <1>2, <1>3, <1>10
<1> QED  BY <1>11, <1>12 DEF u, v

\* What is known of a floating point number of the model.
LEMMA FloatIs ==
  ASSUME NEW f \in Floats
  PROVE  /\ f.kind \in {"finite", "inf", "neg_inf", "nan"}
         /\ f.kind = "finite" => f = Assertions!Finite(f.value) /\ f.value \in Assertions!INT
         /\ f = Assertions!Inf    <=> f.kind = "inf"
         /\ f = Assertions!NegInf <=> f.kind = "neg_inf"
         /\ f = Assertions!NaN    <=> f.kind = "nan"
<1>1. CASE f \in {Assertions!Inf, Assertions!NegInf, Assertions!NaN}
  BY <1>1 DEF Assertions!Inf, Assertions!NegInf, Assertions!NaN
<1>2. CASE \E n \in Assertions!INT : f = Assertions!Finite(n)
  BY <1>2 DEF Assertions!Finite, Assertions!Inf, Assertions!NegInf, Assertions!NaN
<1> QED  BY <1>1, <1>2 DEF Floats

-----------------------------------------------------------------------------
(* The assertions on floating point numbers *)

\* The third way to be within: two numbers, not too far apart.
Near(delta, e, a) ==
    /\ e.kind = "finite" /\ a.kind = "finite"
    /\ delta.kind = "finite"
           => Assertions!Magnitude(a.value - e.value) <= Assertions!Magnitude(delta.value)

\* UnityAssertFloatsWithin, in three cases.
LEMMA FloatsWithinIs ==
  ASSUME NEW e \in Floats, NEW a \in Floats, NEW delta
  PROVE  Assertions!UnityFloatsWithin(delta, e, a)
         <=> (e.kind # "finite" /\ e = a) \/ Near(delta, e, a)
<1> DEFINE inf == Assertions!isinf(e) /\ Assertions!isinf(a) /\ e = a
           nan == e = Assertions!NaN /\ a = Assertions!NaN
           near == /\ {e.kind, a.kind} = {"finite"}
                   /\ delta.kind = "finite"
                         => Assertions!Magnitude(a.value - e.value) <= Assertions!Magnitude(delta.value)
<1>1. Assertions!UnityFloatsWithin(delta, e, a) <=> inf \/ nan \/ near
  BY Zenon DEF Assertions!UnityFloatsWithin
<1>2. near <=> Near(delta, e, a)
  BY Zenon DEF Near
<1>3. inf \/ nan <=> e.kind # "finite" /\ e = a
  <2>1. /\ e.kind \in {"finite", "inf", "neg_inf", "nan"}
        /\ e = Assertions!Inf    <=> e.kind = "inf"
        /\ e = Assertions!NegInf <=> e.kind = "neg_inf"
        /\ e = Assertions!NaN    <=> e.kind = "nan"
    BY FloatIs
  <2> QED  BY <2>1 DEF Assertions!isinf
<1> HIDE DEF inf, nan, near
<1> QED  BY <1>1, <1>2, <1>3

\* It does not matter which of the two was expected.
LEMMA WithinFloats ==
  ASSUME NEW e \in Floats, NEW a \in Floats, NEW delta \in Floats
  PROVE  /\ Assertions!UnityAssertFloatsWithin(delta, e, a)
               <=> Assertions!UnityAssertFloatsWithin(delta, a, e)
         /\ Assertions!UnityAssertFloatsWithin(delta, e, a) /\ e.kind # "finite" => e = a
<1>1. Near(delta, e, a) <=> Near(delta, a, e)
  <2> SUFFICES ASSUME e.kind = "finite", a.kind = "finite"
               PROVE  Assertions!Magnitude(a.value - e.value) = Assertions!Magnitude(e.value - a.value)
    BY DEF Near
  <2>1. e.value \in Int /\ a.value \in Int
    <3>1. e.value \in Assertions!INT /\ a.value \in Assertions!INT
      BY FloatIs
    <3> QED  BY <3>1, Casts
  <2> QED  BY <2>1 DEF Assertions!Magnitude
<1>2. /\ Assertions!UnityAssertFloatsWithin(delta, e, a)
            <=> (e.kind # "finite" /\ e = a) \/ Near(delta, e, a)
      /\ Assertions!UnityAssertFloatsWithin(delta, a, e)
            <=> (a.kind # "finite" /\ a = e) \/ Near(delta, a, e)
  BY FloatsWithinIs DEF Assertions!UnityAssertFloatsWithin
<1> QED  BY <1>1, <1>2 DEF Near

\* What \div returns.
LEMMA Quotient ==
  ASSUME NEW x \in Nat, NEW p \in Nat \ {0}
  PROVE  /\ x \div p \in Nat /\ x % p \in 0..p - 1
         /\ x = p * (x \div p) + (x % p)
OBVIOUS

\* To be at most a fraction of a number, without the fraction.
LEMMA Fraction ==
  ASSUME NEW x \in Nat, NEW d \in Nat, NEW p \in Nat \ {0}
  PROVE  d <= x \div p <=> d * p <= x
<1> DEFINE q == x \div p
           r == x % p
<1>1. q \in Nat /\ r \in 0..p - 1 /\ x = p * q + r
  BY Quotient
<1> HIDE DEF q, r
<1>2. \A i \in Int, j \in Int : i < j => p * i + p <= p * j
  <2> TAKE i \in Int, j \in Int
  <2> HAVE i < j
  <2>1. p * (j - i - 1) \in Nat
    <3>1. j - i - 1 \in Nat
      OBVIOUS
    <3> QED  BY <3>1
  <2>2. p * (j - i - 1) = p * j - p * i - p
    OBVIOUS
  <2>3. p * i \in Int /\ p * j \in Int
    OBVIOUS
  <2> QED  BY <2>1, <2>2, <2>3
<1>3. d * p = p * d /\ p * d \in Int /\ p * q \in Int
  BY <1>1
<1>4. CASE d <= q
  <2>1. p * d <= p * q
    BY <1>1, <1>2, <1>3, <1>4
  <2> QED  BY <1>1, <1>3, <1>4, <2>1 DEF q
<1>5. CASE q < d
  <2>1. p * q + p <= p * d
    BY <1>1, <1>2, <1>5
  <2> QED  BY <1>1, <1>3, <1>5, <2>1 DEF q
<1> QED  BY <1>1, <1>4, <1>5

\* To be within the tolerance of the functions on arrays: to be equal, or two
\* numbers whose distance is at most that fraction of the expected one.
Tolerated(f, g, p) ==
    \/ f = g
    \/ /\ {f.kind, g.kind} = {"finite"}
       /\ Distance(f.value, g.value) * p <= Distance(f.value, 0)

LEMMA ToleranceIs ==
  ASSUME NEW f \in Floats, NEW g \in Floats, NEW p \in Nat \ {0}
  PROVE  Assertions!UnityFloatsWithin(Assertions!Tolerance(f, p), f, g) <=> Tolerated(f, g, p)
<1> DEFINE tol == Assertions!Tolerance(f, p)
<1>1. Assertions!UnityFloatsWithin(tol, f, g) <=> (f.kind # "finite" /\ f = g) \/ Near(tol, f, g)
  BY FloatsWithinIs
<1>2. {f.kind, g.kind} = {"finite"} <=> f.kind = "finite" /\ g.kind = "finite"
  OBVIOUS
<1>3. CASE f.kind = "finite" /\ g.kind = "finite"
  <2>1. f.value \in Int /\ g.value \in Int /\ f = Assertions!Finite(f.value)
        /\ g = Assertions!Finite(g.value)
    <3>1. f.value \in Assertions!INT /\ g.value \in Assertions!INT
      BY <1>3, FloatIs
    <3> QED  BY <1>3, <3>1, Casts, FloatIs
  <2> DEFINE x == Assertions!Magnitude(f.value)
             d == Assertions!Magnitude(g.value - f.value)
  <2>2. x \in Nat /\ d \in Nat /\ x = Distance(f.value, 0) /\ d = Distance(f.value, g.value)
    BY <2>1 DEF Assertions!Magnitude, Distance
  <2>3. tol = Assertions!Finite(x \div p)
    BY <1>3 DEF Assertions!Tolerance
  <2> HIDE DEF x, tol
  <2>4. x \div p \in Nat
    BY <2>2, Quotient
  <2>5. tol.kind = "finite" /\ Assertions!Magnitude(tol.value) = x \div p
    BY <2>3, <2>4 DEF Assertions!Finite, Assertions!Magnitude
  <2>6. Near(tol, f, g) <=> d <= x \div p
    BY <1>3, <2>5 DEF Near
  <2> HIDE DEF d
  <2>7. d <= x \div p <=> d * p <= x
    BY <2>2, Fraction
  <2>8. f = g => d * p <= x
    <3>1. f = g => d = 0
      BY <2>1, <2>2 DEF Distance
    <3>2. 0 * p = 0 /\ 0 <= x
      BY <2>2
    <3> QED  BY <3>1, <3>2
  <2>9. Tolerated(f, g, p) <=> d * p <= x
    BY <1>2, <1>3, <2>2, <2>8, Zenon DEF Tolerated
  <2> QED  BY <1>1, <1>3, <2>6, <2>7, <2>9, Zenon DEF tol
<1>4. CASE ~ (f.kind = "finite" /\ g.kind = "finite")
  <2>1. ~ Near(tol, f, g)
    BY <1>4 DEF Near
  <2>2. f = g => f.kind # "finite"
    BY <1>4
  <2> QED  BY <1>1, <1>2, <1>4, <2>1, <2>2 DEF Tolerated
<1> QED  BY <1>3, <1>4

-----------------------------------------------------------------------------
(* The assertions on arrays *)

\* There are elements, and they are the same; the first one is all of the others.
Same(c, d, n) == n # 0 /\ \A k \in 1..n : c[k] = d[k]
AllFirst(c, d, n) == n # 0 /\ \A k \in 1..n : c[1] = d[k]

\* What the two pointers point to; neither is NULL.
LEMMA MemoryIs ==
  ASSUME NEW c, NEW d
  PROVE  /\ Memory(c, d)["p"] = c /\ Memory(c, d)["q"] = d
         /\ "p" # "q" /\ ~ Assertions!UnityIsOneArrayNull("p", "q")
  BY AssertionsAssumption DEF Memory, Assertions!UnityIsOneArrayNull

\* UnityAssertEqualIntArray compares the elements, or the first one with all.
LEMMA IntArrayIs ==
  ASSUME NEW c, NEW d, NEW n
  PROVE  /\ Assertions!UnityAssertEqualIntArray(Memory(c, d), "p", "q", n, FALSE)
               <=> Same(c, d, n)
         /\ Assertions!UnityAssertEqualIntArray(Memory(c, d), "p", "q", n, TRUE)
               <=> AllFirst(c, d, n)
         /\ ~ Assertions!UnityAssertEqualIntArray(Memory(c, d), NoText, "q", n, FALSE)
<1> DEFINE mem == Memory(c, d)
<1>1. mem["p"] = c /\ mem["q"] = d /\ "p" # "q" /\ ~ Assertions!UnityIsOneArrayNull("p", "q")
  BY MemoryIs
<1>2. NoText # "q" /\ Assertions!UnityIsOneArrayNull(NoText, "q")
  BY AssertionsAssumption DEF Assertions!UnityIsOneArrayNull
<1> HIDE DEF mem
<1>3. /\ Assertions!UnityAssertEqualIntArray(mem, "p", "q", n, FALSE)
               <=> n # 0 /\ \A k \in 1..n : mem["p"][k] = mem["q"][k]
      /\ Assertions!UnityAssertEqualIntArray(mem, "p", "q", n, TRUE)
               <=> n # 0 /\ \A k \in 1..n : mem["p"][1] = mem["q"][k]
      /\ ~ Assertions!UnityAssertEqualIntArray(mem, NoText, "q", n, FALSE)
  BY <1>1, <1>2 DEF Assertions!UnityAssertEqualIntArray, Assertions!Arrays, Assertions!Expected
<1> QED  BY <1>1, <1>3 DEF mem, Same, AllFirst

\* UnityAssertEqualMemory does the same, for elements of one or of n bytes.
LEMMA MemoryArrayIs ==
  ASSUME NEW c, NEW d, NEW n \in 0..ELEMENTS
  PROVE  /\ Assertions!UnityAssertEqualMemory(Memory(c, d), "p", "q", n, 1, FALSE)
               <=> Same(c, d, n)
         /\ Assertions!UnityAssertEqualMemory(Memory(c, d), "p", "q", 1, n, FALSE)
               <=> Same(c, d, n)
         /\ Assertions!UnityAssertEqualMemory(Memory(c, d), "p", "q", 1, n, TRUE)
               <=> AllFirst(c, d, n)
<1>0. n \in Nat
  BY AssertionsAssumption
<1> DEFINE mem == Memory(c, d)
<1>1. mem["p"] = c /\ mem["q"] = d /\ "p" # "q" /\ ~ Assertions!UnityIsOneArrayNull("p", "q")
  BY MemoryIs
<1> HIDE DEF mem
<1>2. ASSUME NEW length \in Nat, NEW elements \in Nat
      PROVE  /\ Assertions!UnityAssertEqualMemory(mem, "p", "q", length, elements, FALSE)
                   <=> /\ elements # 0 /\ length # 0
                       /\ \A k \in 0..elements * length - 1 : c[k + 1] = d[k + 1]
             /\ Assertions!UnityAssertEqualMemory(mem, "p", "q", length, elements, TRUE)
                   <=> /\ elements # 0 /\ length # 0
                       /\ \A k \in 0..elements * length - 1 : c[(k % length) + 1] = d[k + 1]
  BY <1>1 DEF Assertions!UnityAssertEqualMemory
<1>3. 1 * n = n /\ n * 1 = n
  BY <1>0
<1>4. (\A k \in 0..n - 1 : c[k + 1] = d[k + 1]) <=> \A k \in 1..n : c[k] = d[k]
  <2>1. ASSUME \A k \in 0..n - 1 : c[k + 1] = d[k + 1], NEW k \in 1..n PROVE c[k] = d[k]
    <3>1. k - 1 \in 0..n - 1 /\ (k - 1) + 1 = k
      BY <1>0
    <3> QED  BY <2>1, <3>1
  <2> QED  BY <1>0, <2>1
<1>5. (\A k \in 0..n - 1 : c[(k % 1) + 1] = d[k + 1]) <=> \A k \in 1..n : c[1] = d[k]
  <2>1. \A k \in 0..n - 1 : (k % 1) + 1 = 1
    BY <1>0, Modulo
  <2>2. ASSUME \A k \in 0..n - 1 : c[1] = d[k + 1], NEW k \in 1..n PROVE c[1] = d[k]
    <3>1. k - 1 \in 0..n - 1 /\ (k - 1) + 1 = k
      BY <1>0
    <3> QED  BY <2>2, <3>1
  <2> QED  BY <1>0, <2>1, <2>2
<1>6. Assertions!UnityAssertEqualMemory(mem, "p", "q", n, 1, FALSE)
         <=> Same(c, d, n)
  <2>1. Assertions!UnityAssertEqualMemory(mem, "p", "q", n, 1, FALSE)
           <=> /\ 1 # 0 /\ n # 0
               /\ \A k \in 0..1 * n - 1 : c[k + 1] = d[k + 1]
    <3>1. 1 \in Nat
      OBVIOUS
    <3> QED  BY <1>0, <1>2, <3>1, Zenon
  <2>2. 1 # 0
    OBVIOUS
  <2> QED  BY <1>3, <1>4, <2>1, <2>2, Zenon DEF Same, AllFirst
<1>7. Assertions!UnityAssertEqualMemory(mem, "p", "q", 1, n, FALSE)
         <=> Same(c, d, n)
  <2>1. Assertions!UnityAssertEqualMemory(mem, "p", "q", 1, n, FALSE)
           <=> /\ n # 0 /\ 1 # 0
               /\ \A k \in 0..n * 1 - 1 : c[k + 1] = d[k + 1]
    <3>1. 1 \in Nat
      OBVIOUS
    <3> QED  BY <1>0, <1>2, <3>1, Zenon
  <2>2. 1 # 0
    OBVIOUS
  <2> QED  BY <1>3, <1>4, <2>1, <2>2, Zenon DEF Same, AllFirst
<1>8. Assertions!UnityAssertEqualMemory(mem, "p", "q", 1, n, TRUE)
         <=> AllFirst(c, d, n)
  <2>1. Assertions!UnityAssertEqualMemory(mem, "p", "q", 1, n, TRUE)
           <=> /\ n # 0 /\ 1 # 0
               /\ \A k \in 0..n * 1 - 1 : c[(k % 1) + 1] = d[k + 1]
    <3>1. 1 \in Nat
      OBVIOUS
    <3> QED  BY <1>0, <1>2, <3>1, Zenon
  <2>2. 1 # 0
    OBVIOUS
  <2> QED  BY <1>3, <1>5, <2>1, <2>2, Zenon DEF Same, AllFirst
<1> QED  BY <1>6, <1>7, <1>8 DEF mem

\* What EqualIsEqual says of arrays of ints.
LEMMA ArraysEqual ==
  ASSUME NEW c \in [1..ELEMENTS -> Values], NEW d \in [1..ELEMENTS -> Values],
         NEW n \in 0..ELEMENTS, NEW same \in BOOLEAN,
         same <=> (n > 0 /\ SubSeq(c, 1, n) = SubSeq(d, 1, n))
  PROVE  /\ Assertions!UnityAssertEqualIntArray(Memory(c, d), "p", "q", n, FALSE) <=> same
         /\ Assertions!UnityAssertEqualMemory(Memory(c, d), "p", "q", n, 1, FALSE) <=> same
         /\ Assertions!UnityAssertEqualMemory(Memory(c, d), "p", "q", 1, n, FALSE) <=> same
         /\ Assertions!UnityAssertEqualMemory(Memory(c, d), "p", "q", 1, n, TRUE)
               <=> Assertions!UnityAssertEqualIntArray(Memory(c, d), "p", "q", n, TRUE)
         /\ ~ Assertions!UnityAssertEqualIntArray(Memory(c, d), NoText, "q", n, FALSE)
<1>1. ELEMENTS \in Nat /\ n \in Nat
  BY AssertionsAssumption
<1>2. same <=> Same(c, d, n)
  <2>1. c \in Seq(Values) /\ d \in Seq(Values) /\ Len(c) = ELEMENTS /\ Len(d) = ELEMENTS
    BY <1>1
  <2>2. SubSeq(c, 1, n) = SubSeq(d, 1, n) <=> \A k \in 1..n : c[k] = d[k]
    <3>1. /\ SubSeq(c, 1, n) = [k \in 1..n |-> c[k]]
          /\ SubSeq(d, 1, n) = [k \in 1..n |-> d[k]]
      BY <1>1, <2>1
    <3> QED  BY <3>1
  <2>3. n > 0 <=> n # 0
    BY <1>1
  <2> QED  BY <2>2, <2>3, Zenon DEF Same
<1>3. /\ Assertions!UnityAssertEqualIntArray(Memory(c, d), "p", "q", n, FALSE)
               <=> Same(c, d, n)
      /\ Assertions!UnityAssertEqualIntArray(Memory(c, d), "p", "q", n, TRUE)
               <=> AllFirst(c, d, n)
      /\ ~ Assertions!UnityAssertEqualIntArray(Memory(c, d), NoText, "q", n, FALSE)
  BY IntArrayIs, Zenon
<1>4. Assertions!UnityAssertEqualMemory(Memory(c, d), "p", "q", n, 1, FALSE)
         <=> Same(c, d, n)
  BY MemoryArrayIs, Zenon
<1>5. Assertions!UnityAssertEqualMemory(Memory(c, d), "p", "q", 1, n, FALSE)
         <=> Same(c, d, n)
  BY MemoryArrayIs, Zenon
<1>6. Assertions!UnityAssertEqualMemory(Memory(c, d), "p", "q", 1, n, TRUE)
         <=> AllFirst(c, d, n)
  BY MemoryArrayIs, Zenon
<1> QED  BY <1>2, <1>3, <1>4, <1>5, <1>6, Zenon

\* What EqualIsEqual says of arrays of floating point numbers.
LEMMA FloatArraysEqual ==
  ASSUME NEW f \in Floats, NEW g \in Floats, NEW n \in 0..1, NEW p \in Nat \ {0}
  PROVE  Assertions!UnityAssertEqualFloatArray(Memory(<<f>>, <<g>>), "p", "q", n, FALSE, p)
            <=> n = 1 /\ Tolerated(f, g, p)
<1> DEFINE mem == Memory(<<f>>, <<g>>)
           Equal(e, a) == Assertions!UnityFloatsWithin(Assertions!Tolerance(e, p), e, a)
<1>1. mem["p"] = <<f>> /\ mem["q"] = <<g>> /\ "p" # "q"
      /\ ~ Assertions!UnityIsOneArrayNull("p", "q")
  BY MemoryIs
<1>2. Equal(f, g) <=> Tolerated(f, g, p)
  BY ToleranceIs
<1>3. Assertions!UnityAssertEqualFloatArray(mem, "p", "q", n, FALSE, p)
         <=> n # 0 /\ \A k \in 1..n : Equal(mem["p"][k], mem["q"][k])
  <2> HIDE DEF mem
  <2> QED  BY <1>1, Zenon DEF Assertions!UnityAssertEqualFloatArray, Assertions!Arrays,
                              Assertions!Expected
<1> HIDE DEF mem, Equal
<1>4. n = 1 => ((\A k \in 1..n : Equal(mem["p"][k], mem["q"][k])) <=> Equal(f, g))
  BY <1>1
<1>5. (n = 0 \/ n = 1) /\ 0 # 1
  OBVIOUS
<1> QED  BY <1>2, <1>3, <1>4, <1>5, Zenon DEF mem

-----------------------------------------------------------------------------
(* The assertions on strings, and opposites *)

\* A string and the NUL after it.
Padded(string, i, nul) == IF i <= Len(string) THEN string[i] ELSE nul

\* What agrees up to the end of both is one string.
LEMMA PaddedEqual ==
  ASSUME NEW A, NEW s \in Seq(A), NEW t \in Seq(A), NEW nul, nul \notin A
  PROVE  (\A i \in 1..Len(s) + Len(t) : Padded(s, i, nul) = Padded(t, i, nul)) <=> s = t
<1> SUFFICES ASSUME \A i \in 1..Len(s) + Len(t) : Padded(s, i, nul) = Padded(t, i, nul)
             PROVE  s = t
  OBVIOUS
<1>0. Len(s) \in Nat /\ Len(t) \in Nat
  OBVIOUS
<1>1. ASSUME NEW i \in 1..Len(s) PROVE i <= Len(t) /\ s[i] = t[i]
  <2>1. i \in 1..Len(s) + Len(t)
    BY <1>0
  <2>2. s[i] = Padded(t, i, nul) /\ s[i] \in A
    BY <1>0, <2>1 DEF Padded
  <2> QED  BY <2>2 DEF Padded
<1>2. ASSUME NEW i \in 1..Len(t) PROVE i <= Len(s)
  <2>1. i \in 1..Len(s) + Len(t)
    BY <1>0
  <2>2. t[i] = Padded(s, i, nul) /\ t[i] \in A
    BY <1>0, <2>1 DEF Padded
  <2> QED  BY <2>2 DEF Padded
<1>3. Len(s) = Len(t)
  <2>1. Len(s) > 0 => Len(s) <= Len(t)
    BY <1>0, <1>1
  <2>2. Len(t) > 0 => Len(t) <= Len(s)
    BY <1>0, <1>2
  <2> QED  BY <1>0, <2>1, <2>2
<1> QED  BY <1>1, <1>3

\* What EqualIsEqual says of strings, NULL among them.
LEMMA StringsEqual ==
  ASSUME NEW s \in Strings \cup {NoText}, NEW t \in Strings \cup {NoText}
  PROVE  Assertions!UnityAssertEqualString(s, t) <=> s = t
<1>1. CASE s # NoText /\ t # NoText
  <2>1. s \in Seq(Alphabet) /\ t \in Seq(Alphabet)
    BY <1>1, AssertionsAssumption
  <2>2. \A i : /\ Assertions!CharAt(s, i) = Padded(s, i, "NUL")
               /\ Assertions!CharAt(t, i) = Padded(t, i, "NUL")
    BY Zenon DEF Assertions!CharAt, Padded
  <2>3. Assertions!UnityAssertEqualString(s, t)
           <=> \A i \in 1..Len(s) + Len(t) : Assertions!CharAt(s, i) = Assertions!CharAt(t, i)
    BY <1>1, Zenon DEF Assertions!UnityAssertEqualString, Assertions!UnityAssertEqualStringLen
  <2>4. (\A i \in 1..Len(s) + Len(t) : Padded(s, i, "NUL") = Padded(t, i, "NUL")) <=> s = t
    <3>1. "NUL" \notin Alphabet
      BY AssertionsAssumption
    <3> QED  BY <2>1, <3>1, PaddedEqual
  <2> QED  BY <2>2, <2>3, <2>4, Zenon
<1>2. CASE s = NoText \/ t = NoText
  BY <1>2, Zenon DEF Assertions!UnityAssertEqualString, Assertions!UnityAssertEqualStringLen
<1> QED  BY <1>1, <1>2

\* What EqualIsEqual says of arrays of strings.
LEMMA StringArraysEqual ==
  ASSUME NEW s \in Strings \cup {NoText}, NEW t \in Strings \cup {NoText}
  PROVE  /\ Assertions!UnityAssertEqualStringArray(Memory(<<s, t>>, <<t, t>>), "p", "q", 2, FALSE)
               <=> s = t
         /\ Assertions!UnityAssertEqualStringArray(Memory(s, <<s, t>>), "p", "q", 2, TRUE)
               <=> s = t
         /\ ~ Assertions!UnityAssertEqualStringArray(Memory(s, <<t>>), NoText, "q", 1, TRUE)
<1>1. "p" # "q" /\ ~ Assertions!UnityIsOneArrayNull("p", "q") /\ 2 # 0
  BY MemoryIs
<1>2. 1..2 = {1, 2}
  OBVIOUS
<1>3. /\ Assertions!UnityAssertEqualString(s, t) <=> s = t
      /\ Assertions!UnityAssertEqualString(s, s)
      /\ Assertions!UnityAssertEqualString(t, t)
  BY StringsEqual
<1>4. ASSUME NEW c, NEW d
      PROVE  /\ Assertions!UnityAssertEqualStringArray(Memory(c, d), "p", "q", 2, FALSE)
                   <=> \A k \in 1..2 : Assertions!UnityAssertEqualString(c[k], d[k])
             /\ Assertions!UnityAssertEqualStringArray(Memory(c, d), "p", "q", 2, TRUE)
                   <=> \A k \in 1..2 : Assertions!UnityAssertEqualString(c, d[k])
  <2> DEFINE mem == Memory(c, d)
  <2>1. mem["p"] = c /\ mem["q"] = d
    BY MemoryIs
  <2> HIDE DEF mem
  <2>2. /\ Assertions!UnityAssertEqualStringArray(mem, "p", "q", 2, FALSE)
               <=> \A k \in 1..2 : Assertions!UnityAssertEqualString(mem["p"][k], mem["q"][k])
        /\ Assertions!UnityAssertEqualStringArray(mem, "p", "q", 2, TRUE)
               <=> \A k \in 1..2 : Assertions!UnityAssertEqualString(mem["p"], mem["q"][k])
    BY <1>1, Zenon DEF Assertions!UnityAssertEqualStringArray, Assertions!Arrays
  <2> QED  BY <2>1, <2>2 DEF mem
<1>5. Assertions!UnityAssertEqualStringArray(Memory(<<s, t>>, <<t, t>>), "p", "q", 2, FALSE)
         <=> s = t
  <2>1. <<s, t>>[1] = s /\ <<s, t>>[2] = t /\ <<t, t>>[1] = t /\ <<t, t>>[2] = t
    OBVIOUS
  <2> QED  BY <1>2, <1>3, <1>4, <2>1
<1>6. Assertions!UnityAssertEqualStringArray(Memory(s, <<s, t>>), "p", "q", 2, TRUE) <=> s = t
  <2>1. <<s, t>>[1] = s /\ <<s, t>>[2] = t
    OBVIOUS
  <2> QED  BY <1>2, <1>3, <1>4, <2>1
<1>7. NoText # "q" /\ Assertions!UnityIsOneArrayNull(NoText, "q")
  BY AssertionsAssumption DEF Assertions!UnityIsOneArrayNull
<1>8. ~ Assertions!UnityAssertEqualStringArray(Memory(s, <<t>>), NoText, "q", 1, TRUE)
  BY <1>7, Zenon DEF Assertions!UnityAssertEqualStringArray, Assertions!Arrays
<1> QED  BY <1>5, <1>6, <1>8

\* A comparison holds exactly if its opposite does not.
LEMMA Opposites ==
  ASSUME NEW t \in Assertions!INT, NEW a \in Assertions!INT, NEW signed \in BOOLEAN
  PROVE  LET Holds(compare) ==
                 Assertions!UnityAssertGreaterOrLessOrEqualNumber(t, a, compare, signed)
         IN  /\ Holds({"GREATER_THAN"}) <=> ~ Holds({"SMALLER_THAN", "EQUAL_TO"})
             /\ Holds({"SMALLER_THAN"}) <=> ~ Holds({"GREATER_THAN", "EQUAL_TO"})
<1> DEFINE b == IF signed THEN a ELSE Assertions!Unsigned(a)
           u == IF signed THEN t ELSE Assertions!Unsigned(t)
<1>1. b \in Int /\ u \in Int /\ (b = u <=> a = t)
  <2>1. PICK m \in Nat \ {0}, half \in Nat \ {0} :
           /\ m = 2 * half
           /\ \A n : n \in Assertions!INT <=> n \in -half..half - 1
           /\ \A n \in Assertions!INT : Assertions!Unsigned(n) = Cast(n, m)
    BY Casts
  <2>2. a \in -half..half - 1 /\ t \in -half..half - 1
    BY <2>1
  <2>3. /\ Assertions!Unsigned(a) = IF a < 0 THEN a + m ELSE a
        /\ Assertions!Unsigned(t) = IF t < 0 THEN t + m ELSE t
    BY <2>1 DEF Cast
  <2>4. CASE signed
    BY <2>2, <2>4
  <2>5. CASE ~ signed
    <3>1. b = Assertions!Unsigned(a) /\ u = Assertions!Unsigned(t)
      BY <2>5
    <3> HIDE DEF b, u
    <3> QED  BY <2>1, <2>2, <2>3, <3>1
  <2> QED  BY <2>4, <2>5
<1>2. \A compare : Assertions!UnityAssertGreaterOrLessOrEqualNumber(t, a, compare, signed) <=>
         IF t = a THEN "EQUAL_TO" \in compare
         ELSE (b > u => "SMALLER_THAN" \notin compare) /\ (b < u => "GREATER_THAN" \notin compare)
  BY Zenon DEF Assertions!UnityAssertGreaterOrLessOrEqualNumber
<1> HIDE DEF b, u
<1>3. a = t \/ (b > u /\ ~ b < u /\ a # t) \/ (b < u /\ ~ b > u /\ a # t)
  BY <1>1
<1>4. /\ "EQUAL_TO" \notin {"GREATER_THAN"} /\ "SMALLER_THAN" \notin {"GREATER_THAN"}
      /\ "EQUAL_TO" \notin {"SMALLER_THAN"} /\ "GREATER_THAN" \notin {"SMALLER_THAN"}
      /\ "GREATER_THAN" \notin {"SMALLER_THAN", "EQUAL_TO"}
      /\ "SMALLER_THAN" \notin {"GREATER_THAN", "EQUAL_TO"}
  OBVIOUS
<1>5. CASE a = t
  BY <1>2, <1>4, <1>5, Zenon
<1>6. CASE b > u /\ ~ b < u /\ a # t
  BY <1>2, <1>4, <1>6, Zenon
<1>7. CASE b < u /\ ~ b > u /\ a # t
  BY <1>2, <1>4, <1>7, Zenon
<1> QED  BY <1>3, <1>5, <1>6, <1>7, Zenon

\* The trait a floating point number has.
Trait(f) == IF f.kind = "finite" THEN "det" ELSE f.kind

\* UnityAssertFloatSpecial holds of one trait, and its opposite of the others.
LEMMA OneTrait ==
  ASSUME NEW f \in Floats
  PROVE  /\ \A trait \in {"inf", "neg_inf", "nan", "det"}, should \in BOOLEAN :
               Assertions!UnityAssertFloatSpecial(f, trait, should) <=> ((trait = Trait(f)) <=> should)
         /\ Trait(f) \in {"inf", "neg_inf", "nan", "det"}
<1>1. /\ f.kind \in {"finite", "inf", "neg_inf", "nan"}
      /\ f = Assertions!Inf    <=> f.kind = "inf"
      /\ f = Assertions!NegInf <=> f.kind = "neg_inf"
      /\ f = Assertions!NaN    <=> f.kind = "nan"
  BY FloatIs
<1>2. Trait(f) \in {"inf", "neg_inf", "nan", "det"}
  BY <1>1 DEF Trait
<1>3. ASSUME NEW should \in BOOLEAN
      PROVE  /\ Assertions!UnityAssertFloatSpecial(f, "inf", should)
                   <=> ((f = Assertions!Inf) = should)
             /\ Assertions!UnityAssertFloatSpecial(f, "neg_inf", should)
                   <=> ((f = Assertions!NegInf) = should)
             /\ Assertions!UnityAssertFloatSpecial(f, "nan", should)
                   <=> ((f = Assertions!NaN) = should)
             /\ Assertions!UnityAssertFloatSpecial(f, "det", should)
                   <=> ((f \notin {Assertions!Inf, Assertions!NegInf, Assertions!NaN}) = should)
  BY DEF Assertions!UnityAssertFloatSpecial, Assertions!isinf
<1>4. ASSUME NEW should \in BOOLEAN, NEW trait \in {"inf", "neg_inf", "nan", "det"}
      PROVE  Assertions!UnityAssertFloatSpecial(f, trait, should) <=> ((trait = Trait(f)) <=> should)
  <2>1. CASE trait = "inf"
    BY <1>1, <1>3, <2>1 DEF Trait
  <2>2. CASE trait = "neg_inf"
    BY <1>1, <1>3, <2>2 DEF Trait
  <2>3. CASE trait = "nan"
    BY <1>1, <1>3, <2>3 DEF Trait
  <2>4. CASE trait = "det"
    BY <1>1, <1>3, <2>4 DEF Trait
  <2> QED  BY <1>4, <2>1, <2>2, <2>3, <2>4
<1> QED  BY <1>2, <1>4

\* Distances of ints and of floating point numbers.
LEMMA Within == WithinIsDistance
<1>1. \A e, a \in Assertions!INT, delta \in Assertions!UINT :
           /\ Assertions!UnityAssertNumbersWithin(delta, e, a, TRUE) <=> Distance(e, a) <= delta
           /\ Assertions!UnityAssertNumbersWithin(delta, e, a, FALSE) <=>
                  Distance(Assertions!Unsigned(e), Assertions!Unsigned(a)) <= delta
  BY WithinInts
<1>2. \A e, a, delta \in Floats :
           /\ Assertions!UnityAssertFloatsWithin(delta, e, a)
                  <=> Assertions!UnityAssertFloatsWithin(delta, a, e)
           /\ Assertions!UnityAssertFloatsWithin(delta, e, a) /\ e.kind # "finite" => e = a
  BY WithinFloats
<1> QED  BY <1>1, <1>2, Zenon DEF WithinIsDistance

\* Equality of ints, floating point numbers and strings.
LEMMA Equals == EqualIsEqual
<1>1. ASSUME NEW c \in [1..ELEMENTS -> Values], NEW d \in [1..ELEMENTS -> Values],
             NEW n \in 0..ELEMENTS
      PROVE  LET mem  == Memory(c, d)
                 same == n > 0 /\ SubSeq(c, 1, n) = SubSeq(d, 1, n)
             IN  /\ Assertions!UnityAssertEqualIntArray(mem, "p", "q", n, FALSE) <=> same
                 /\ Assertions!UnityAssertEqualMemory(mem, "p", "q", n, 1, FALSE) <=> same
                 /\ Assertions!UnityAssertEqualMemory(mem, "p", "q", 1, n, FALSE) <=> same
                 /\ Assertions!UnityAssertEqualMemory(mem, "p", "q", 1, n, TRUE)
                        <=> Assertions!UnityAssertEqualIntArray(mem, "p", "q", n, TRUE)
                 /\ ~ Assertions!UnityAssertEqualIntArray(mem, NoText, "q", n, FALSE)
  <2> DEFINE same == n > 0 /\ SubSeq(c, 1, n) = SubSeq(d, 1, n)
  <2>1. same \in BOOLEAN /\ (same <=> n > 0 /\ SubSeq(c, 1, n) = SubSeq(d, 1, n))
    OBVIOUS
  <2>2. /\ Assertions!UnityAssertEqualIntArray(Memory(c, d), "p", "q", n, FALSE) <=> same
        /\ Assertions!UnityAssertEqualMemory(Memory(c, d), "p", "q", n, 1, FALSE) <=> same
        /\ Assertions!UnityAssertEqualMemory(Memory(c, d), "p", "q", 1, n, FALSE) <=> same
        /\ Assertions!UnityAssertEqualMemory(Memory(c, d), "p", "q", 1, n, TRUE)
              <=> Assertions!UnityAssertEqualIntArray(Memory(c, d), "p", "q", n, TRUE)
        /\ ~ Assertions!UnityAssertEqualIntArray(Memory(c, d), NoText, "q", n, FALSE)
    <3> HIDE DEF same
    <3> QED  BY <2>1, ArraysEqual
  <2> QED  BY <2>2, Zenon
<1>2. \A f, g \in Floats, n \in 0..1, precision \in 1..2^UNITY_BITS :
           Assertions!UnityAssertEqualFloatArray(Memory(<<f>>, <<g>>), "p", "q", n, FALSE,
                                                 precision)
               <=> /\ n = 1
                   /\ \/ f = g
                      \/ /\ {f.kind, g.kind} = {"finite"}
                         /\ Distance(f.value, g.value) * precision <= Distance(f.value, 0)
  <2> SUFFICES ASSUME NEW f \in Floats, NEW g \in Floats, NEW n \in 0..1,
                      NEW precision \in 1..2^UNITY_BITS
               PROVE  Assertions!UnityAssertEqualFloatArray(Memory(<<f>>, <<g>>), "p", "q", n,
                                                            FALSE, precision)
                         <=> n = 1 /\ Tolerated(f, g, precision)
    BY Zenon DEF Tolerated
  <2>1. precision \in Nat \ {0}
    BY Casts
  <2> QED  BY <2>1, FloatArraysEqual
<1>3. \A s, t \in Strings \cup {NoText} :
           /\ Assertions!UnityAssertEqualString(s, t) <=> s = t
           /\ Assertions!UnityAssertEqualStringArray(Memory(<<s, t>>, <<t, t>>), "p", "q", 2, FALSE)
                  <=> s = t
           /\ s # NoText =>
                  (Assertions!UnityAssertEqualStringArray(Memory(s, <<s, t>>), "p", "q", 2, TRUE)
                       <=> s = t)
           /\ ~ Assertions!UnityAssertEqualStringArray(Memory(s, <<t>>), NoText, "q", 1, TRUE)
  BY StringsEqual, StringArraysEqual
<1> QED  BY <1>1, <1>2, <1>3, Zenon DEF EqualIsEqual

\* Opposites, and the traits of floating point numbers.
LEMMA Differ == OppositesDiffer
<1>1. ASSUME NEW t \in Assertions!INT, NEW a \in Assertions!INT, NEW signed \in BOOLEAN
      PROVE  LET Holds(compare) ==
                     Assertions!UnityAssertGreaterOrLessOrEqualNumber(t, a, compare, signed)
             IN  /\ Holds({"GREATER_THAN"}) <=> ~ Holds({"SMALLER_THAN", "EQUAL_TO"})
                 /\ Holds({"SMALLER_THAN"}) <=> ~ Holds({"GREATER_THAN", "EQUAL_TO"})
  BY Opposites
<1>2. \A f \in Floats, trait \in {"inf", "neg_inf", "nan", "det"} :
           Assertions!UnityAssertFloatSpecial(f, trait, TRUE)
               <=> ~ Assertions!UnityAssertFloatSpecial(f, trait, FALSE)
  BY OneTrait
<1>3. ASSUME NEW f \in Floats
      PROVE  Cardinality({trait \in {"inf", "neg_inf", "nan", "det"} :
                            Assertions!UnityAssertFloatSpecial(f, trait, TRUE)}) = 1
  <2>1. {trait \in {"inf", "neg_inf", "nan", "det"} :
            Assertions!UnityAssertFloatSpecial(f, trait, TRUE)} = {Trait(f)}
    BY OneTrait
  <2> QED  BY <2>1, FS_Singleton
<1> QED  BY <1>1, <1>2, <1>3, Zenon DEF OppositesDiffer

-----------------------------------------------------------------------------
(* Quotients, remainders and digits in any base *)

\* There is one quotient.
LEMMA OneQuotient ==
  ASSUME NEW p \in Nat \ {0}, NEW q \in Int, NEW r \in 0..p - 1,
         NEW k \in Int, NEW s \in 0..p - 1, p * q + r = p * k + s
  PROVE  q = k /\ r = s
<1>1. \A i \in Int, j \in Int : i < j => p * i + p <= p * j
  <2> TAKE i \in Int, j \in Int
  <2> HAVE i < j
  <2>1. j - i - 1 \in Nat
    OBVIOUS
  <2>2. p * (j - i - 1) \in Nat
    BY <2>1
  <2>3. p * (j - i - 1) = p * j - p * i - p
    OBVIOUS
  <2>4. p * i \in Int /\ p * j \in Int
    OBVIOUS
  <2> QED  BY <2>2, <2>3, <2>4
<1>2. ~ q < k
  BY <1>1
<1>3. ~ k < q
  BY <1>1
<1>4. q = k
  BY <1>2, <1>3
<1>5. p * q \in Int
  OBVIOUS
<1> QED  BY <1>4, <1>5

\* Divided twice is divided by the product.
LEMMA DividedTwice ==
  ASSUME NEW x \in Nat, NEW p \in Nat \ {0}, NEW b \in Nat \ {0}
  PROVE  /\ x \div p = b * (x \div (b * p)) + ((x \div p) % b)
         /\ x % (b * p) = p * ((x \div p) % b) + (x % p)
<1> DEFINE q == x \div p
           r == x % p
           k == q \div b
           d == q % b
           m == x \div (b * p)
           t == x % (b * p)
<1>1. q \in Nat /\ r \in 0..p - 1 /\ x = p * q + r
  BY Quotient
<1>2. k \in Nat /\ d \in 0..b - 1 /\ q = b * k + d
  <2> HIDE DEF q
  <2> QED  BY <1>1, Quotient
<1>3. b * p \in Nat \ {0}
  OBVIOUS
<1>4. m \in Nat /\ t \in 0..b * p - 1 /\ x = (b * p) * m + t
  BY <1>3, Quotient
<1> HIDE DEF q, r, k, d, m, t
<1>5. p * d + r \in 0..b * p - 1
  <2>1. p * (b - 1 - d) \in Nat
    BY <1>2
  <2>2. p * (b - 1 - d) = b * p - p - p * d
    BY <1>2
  <2>3. p * d \in Nat
    BY <1>2
  <2> QED  BY <1>1, <1>3, <2>1, <2>2, <2>3
<1>6. x = (b * p) * k + (p * d + r)
  <2>1. p * (b * k + d) = (b * p) * k + p * d
    BY <1>2
  <2>2. (b * p) * k \in Int /\ p * d \in Int
    BY <1>2, <1>3
  <2> QED  BY <1>1, <1>2, <2>1, <2>2
<1>7. k = m /\ p * d + r = t
  <2> DEFINE n == b * p
             u == p * d + r
  <2>1. n \in Nat \ {0} /\ u \in 0..n - 1 /\ t \in 0..n - 1 /\ n * k + u = n * m + t
    BY <1>3, <1>4, <1>5, <1>6
  <2>2. k \in Int /\ m \in Int
    BY <1>2, <1>4
  <2>3. k = m /\ u = t
    <3> HIDE DEF n, u
    <3> QED  BY <2>1, <2>2, OneQuotient
  <2> QED  BY <2>3
<1> QED  BY <1>2, <1>7 DEF m, q, d, r, t

\* p holds the powers of b, up to the m-th.
Powers(p, b, m) ==
    p \in [0..m -> Nat \ {0}] /\ p[0] = 1 /\ \A k \in 1..m : p[k] = b * p[k - 1]

\* The last m digits of two numbers in base b are the same.
Alike(x, y, p, b, m) == \A k \in 0..m - 1 : (x \div p[k]) % b = (y \div p[k]) % b

\* They are exactly if the numbers leave the same when divided by the m-th power.
LEMMA SameDigits ==
  ASSUME NEW b \in Nat \ {0}, NEW m \in Nat, NEW p, Powers(p, b, m),
         NEW x \in Nat, NEW y \in Nat
  PROVE  x % p[m] = y % p[m] <=> Alike(x, y, p, b, m)
<1>0. p \in [0..m -> Nat \ {0}] /\ p[0] = 1 /\ \A k \in 1..m : p[k] = b * p[k - 1]
  BY DEF Powers
<1> DEFINE Same_(i) == \A k \in 0..i - 1 : (x \div p[k]) % b = (y \div p[k]) % b
           S == {i \in 0..m : x % p[i] = y % p[i] <=> Same_(i)}
<1>1. 0 \in S
  <2>1. x % p[0] = 0 /\ y % p[0] = 0
    BY <1>0
  <2>2. Same_(0)
    OBVIOUS
  <2>3. 0 \in 0..m
    OBVIOUS
  <2> HIDE DEF Same_
  <2> QED  BY <2>1, <2>2, <2>3
<1>2. ASSUME NEW i \in 1..m, i - 1 \in S PROVE i \in S
  <2> DEFINE q == p[i - 1]
             c == (x \div q) % b
             d == (y \div q) % b
             r == x % q
             s == y % q
  <2>1. q \in Nat \ {0} /\ p[i] = b * q /\ i - 1 \in 0..m /\ i \in 0..m
    BY <1>0
  <2>2. /\ x % p[i] = q * c + r
        /\ y % p[i] = q * d + s
    <3>1. q \in Nat \ {0} /\ p[i] = b * q
      BY <2>1
    <3> HIDE DEF q
    <3>2. x % (b * q) = q * c + r /\ y % (b * q) = q * d + s
      BY <3>1, DividedTwice
    <3> QED  BY <3>1, <3>2
  <2>3. c \in Int /\ d \in Int /\ r \in 0..q - 1 /\ s \in 0..q - 1
    <3> HIDE DEF q
    <3>1. x \div q \in Nat /\ y \div q \in Nat /\ r \in 0..q - 1 /\ s \in 0..q - 1
      BY <2>1, Quotient
    <3>2. c \in 0..b - 1 /\ d \in 0..b - 1
      BY <3>1, Quotient
    <3> QED  BY <3>1, <3>2
  <2>4. Same_(i) <=> Same_(i - 1) /\ c = d
    <3>1. \A k : k \in 0..i - 1 <=> k \in 0..(i - 1) - 1 \/ k = i - 1
      OBVIOUS
    <3> QED  BY <3>1
  <2>5. r = s <=> Same_(i - 1)
    <3> HIDE DEF Same_
    <3> QED  BY <1>2
  <2> HIDE DEF c, d, r, s, q, Same_
  <2>6. q * c + r = q * d + s <=> c = d /\ r = s
    BY <2>1, <2>3, OneQuotient
  <2>7. x % p[i] = y % p[i] <=> Same_(i)
    BY <2>2, <2>4, <2>5, <2>6
  <2> QED  BY <2>1, <2>7
<1>3. 0..m \subseteq S
  <2> HIDE DEF S
  <2> QED  BY <1>1, <1>2, Induction
<1>4. m \in 0..m
  OBVIOUS
<1>5. m \in S
  <2> HIDE DEF S
  <2> QED  BY <1>3, <1>4
<1> QED  BY <1>5 DEF Alike

-----------------------------------------------------------------------------
(* Numbers printed in decimal *)

\* The recursive function in Divisors.
IsDivisor(divisor, w) ==
    divisor = [k \in 0..w |-> IF k = 0 THEN 1 ELSE 10 * divisor[k - 1]]

\* 2^0, as the number of subsets of the empty set.
LEMMA ZeroPower == 2^0 = 1
<1>1. IsFiniteSet({}) /\ Cardinality({}) = 0
  BY FS_EmptySet
<1>2. Cardinality(SUBSET {}) = 2^0
  BY <1>1, FS_SUBSET
<1>3. SUBSET {} = {{}}
  OBVIOUS
<1> QED  BY <1>2, <1>3, FS_Singleton

\* The divisors are the powers of ten, and grow faster than those of two.
LEMMA DivisorsAre ==
  /\ Wide!Divisors \in [0..PRINTED_BITS -> Nat \ {0}]
  /\ Wide!Divisors[0] = 1
  /\ \A k \in 1..PRINTED_BITS : Wide!Divisors[k] = 10 * Wide!Divisors[k - 1]
  /\ \A k \in 0..PRINTED_BITS : 2^k \in Nat /\ 2^k <= Wide!Divisors[k]
<1> DEFINE w == PRINTED_BITS
           step == [k \in 1..w |-> [v \in Int |-> 10 * v]]
<1>1. w \in Nat
  BY AssertionsAssumption
<1>2. \E f : IsDivisor(f, w)
  <2> HIDE DEF w
  <2>1. step \in [1..w -> [Int -> Int]] /\ 1 \in Int
    OBVIOUS
  <2>2. PICK f \in [0..w -> Int] : f[0] = 1 /\ \A k \in 1..w : f[k] = step[k][f[k - 1]]
    <3> HIDE DEF step
    <3> QED  BY <1>1, <2>1, Recursion
  <2>3. ASSUME NEW k \in 1..w PROVE f[k] = 10 * f[k - 1]
    <3>1. f[k] = step[k][f[k - 1]]
      BY <2>2
    <3>2. f[k - 1] \in Int
      BY <1>1
    <3> QED  BY <3>1, <3>2
  <2> HIDE DEF step
  <2>4. \A k \in 0..w : f[k] = IF k = 0 THEN 1 ELSE 10 * f[k - 1]
    BY <1>1, <2>2, <2>3
  <2>5. IsDivisor(f, w)
    BY <2>4 DEF IsDivisor
  <2> QED  BY <2>5
<1> DEFINE p == Wide!Divisors
<1>3. IsDivisor(p, w)
  BY <1>2, Zenon DEF Wide!Divisors, IsDivisor
<1> HIDE DEF w, p
<1>4. p = [k \in 0..w |-> p[k]] /\ \A k \in 0..w : p[k] = IF k = 0 THEN 1 ELSE 10 * p[k - 1]
  BY <1>3 DEF IsDivisor
<1>5. p[0] = 1 /\ \A k \in 1..w : p[k] = 10 * p[k - 1]
  <2>1. 0 \in 0..w /\ \A k \in 1..w : k \in 0..w /\ k # 0
    BY <1>1
  <2>2. \A k \in 0..w : p[k] = IF k = 0 THEN 1 ELSE 10 * p[k - 1]
    BY <1>4
  <2> QED  BY <2>1, <2>2, Zenon
<1> DEFINE S == {k \in 0..w : p[k] \in Nat \ {0} /\ 2^k \in Nat /\ 2^k <= p[k]}
<1>6. 0 \in S
  <2>1. 2^0 = 1
    BY ZeroPower
  <2>2. 0 \in 0..w
    BY <1>1
  <2> QED  BY <1>5, <2>1, <2>2
<1>7. ASSUME NEW k \in 1..w, k - 1 \in S PROVE k \in S
  <2>1. k - 1 \in Nat /\ (k - 1) + 1 = k /\ k \in 0..w
    BY <1>1
  <2>2. 2^k = 2 * 2^(k - 1)
    BY <2>1, PowerOfTwo
  <2> DEFINE u == 2^(k - 1)
  <2>3. u \in Nat /\ p[k - 1] \in Nat \ {0} /\ u <= p[k - 1] /\ p[k] = 10 * p[k - 1] /\ 2^k = 2 * u
    BY <1>5, <1>7, <2>2
  <2> HIDE DEF u
  <2>4. 2^k \in Nat /\ 2^k <= p[k] /\ p[k] \in Nat \ {0}
    BY <2>3
  <2> QED  BY <2>1, <2>4
<1>8. 0..w \subseteq S
  <2> HIDE DEF S
  <2> QED  BY <1>1, <1>6, <1>7, Induction
<1>9. \A k \in 0..w : p[k] \in Nat \ {0} /\ 2^k \in Nat /\ 2^k <= p[k]
  BY <1>8
<1>10. p \in [0..w -> Nat \ {0}]
  BY <1>4, <1>9
<1> QED  BY <1>5, <1>9, <1>10 DEF w, p

\* The characters of the digits.
LEMMA DigitsPrinted ==
  ASSUME NEW d \in 0..9
  PROVE  /\ IsDigit(Wide!DecDigits[d + 1])
         /\ DigitValue(Wide!DecDigits[d + 1]) = d
         /\ Wide!DecDigits[d + 1] \in ToSet(Digits)
<1>1. Wide!DecDigits = Digits
  BY DEF Wide!DecDigits, Digits
<1>2. d + 1 \in 1..10 /\ (d + 1) - 1 = d
  OBVIOUS
<1>3. IsDigit(Digits[d + 1]) /\ DigitValue(Digits[d + 1]) = (d + 1) - 1
  BY <1>2, TenDigits
<1> QED  BY <1>1, <1>2, <1>3 DEF IsDigit

\* The number of the first divisor that leaves one digit of n, and the digit that
\* the k-th divisor gives.
IsLast(n, last) == n \div Wide!Divisors[last] <= 9 /\ last \in 0..PRINTED_BITS
DigitAt(n, k) == (n \div Wide!Divisors[k]) % 10

\* The digits that are printed begin with the one of this divisor.
LEMMA PrintedIs ==
  ASSUME NEW n \in Wide!UINT
  PROVE  \E last : /\ IsLast(n, last)
                   /\ Wide!UnityPrintNumberUnsigned(n) =
                         [i \in 1..last + 1 |-> Wide!DecDigits[DigitAt(n, last + 1 - i) + 1]]
<1> DEFINE w == PRINTED_BITS
           p == Wide!Divisors
           OneDigit(k) == n \div p[k] <= 9
           First_(k) == OneDigit(k) /\ \A j \in 0..k - 1 : ~ OneDigit(j)
           last == CHOOSE k \in 0..w : First_(k)
           T == {k \in 0..w : OneDigit(k)}
<1>1. w \in Nat
  BY AssertionsAssumption
<1>2. n \in Nat /\ n < p[w] /\ p[w] \in Nat \ {0}
  <2>1. 2^w \in Nat /\ 2^w <= p[w] /\ p[w] \in Nat \ {0}
    BY <1>1, DivisorsAre
  <2>2. n \in 0..2^w - 1
    BY DEF Wide!UINT
  <2> HIDE DEF w, p
  <2> DEFINE m == 2^w
  <2>3. m \in Nat /\ m <= p[w] /\ n \in 0..m - 1
    BY <2>1, <2>2
  <2> HIDE DEF m
  <2> QED  BY <2>1, <2>3
<1>3. w \in T
  <2>1. n \div p[w] = 0
    <3> DEFINE q == n \div p[w]
               m == p[w]
    <3>1. q \in Nat /\ n % m \in 0..m - 1 /\ n = m * q + (n % m)
      BY <1>2, Quotient
    <3>2. n = m * 0 + n /\ n \in 0..m - 1
      BY <1>2
    <3>3. m \in Nat \ {0}
      BY <1>2
    <3> DEFINE r == n % m
    <3> HIDE DEF q, m, r
    <3>4. q \in Int /\ 0 \in Int /\ r \in 0..m - 1 /\ m * q + r = m * 0 + n
      BY <3>1, <3>2 DEF r
    <3>5. q = 0
      BY <3>2, <3>3, <3>4, OneQuotient
    <3> QED  BY <3>5 DEF q
  <2> HIDE DEF p, w
  <2> QED  BY <1>1, <2>1
<1>4. \E k \in 0..w : First_(k)
  <2>1. PICK k \in T : \A j \in T : k <= j
    <3>1. T \in SUBSET (0..w) /\ T # {}
      BY <1>3
    <3> HIDE DEF T, w
    <3> QED  BY <1>1, <3>1, LeastElement
  <2>2. k \in 0..w /\ OneDigit(k)
    BY <2>1
  <2>3. ASSUME NEW j \in 0..k - 1 PROVE ~ OneDigit(j)
    <3>1. j \in 0..w /\ ~ k <= j
      BY <1>1, <2>2
    <3>2. j \notin T
      BY <2>1, <3>1
    <3> HIDE DEF OneDigit
    <3> QED  BY <3>1, <3>2
  <2> QED  BY <2>2, <2>3
<1>5. last \in 0..w /\ First_(last)
  <2> HIDE DEF First_
  <2> QED  BY <1>4
<1>6. IsLast(n, last)
  <2>1. OneDigit(last)
    BY <1>5
  <2> HIDE DEF last
  <2> QED  BY <1>5, <2>1 DEF IsLast
<1>7. Wide!UnityPrintNumberUnsigned(n) =
         [i \in 1..last + 1 |-> Wide!DecDigits[DigitAt(n, last + 1 - i) + 1]]
  BY Zenon DEF Wide!UnityPrintNumberUnsigned, DigitAt
<1> QED  BY <1>6, <1>7

\* What is printed are digits, and they stand for the number.
LEMMA DecimalIs ==
  ASSUME NEW n \in Wide!UINT
  PROVE  LET text == Wide!UnityPrintNumberUnsigned(n)
         IN  /\ n \in Nat
             /\ text \in Seq(ToSet(Digits)) /\ AllDigits(text) /\ Len(text) > 0
             /\ Positional(text) = n
<1> DEFINE w == PRINTED_BITS
           p == Wide!Divisors
<1>1. PICK last : /\ IsLast(n, last)
                  /\ Wide!UnityPrintNumberUnsigned(n) =
                        [i \in 1..last + 1 |-> Wide!DecDigits[DigitAt(n, last + 1 - i) + 1]]
  BY PrintedIs
<1> DEFINE text == [i \in 1..last + 1 |-> Wide!DecDigits[DigitAt(n, last + 1 - i) + 1]]
<1>2. last \in Nat /\ last \in 0..w /\ n \div p[last] <= 9 /\ w \in Nat
  BY <1>1, AssertionsAssumption DEF IsLast
<1>3. n \in Nat
  <2>1. 2^w \in Nat
    BY <1>2, DivisorsAre
  <2> QED  BY <2>1 DEF Wide!UINT
<1>4. /\ \A k \in 0..last : p[k] \in Nat \ {0}
      /\ p[0] = 1 /\ \A k \in 1..last : p[k] = 10 * p[k - 1]
  BY <1>2, DivisorsAre
<1> HIDE DEF w, p
<1>5. ASSUME NEW k \in 0..last PROVE n \div p[k] \in Nat /\ DigitAt(n, k) \in 0..9
  <2>1. p[k] \in Nat \ {0}
    BY <1>4
  <2> DEFINE m == p[k]
  <2>2. n \div m \in Nat /\ m \in Nat \ {0}
    <3>1. m \in Nat \ {0}
      BY <2>1
    <3> HIDE DEF m
    <3> QED  BY <1>3, <3>1, Quotient
  <2> DEFINE q == n \div m
  <2>3. q \in Nat /\ DigitAt(n, k) = q % 10
    BY <2>2 DEF DigitAt, p
  <2> HIDE DEF q
  <2> QED  BY <2>2, <2>3 DEF q
<1>6. ASSUME NEW k \in 1..last PROVE n \div p[k - 1] = 10 * (n \div p[k]) + DigitAt(n, k - 1)
  <2> DEFINE m == p[k - 1]
  <2>1. m \in Nat \ {0} /\ p[k] = 10 * m
    <3>1. k \in 0..last /\ k - 1 \in 0..last
      BY <1>2
    <3> QED  BY <1>4, <3>1
  <2>2. n \div m = 10 * (n \div (10 * m)) + ((n \div m) % 10)
    <3> HIDE DEF m
    <3>1. \A b \in Nat \ {0} : n \div m = b * (n \div (b * m)) + ((n \div m) % b)
      BY <1>3, <2>1, DividedTwice
    <3>2. 10 \in Nat \ {0}
      OBVIOUS
    <3> QED  BY <3>1, <3>2, Zenon
  <2> QED  BY <2>1, <2>2 DEF DigitAt, p
<1>7. ASSUME NEW i \in 1..last + 1
      PROVE  /\ IsDigit(text[i]) /\ text[i] \in ToSet(Digits)
             /\ DigitValue(text[i]) = DigitAt(n, last + 1 - i)
  <2> DEFINE d == DigitAt(n, last + 1 - i)
  <2>1. last + 1 - i \in 0..last
    BY <1>2
  <2>2. d \in 0..9
    BY <1>5, <2>1
  <2>3. text[i] = Wide!DecDigits[d + 1]
    OBVIOUS
  <2> HIDE DEF d, text
  <2>4. /\ IsDigit(text[i]) /\ text[i] \in ToSet(Digits)
        /\ DigitValue(text[i]) = d
    BY <2>2, <2>3, DigitsPrinted
  <2> QED  BY <2>4 DEF d
<1>8. text \in Seq(ToSet(Digits)) /\ Len(text) = last + 1
  <2>1. text = [i \in 1..last + 1 |-> text[i]]
    OBVIOUS
  <2> HIDE DEF text
  <2>2. last + 1 \in Nat
    BY <1>2
  <2>3. text \in [1..last + 1 -> ToSet(Digits)]
    BY <1>7, <2>1
  <2> QED  BY <2>2, <2>3
<1> HIDE DEF text
<1>9. AllDigits(text)
  BY <1>7, <1>8 DEF AllDigits
<1>10. PICK size : IsSize(size, text, last + 1) /\ Positional(text) = size[last + 1]
  <2>1. PICK size : IsSize(size, text, Len(text)) /\ Positional(text) = size[Len(text)]
    BY <1>8, <1>9, PositionalIs
  <2> QED  BY <1>8, <2>1
<1>11. /\ size[0] = 0
       /\ \A k \in 1..last + 1 : size[k] = 10 * size[k - 1] + DigitAt(n, last + 1 - k)
  <2>1. \A k \in 1..last + 1 : DigitValue(text[k]) \in 0..9
    <3>1. \A k \in 1..last + 1 : last + 1 - k \in 0..last
      BY <1>2
    <3> QED  BY <1>5, <1>7, <3>1
  <2>2. size[0] = 0 /\ \A k \in 1..last + 1 : size[k] = 10 * size[k - 1] + DigitValue(text[k])
    <3>1. last + 1 \in Nat
      BY <1>2
    <3> QED  BY <1>10, <2>1, <3>1, SizeUnfolds
  <2> QED  BY <1>7, <2>2
<1> DEFINE S == {j \in 0..last : size[j + 1] = n \div p[last - j]}
<1>12. 0 \in S
  <2> DEFINE q == n \div p[last]
  <2>1. q \in Nat /\ q <= 9
    BY <1>2, <1>5
  <2>2. DigitAt(n, last) = q % 10
    BY DEF DigitAt, p
  <2>3. size[1] = 10 * size[0] + DigitAt(n, last)
    <3>1. 1 \in 1..last + 1 /\ last + 1 - 1 = last /\ 1 - 1 = 0
      BY <1>2
    <3>2. size[1] = 10 * size[1 - 1] + DigitAt(n, last + 1 - 1)
      BY <1>11, <3>1
    <3> QED  BY <3>1, <3>2
  <2>4. size[1] = q
    <3> HIDE DEF q
    <3>1. q % 10 = q
      BY <2>1
    <3> QED  BY <1>11, <2>1, <2>2, <2>3, <3>1
  <2>5. 0 \in 0..last /\ 0 + 1 = 1 /\ last - 0 = last
    BY <1>2
  <2> QED  BY <2>4, <2>5
<1>13. ASSUME NEW j \in 1..last, j - 1 \in S PROVE j \in S
  <2>1. /\ j + 1 \in 1..last + 1 /\ (j + 1) - 1 = j /\ last + 1 - (j + 1) = last - j
        /\ (j - 1) + 1 = j /\ last - (j - 1) \in 1..last
        /\ (last - (j - 1)) - 1 = last - j /\ j \in 0..last
    BY <1>2
  <2>2. size[j + 1] = 10 * size[j] + DigitAt(n, last - j)
    <3>1. size[j + 1] = 10 * size[(j + 1) - 1] + DigitAt(n, last + 1 - (j + 1))
      BY <1>11, <2>1
    <3> QED  BY <2>1, <3>1
  <2>3. size[j] = n \div p[last - (j - 1)]
    <3>1. size[(j - 1) + 1] = n \div p[last - (j - 1)]
      BY <1>13
    <3> QED  BY <2>1, <3>1
  <2>4. n \div p[last - j] = 10 * (n \div p[last - (j - 1)]) + DigitAt(n, last - j)
    <3>1. n \div p[(last - (j - 1)) - 1] = 10 * (n \div p[last - (j - 1)])
                                             + DigitAt(n, (last - (j - 1)) - 1)
      BY <1>6, <2>1
    <3> QED  BY <2>1, <3>1
  <2>5. size[j + 1] = n \div p[last - j]
    BY <2>2, <2>3, <2>4
  <2> QED  BY <2>1, <2>5
<1>14. last \in S
  <2>1. last \in 0..last
    BY <1>2
  <2>2. 0..last \subseteq S
    <3> HIDE DEF S
    <3> QED  BY <1>2, <1>12, <1>13, Induction
  <2> QED  BY <2>1, <2>2
<1>15. size[last + 1] = n
  <2>1. size[last + 1] = n \div p[0]
    <3>1. last - last = 0
      BY <1>2
    <3>2. size[last + 1] = n \div p[last - last]
      BY <1>14
    <3> QED  BY <3>1, <3>2
  <2>2. n \div 1 = n
    BY <1>3
  <2> QED  BY <1>4, <2>1, <2>2
<1> QED  BY <1>1, <1>2, <1>3, <1>8, <1>9, <1>10, <1>15 DEF text

\* strtol reads all of a text of a minus, or none, and digits.
LEMMA MinusAndDigits ==
  ASSUME NEW A, NEW text \in Seq(A), NEW t \in {0, 1}, t < Len(text), t = 1 => text[1] = "-",
         \A i \in t + 1..Len(text) : IsDigit(text[i])
  PROVE  /\ AllDigits(After(text, t)) /\ After(text, t) \in Seq(A)
         /\ strtol(text) = [value |-> Counted(IF t = 1 THEN -1 ELSE 1, After(text, t)),
                            end   |-> Len(text)]
<1>0. Len(text) \in Nat
  OBVIOUS
<1>1. PICK b, s, r : \E digits \in Seq(A) : Converts(text, b, s, r, digits)
  BY StrtolIs
<1>2. PICK digits \in Seq(A) : Converts(text, b, s, r, digits)
  BY <1>1
<1>3. Parts(text, b, s, r)
  BY <1>2, Zenon DEF Converts
<1>4. Spelt(text, 0, t)
  <2>1. t = 1 => text[0 + 1] \in Signs
    BY DEF Signs
  <2>2. \A i \in 1..0 : IsBlank(text[i])
    OBVIOUS
  <2>3. /\ 0 \in 0..Len(text) /\ t \in {0, 1} /\ 0 + t < Len(text)
        /\ \A i \in 0 + t + 1..Len(text) : IsDigit(text[i])
    BY <1>0
  <2> QED  BY <2>1, <2>2, <2>3, Zenon DEF Spelt
<1>5. 0 = b /\ t = s
  BY <1>3, <1>4, SpeltParts
<1>6. r > 0 /\ b + s + r = Len(text)
  BY <1>3, <1>4, <1>5, SpeltParts
<1>7. r = Len(text) - (b + s) /\ b + s = t /\ r # 0 /\ b + s + r = Len(text) /\ b + 1 = 1
  BY <1>0, <1>3, <1>5, <1>6 DEF Parts
<1>8. digits = After(text, t) /\ AllDigits(digits)
  BY <1>2, <1>7 DEF Converts
<1>9. Sign(text, b, s) = IF t = 1 THEN -1 ELSE 1
  BY <1>5, <1>7 DEF Sign, IsMinus
<1>10. strtol(text) = [value |-> Counted(Sign(text, b, s), digits),
                       end   |-> IF r = 0 THEN 0 ELSE b + s + r]
  BY <1>2, Zenon DEF Converts
<1> QED  BY <1>7, <1>8, <1>9, <1>10

\* The ints and the unsigned ints of PRINTED_BITS bits.
LEMMA WideCasts ==
  \E m \in Nat \ {0}, half \in Nat \ {0} :
     /\ m = 2^PRINTED_BITS /\ m = 2 * half
     /\ \A n : n \in Wide!INT <=> n \in -half..half - 1
     /\ \A n : n \in Wide!UINT <=> n \in 0..m - 1
     /\ \A n : Wide!Unsigned(n) = n % m
<1> DEFINE w == PRINTED_BITS - 1
           half == 2^w
           m == 2^PRINTED_BITS
<1>1. w \in Nat /\ w + 1 = PRINTED_BITS
  BY AssertionsAssumption
<1>2. half \in Nat \ {0} /\ m = 2 * half
  <2> HIDE DEF w
  <2> QED  BY <1>1, PowerOfTwo
<1>3. /\ \A n : n \in Wide!INT <=> n \in -half..half - 1
      /\ \A n : n \in Wide!UINT <=> n \in 0..m - 1
  BY DEF Wide!INT, Wide!UINT
<1>4. \A n : Wide!Unsigned(n) = n % m
  BY DEF Wide!Unsigned
<1>5. m = 2^PRINTED_BITS
  OBVIOUS
<1> HIDE DEF half, m
<1> m \in Nat \ {0} /\ half \in Nat \ {0}
  BY <1>2
<1> WITNESS m \in Nat \ {0}, half \in Nat \ {0}
<1> QED  BY <1>2, <1>3, <1>4, <1>5

\* Changed twice in unsigned arithmetic, a negative number has lost its sign.
LEMMA SignChanged ==
  ASSUME NEW n \in Wide!INT
  PROVE  /\ n \in Int
         /\ n < 0 => Wide!Unsigned(-Wide!Unsigned(n)) = -n /\ -n \in Wide!UINT
         /\ ~ n < 0 => n \in Wide!UINT
<1>1. PICK m \in Nat \ {0}, half \in Nat \ {0} :
         /\ m = 2^PRINTED_BITS /\ m = 2 * half
         /\ \A k : k \in Wide!INT <=> k \in -half..half - 1
         /\ \A k : k \in Wide!UINT <=> k \in 0..m - 1
         /\ \A k : Wide!Unsigned(k) = k % m
  BY WideCasts
<1>2. n \in -half..half - 1
  BY <1>1
<1>3. ASSUME n < 0 PROVE Wide!Unsigned(-Wide!Unsigned(n)) = -n /\ -n \in Wide!UINT
  <2>1. n \in -m..-1
    BY <1>1, <1>2, <1>3
  <2>2. n % m = n + m
    BY <2>1, ModuloBelow
  <2>3. -(n + m) \in -m..-1 /\ -(n + m) + m = -n
    BY <1>1, <1>2, <1>3
  <2>4. (-(n + m)) % m = -n
    BY <2>3, ModuloBelow
  <2>5. -n \in 0..m - 1
    BY <1>1, <1>2, <1>3
  <2> QED  BY <1>1, <2>2, <2>4, <2>5
<1>4. ASSUME ~ n < 0 PROVE n \in Wide!UINT
  <2>1. n \in 0..m - 1
    BY <1>1, <1>2, <1>4
  <2> QED  BY <1>1, <2>1
<1> QED  BY <1>2, <1>3, <1>4

\* What UnityPrintNumber prints is read back.
LEMMA NumberReadBack ==
  ASSUME NEW n \in Wide!INT
  PROVE  LET text == Wide!UnityPrintNumber(n)
         IN  strtol(text) = [value |-> n, end |-> Len(text)]
<1>1. n \in LONG_MIN..LONG_MAX /\ n \in Int /\ LONG_MIN \in Int /\ LONG_MAX \in Int
  BY PrintedAssumption, LimitsAssumption
<1> DEFINE A == ToSet(Digits) \cup {"-"}
<1>2. CASE n < 0
  <2> DEFINE u == -n
             digits == Wide!UnityPrintNumberUnsigned(u)
             text == <<"-">> \o digits
  <2>1. Wide!Unsigned(-Wide!Unsigned(n)) = u /\ u \in Wide!UINT
    BY <1>2, SignChanged
  <2>2. Wide!UnityPrintNumber(n) = text
    BY <1>2, <2>1 DEF Wide!UnityPrintNumber
  <2>3. /\ u \in Nat /\ digits \in Seq(ToSet(Digits)) /\ AllDigits(digits) /\ Len(digits) > 0
        /\ Positional(digits) = u
    <3> HIDE DEF u
    <3> QED  BY <2>1, DecimalIs
  <2> HIDE DEF digits
  <2>4. digits \in Seq(A)
    BY <2>3
  <2>5. /\ text \in Seq(A) /\ Len(text) = Len(digits) + 1 /\ text[1] = "-" /\ Len(digits) \in Nat
        /\ \A i \in 1..Len(digits) : text[i + 1] = digits[i]
    <3>1. "-" \in A
      OBVIOUS
    <3> HIDE DEF A
    <3> QED  BY <2>4, <3>1
  <2> HIDE DEF text, A
  <2>6. \A i \in 1 + 1..Len(text) : IsDigit(text[i])
    <3>1. \A i \in 1 + 1..Len(text) : i - 1 \in 1..Len(digits) /\ (i - 1) + 1 = i
      BY <2>5
    <3> QED  BY <2>3, <2>5, <3>1 DEF AllDigits
  <2>7. After(text, 1) = digits
    <3>1. After(text, 1) \in Seq(A) /\ Len(After(text, 1)) = Len(digits)
          /\ \A i \in 1..Len(digits) : After(text, 1)[i] = text[i + 1]
      BY <2>5 DEF After
    <3> QED  BY <2>4, <2>5, <3>1
  <2>8. strtol(text) = [value |-> Counted(-1, digits), end |-> Len(text)]
    <3>1. 1 \in {0, 1} /\ 1 < Len(text)
      BY <2>3, <2>5
    <3>2. strtol(text) = [value |-> Counted(IF 1 = 1 THEN -1 ELSE 1, After(text, 1)),
                          end   |-> Len(text)]
      BY <2>5, <2>6, <3>1, MinusAndDigits
    <3> QED  BY <2>7, <3>2
  <2>9. Counted(-1, digits) = IF -u > LONG_MIN THEN -u ELSE LONG_MIN
    <3> HIDE DEF u
    <3>1. -1 \in {-1, 1}
      OBVIOUS
    <3> QED  BY <2>3, <2>4, <3>1, CountedClamps
  <2>10. Counted(-1, digits) = n
    BY <1>1, <2>9
  <2> QED  BY <2>2, <2>8, <2>10
<1>3. CASE ~ n < 0
  <2> DEFINE text == Wide!UnityPrintNumberUnsigned(n)
  <2>1. n \in Wide!UINT
    BY <1>3, SignChanged
  <2>2. Wide!UnityPrintNumber(n) = text
    BY <1>3 DEF Wide!UnityPrintNumber
  <2>3. /\ n \in Nat /\ text \in Seq(ToSet(Digits)) /\ AllDigits(text) /\ Len(text) > 0
        /\ Positional(text) = n
    BY <2>1, DecimalIs
  <2> HIDE DEF text
  <2>4. After(text, 0) = text
    BY <2>3 DEF After
  <2>5. strtol(text) = [value |-> Counted(1, text), end |-> Len(text)]
    <3>1. 0 \in {0, 1} /\ 0 < Len(text) /\ \A i \in 0 + 1..Len(text) : IsDigit(text[i])
      BY <2>3 DEF AllDigits
    <3>2. strtol(text) = [value |-> Counted(IF 0 = 1 THEN -1 ELSE 1, After(text, 0)),
                          end   |-> Len(text)]
      BY <2>3, <3>1, MinusAndDigits
    <3> QED  BY <2>4, <3>2
  <2>6. Counted(1, text) = IF n < LONG_MAX THEN n ELSE LONG_MAX
    <3>1. 1 \in {-1, 1}
      OBVIOUS
    <3> QED  BY <2>3, <3>1, CountedClamps
  <2>7. Counted(1, text) = n
    BY <1>1, <2>6
  <2> QED  BY <2>2, <2>5, <2>7
<1> QED  BY <1>2, <1>3

-----------------------------------------------------------------------------
(* Numbers printed in hexadecimal *)

\* As many values as there are arguments, if no two have the same.
LEMMA AsMany ==
  ASSUME NEW S, IsFiniteSet(S), NEW f, f = [x \in S |-> f[x]],
         \A x, y \in S : f[x] = f[y] => x = y
  PROVE  Cardinality({f[x] : x \in S}) = Cardinality(S)
<1> DEFINE T == {f[x] : x \in S}
<1>1. f \in [S -> T] /\ \A y \in T : \E x \in S : f[x] = y
  OBVIOUS
<1> HIDE DEF T
<1>2. f \in Surjection(S, T) /\ f \in Injection(S, T)
  BY <1>1 DEF Surjection, Injection, IsInjective
<1>3. Cardinality(T) = Cardinality(S)
  BY <1>2, FS_Surjection
<1> QED  BY <1>3 DEF T

\* The unsigned ints are finitely many.
LEMMA FinitelyMany == IsFiniteSet(Wide!UINT)
<1>1. PICK m \in Nat \ {0} : \A n : n \in Wide!UINT <=> n \in 0..m - 1
  BY WideCasts
<1>2. Wide!UINT = 0..m - 1
  BY <1>1
<1>3. IsFiniteSet(0..m - 1)
  BY FS_Interval
<1> QED  BY <1>2, <1>3

\* No two numbers look alike in decimal ...
LEMMA DecimalsDiffer ==
  Cardinality(Wide!UINT) = Cardinality({Wide!UnityPrintNumberUnsigned(n) : n \in Wide!UINT})
<1> DEFINE f == [n \in Wide!UINT |-> Wide!UnityPrintNumberUnsigned(n)]
<1>1. ASSUME NEW m \in Wide!UINT, NEW n \in Wide!UINT, f[m] = f[n] PROVE m = n
  <2>1. Positional(f[m]) = m /\ Positional(f[n]) = n
    BY DecimalIs
  <2> QED  BY <1>1, <2>1
<1>2. {f[n] : n \in Wide!UINT} = {Wide!UnityPrintNumberUnsigned(n) : n \in Wide!UINT}
  OBVIOUS
<1>3. f = [n \in Wide!UINT |-> f[n]]
  OBVIOUS
<1> HIDE DEF f
<1>4. Cardinality({f[n] : n \in Wide!UINT}) = Cardinality(Wide!UINT)
  BY <1>1, <1>3, FinitelyMany, AsMany
<1> QED  BY <1>2, <1>4

\* The sixteen digits are different.
LEMMA HexDigitsDiffer ==
  ASSUME NEW i \in 1..16, NEW j \in 1..16, Wide!HexDigits[i] = Wide!HexDigits[j]
  PROVE  i = j
  BY DEF Wide!HexDigits

\* The powers of sixteen, four bits each.
LEMMA Nibbles ==
  ASSUME NEW k \in Nat
  PROVE  2^(4 * k) \in Nat \ {0} /\ 2^(4 * (k + 1)) = 16 * 2^(4 * k)
<1> DEFINE w == 4 * k
<1>1. w \in Nat /\ 4 * (k + 1) = w + 4
  OBVIOUS
<1> HIDE DEF w
<1>2. 2^w \in Nat \ {0} /\ 2^(w + 1) = 2 * 2^w
  BY <1>1, PowerOfTwo
<1>3. 2^(w + 2) = 2 * 2^(w + 1)
  <2>1. (w + 1) + 1 = w + 2 /\ w + 1 \in Nat
    BY <1>1
  <2> QED  BY <2>1, PowerOfTwo
<1>4. 2^(w + 3) = 2 * 2^(w + 2)
  <2>1. (w + 2) + 1 = w + 3 /\ w + 2 \in Nat
    BY <1>1
  <2> QED  BY <2>1, PowerOfTwo
<1>5. 2^(w + 4) = 2 * 2^(w + 3)
  <2>1. (w + 3) + 1 = w + 4 /\ w + 3 \in Nat
    BY <1>1
  <2> QED  BY <2>1, PowerOfTwo
<1>6. 2^(w + 4) = 16 * 2^w
  <2> DEFINE u == 2^w
  <2>1. u \in Nat /\ 2^(w + 4) = 2 * (2 * (2 * (2 * u)))
    BY <1>2, <1>3, <1>4, <1>5
  <2> HIDE DEF u
  <2>2. 2 * (2 * (2 * (2 * u))) = 16 * u
    BY <2>1
  <2> QED  BY <2>1, <2>2 DEF u
<1>7. 2^(4 * (k + 1)) = 16 * 2^w
  BY <1>1, <1>6
<1> QED  BY <1>2, <1>7 DEF w

\* Numbers that fit are told apart by %.
LEMMA SameRemainder ==
  ASSUME NEW m \in Nat \ {0}, NEW x \in 0..m - 1, NEW y \in 0..m - 1, x % m = y % m
  PROVE  x = y
<1>1. \A v \in Int : v \in 0..m - 1 => v % m = v
  BY Modulo
<1>2. x \in Int /\ y \in Int
  OBVIOUS
<1> QED  BY <1>1, <1>2

\* ... nor in hexadecimal.
LEMMA HexesDiffer ==
  Cardinality(Wide!UINT) =
      Cardinality({Wide!UnityPrintNumberHex(n, PRINTED_BITS) : n \in Wide!UINT})
<1> DEFINE h == PRINTED_BITS \div 4
           p == [k \in 0..h |-> 2^(4 * k)]
           Digit(n, k) == (n \div p[k]) % 16
           f == [n \in Wide!UINT |-> Wide!UnityPrintNumberHex(n, PRINTED_BITS)]
<1>1. h \in Nat /\ 4 * h = PRINTED_BITS /\ PRINTED_BITS > h
  BY AssertionsAssumption
<1>2. /\ p \in [0..h -> Nat \ {0}]
      /\ \A k \in 1..h : p[k] = 16 * p[k - 1]
  <2>1. \A k \in 0..h : 2^(4 * k) \in Nat \ {0}
    BY <1>1, Nibbles
  <2>2. ASSUME NEW k \in 1..h PROVE p[k] = 16 * p[k - 1]
    <3>1. k - 1 \in Nat /\ (k - 1) + 1 = k /\ k \in 0..h /\ k - 1 \in 0..h
      BY <1>1
    <3>2. 2^(4 * ((k - 1) + 1)) = 16 * 2^(4 * (k - 1))
      BY <3>1, Nibbles
    <3> QED  BY <3>1, <3>2
  <2> QED  BY <2>1, <2>2
<1>3. p[0] = 1
  <2>1. 4 * 0 = 0 /\ 0 \in 0..h
    BY <1>1
  <2>2. 2^0 = 1
    BY ZeroPower
  <2> QED  BY <2>1, <2>2
<1>4. \A n : n \in Wide!UINT <=> n \in 0..p[h] - 1
  <2>1. PICK m \in Nat \ {0} : m = 2^PRINTED_BITS /\ \A n : n \in Wide!UINT <=> n \in 0..m - 1
    BY WideCasts
  <2>2. p[h] = m
    <3>1. h \in 0..h
      BY <1>1
    <3> QED  BY <1>1, <2>1, <3>1
  <2> QED  BY <2>1, <2>2
<1>5. \A n \in Wide!UINT : f[n] = [i \in 1..h |-> Wide!HexDigits[Digit(n, h - i) + 1]]
  <2> TAKE n \in Wide!UINT
  <2>1. f[n] = [i \in 1..h |-> Wide!HexDigits[((n \div 2^(4 * (h - i))) % 16) + 1]]
    BY <1>1 DEF Wide!UnityPrintNumberHex
  <2>2. \A i \in 1..h : p[h - i] = 2^(4 * (h - i))
    BY <1>1
  <2> QED  BY <2>1, <2>2
<1> HIDE DEF p, h
<1>6. ASSUME NEW n \in Wide!UINT, NEW k \in 0..h PROVE n \in Nat /\ Digit(n, k) \in 0..15
  <2>1. n \in Nat /\ p[k] \in Nat \ {0}
    BY <1>1, <1>2, <1>4
  <2>2. n \div p[k] \in Nat
    BY <2>1, Quotient
  <2> DEFINE q == n \div p[k]
  <2>3. q \in Nat /\ Digit(n, k) = q % 16
    BY <2>2
  <2> HIDE DEF q
  <2> QED  BY <2>1, <2>3
<1>7. f = [n \in Wide!UINT |-> f[n]]
  OBVIOUS
<1> HIDE DEF f
<1>8. ASSUME NEW x \in Wide!UINT, NEW y \in Wide!UINT, f[x] = f[y] PROVE x = y
  <2>1. ASSUME NEW k \in 0..h - 1 PROVE Digit(x, k) = Digit(y, k)
    <3> DEFINE i == h - k
               c == Digit(x, k)
               d == Digit(y, k)
    <3>1. i \in 1..h /\ h - i = k /\ k \in 0..h
      BY <1>1
    <3>2. f[x][i] = Wide!HexDigits[c + 1] /\ f[y][i] = Wide!HexDigits[d + 1]
      <4>1. /\ f[x][i] = Wide!HexDigits[Digit(x, h - i) + 1]
            /\ f[y][i] = Wide!HexDigits[Digit(y, h - i) + 1]
        <5> HIDE DEF Digit, i
        <5>1. /\ f[x] = [j \in 1..h |-> Wide!HexDigits[Digit(x, h - j) + 1]]
              /\ f[y] = [j \in 1..h |-> Wide!HexDigits[Digit(y, h - j) + 1]]
          BY <1>5
        <5> QED  BY <3>1, <5>1
      <4> QED  BY <3>1, <4>1
    <3>3. c \in 0..15 /\ d \in 0..15
      BY <1>6, <3>1
    <3> HIDE DEF c, d, i
    <3>4. c + 1 \in 1..16 /\ d + 1 \in 1..16 /\ Wide!HexDigits[c + 1] = Wide!HexDigits[d + 1]
      BY <1>8, <3>2, <3>3
    <3>5. c + 1 = d + 1
      BY <3>4, HexDigitsDiffer
    <3> QED  BY <3>3, <3>5 DEF c, d
  <2>2. x \in Nat /\ y \in Nat /\ 16 \in Nat \ {0}
    BY <1>4
  <2>3. x % p[h] = y % p[h]
    <3>1. Powers(p, 16, h) /\ Alike(x, y, p, 16, h)
      BY <1>2, <1>3, <2>1 DEF Powers, Alike
    <3> QED  BY <1>1, <2>2, <3>1, SameDigits
  <2>4. p[h] \in Nat \ {0}
    BY <1>1, <1>2
  <2> DEFINE m == p[h]
  <2>5. m \in Nat \ {0} /\ x \in 0..m - 1 /\ y \in 0..m - 1 /\ x % m = y % m
    BY <1>4, <2>3, <2>4
  <2> HIDE DEF m
  <2> QED  BY <2>5, SameRemainder
<1>9. Cardinality({f[n] : n \in Wide!UINT}) = Cardinality(Wide!UINT)
  BY <1>7, <1>8, FinitelyMany, AsMany
<1>10. {f[n] : n \in Wide!UINT} = {Wide!UnityPrintNumberHex(n, PRINTED_BITS) : n \in Wide!UINT}
  BY DEF f
<1> QED  BY <1>9, <1>10

-----------------------------------------------------------------------------
(* Bits *)

\* The bits of a number of w bits.
BitsOf(w, n) == {i \in 0..w - 1 : ((n % 2^w) \div 2^i) % 2 = 1}

\* The powers of two, up to the w-th.
PowersOfTwo(w) == [k \in 0..w |-> 2^k]

LEMMA PowersOfTwoAre ==
  ASSUME NEW w \in Nat
  PROVE  Powers(PowersOfTwo(w), 2, w)
<1> DEFINE p == [k \in 0..w |-> 2^k]
<1>1. ASSUME NEW k \in 0..w PROVE p[k] \in Nat \ {0}
  BY PowerOfTwo
<1>2. p[0] = 1
  BY ZeroPower
<1>3. ASSUME NEW k \in 1..w PROVE p[k] = 2 * p[k - 1]
  <2>1. k - 1 \in Nat /\ (k - 1) + 1 = k /\ k \in 0..w /\ k - 1 \in 0..w
    OBVIOUS
  <2>2. 2^((k - 1) + 1) = 2 * 2^(k - 1)
    BY <2>1, PowerOfTwo
  <2> QED  BY <2>1, <2>2
<1>4. p \in [0..w -> Nat \ {0}]
  BY <1>1
<1> QED  BY <1>2, <1>3, <1>4 DEF Powers, PowersOfTwo

\* The lowest v bits of two numbers are the same exactly if the numbers leave the
\* same when divided by 2^v.
LEMMA SameBits ==
  ASSUME NEW w \in Nat, NEW v \in 0..w, NEW m \in Nat, NEW n \in Nat,
         m = m % 2^w, n = n % 2^w
  PROVE  m % 2^v = n % 2^v <=> \A i \in 0..v - 1 : i \in BitsOf(w, m) <=> i \in BitsOf(w, n)
<1> DEFINE p == PowersOfTwo(v)
<1>1. v \in Nat /\ 2 \in Nat \ {0}
  OBVIOUS
<1>2. Powers(p, 2, v)
  BY <1>1, PowersOfTwoAre
<1>3. m % p[v] = n % p[v] <=> Alike(m, n, p, 2, v)
  <2> HIDE DEF p
  <2> QED  BY <1>1, <1>2, SameDigits
<1>4. ASSUME NEW i \in 0..v - 1
      PROVE  (i \in BitsOf(w, m) <=> i \in BitsOf(w, n))
                 <=> (m \div p[i]) % 2 = (n \div p[i]) % 2
  <2> DEFINE q == 2^i
             c == m \div q
             d == n \div q
  <2>1. i \in 0..v /\ i \in 0..w - 1 /\ i \in Nat
    BY <1>1
  <2>2. q \in Nat \ {0}
    BY <2>1, PowerOfTwo
  <2>3. p[i] = q
    BY <2>1 DEF PowersOfTwo
  <2>4. (i \in BitsOf(w, m) <=> c % 2 = 1) /\ (i \in BitsOf(w, n) <=> d % 2 = 1)
    BY <2>1 DEF BitsOf
  <2>5. c \in Nat /\ d \in Nat
    <3> HIDE DEF q
    <3> QED  BY <2>2, Quotient
  <2> HIDE DEF q, c, d, p
  <2>6. c % 2 \in 0..1 /\ d % 2 \in 0..1
    BY <2>5
  <2>7. c % 2 = d % 2 <=> (c % 2 = 1 <=> d % 2 = 1)
    BY <2>6
  <2> QED  BY <2>3, <2>4, <2>7 DEF c, d
<1>5. p[v] = 2^v
  BY <1>1 DEF PowersOfTwo
<1> HIDE DEF p
<1>6. Alike(m, n, p, 2, v) <=> \A i \in 0..v - 1 : i \in BitsOf(w, m) <=> i \in BitsOf(w, n)
  BY <1>4 DEF Alike
<1> QED  BY <1>3, <1>5, <1>6

\* All bits of -1 are set.
LEMMA AllBits ==
  ASSUME NEW w \in Nat
  PROVE  BitsOf(w, -1) = 0..w - 1
<1> DEFINE m == 2^w
           x == m - 1
<1>1. m \in Nat \ {0}
  BY PowerOfTwo
<1>2. (-1) % m = x /\ x \in Nat
  <2> HIDE DEF m
  <2>1. -1 \in -m..-1
    BY <1>1
  <2>2. (-1) % m = -1 + m
    BY <1>1, <2>1, ModuloBelow
  <2> QED  BY <1>1, <2>2
<1> DEFINE Half(i) == x \div 2^i
           S == {i \in 0..w : Half(i) = 2^(w - i) - 1}
<1>3. \A i \in 0..w : 2^i \in Nat \ {0} /\ 2^(w - i) \in Nat \ {0} /\ Half(i) \in Nat
  <2> TAKE i \in 0..w
  <2>1. i \in Nat /\ w - i \in Nat
    OBVIOUS
  <2>2. 2^i \in Nat \ {0} /\ 2^(w - i) \in Nat \ {0}
    BY <2>1, PowerOfTwo
  <2> DEFINE q == 2^i
  <2>3. q \in Nat \ {0}
    BY <2>2
  <2> HIDE DEF x, q
  <2>4. x \div q \in Nat
    BY <1>2, <2>3, Quotient
  <2> QED  BY <2>2, <2>4 DEF q
<1>4. 0 \in S
  <2>1. w - 0 = w /\ 0 \in 0..w /\ 2^0 = 1
    BY ZeroPower
  <2>2. x \div 1 = x
    <3> HIDE DEF x
    <3> QED  BY <1>2
  <2> QED  BY <2>1, <2>2
<1>5. ASSUME NEW i \in 1..w, i - 1 \in S
      PROVE  i \in S /\ Half(i - 1) % 2 = 1
  <2> DEFINE p == 2^(i - 1)
             u == 2^(w - i)
             q == Half(i - 1)
             k == Half(i)
  <2>1. /\ i - 1 \in 0..w /\ i \in 0..w /\ i - 1 \in Nat /\ (i - 1) + 1 = i
        /\ w - i \in Nat /\ (w - i) + 1 = w - (i - 1)
    OBVIOUS
  <2>2. 2^i = 2 * p /\ 2^(w - (i - 1)) = 2 * u /\ p \in Nat \ {0} /\ u \in Nat \ {0}
    <3>1. 2^((i - 1) + 1) = 2 * 2^(i - 1) /\ 2^((w - i) + 1) = 2 * 2^(w - i)
      BY <2>1, PowerOfTwo
    <3>2. p \in Nat \ {0} /\ u \in Nat \ {0}
      BY <2>1, PowerOfTwo
    <3> QED  BY <2>1, <3>1, <3>2
  <2>3. q = 2 * u - 1
    BY <1>5, <2>2
  <2>4. q = 2 * k + (q % 2)
    <3> HIDE DEF x
    <3>1. x \div p = 2 * (x \div (2 * p)) + ((x \div p) % 2)
      <4>1. \A b \in Nat \ {0} : x \div p = b * (x \div (b * p)) + ((x \div p) % b)
        <5> HIDE DEF p
        <5> QED  BY <1>2, <2>2, DividedTwice
      <4>2. 2 \in Nat \ {0}
        OBVIOUS
      <4> QED  BY <4>1, <4>2, Zenon
    <3> QED  BY <2>2, <3>1
  <2>5. q \in Nat /\ k \in Nat
    BY <1>3, <2>1
  <2> HIDE DEF q, k, u
  <2>6. q % 2 \in 0..1
    BY <2>5
  <2>7. k = u - 1 /\ q % 2 = 1
    BY <2>2, <2>3, <2>4, <2>5, <2>6
  <2> QED  BY <2>1, <2>7 DEF q, k, u
<1>6. 0..w \subseteq S
  <2> HIDE DEF S
  <2> QED  BY <1>4, <1>5, Induction
<1>7. ASSUME NEW i \in 0..w - 1 PROVE Half(i) % 2 = 1
  <2>1. i + 1 \in 1..w /\ (i + 1) - 1 = i /\ i \in S
    BY <1>6
  <2> HIDE DEF S, Half
  <2>2. Half((i + 1) - 1) % 2 = 1
    BY <1>5, <2>1
  <2> QED  BY <2>1, <2>2
<1>8. \A i \in 0..w - 1 : (((-1) % 2^w) \div 2^i) % 2 = 1
  BY <1>2, <1>7
<1> QED  BY <1>8 DEF BitsOf

\* A mask shows the bits of an int.
LEMMA MasksShow ==
  ASSUME NEW m \in Wide!UINT, NEW n \in Wide!UINT
  PROVE  Wide!UnityPrintMask(-1, m) = Wide!UnityPrintMask(-1, n)
             <=> m % 2^UNITY_INT_WIDTH = n % 2^UNITY_INT_WIDTH
<1> DEFINE w == PRINTED_BITS
           v == UNITY_INT_WIDTH
           Char(k, bit) == IF bit \in BitsOf(w, k) THEN "1" ELSE "0"
<1>1. w \in Nat /\ v \in Nat /\ v \in 0..w /\ v \in 1..w
  BY AssertionsAssumption
<1>2. \A k : Wide!Bits(k) = BitsOf(w, k)
  BY DEF Wide!Bits, Wide!Unsigned, BitsOf
<1>3. \A bit \in 0..v - 1 : bit \in Wide!Bits(-1)
  <2>1. BitsOf(w, -1) = 0..w - 1
    BY <1>1, AllBits
  <2>2. \A bit \in 0..v - 1 : bit \in 0..w - 1
    BY <1>1
  <2> HIDE DEF w
  <2> QED  BY <1>2, <2>1, <2>2
<1> HIDE DEF w
<1>4. ASSUME NEW k
      PROVE  Wide!UnityPrintMask(-1, k) = [i \in 1..v |-> Char(k, v - i)]
  <2>1. \A i \in 1..v : v - i \in 0..v - 1
    BY <1>1
  <2>2. \A i \in 1..v : v - i \in Wide!Bits(-1)
    BY <1>3, <2>1
  <2> QED  BY <1>2, <2>2 DEF Wide!UnityPrintMask
<1>5. (\A bit \in 0..v - 1 : bit \in BitsOf(w, m) <=> bit \in BitsOf(w, n))
          <=> Wide!UnityPrintMask(-1, m) = Wide!UnityPrintMask(-1, n)
  <2>1. ASSUME \A bit \in 0..v - 1 : bit \in BitsOf(w, m) <=> bit \in BitsOf(w, n)
        PROVE  Wide!UnityPrintMask(-1, m) = Wide!UnityPrintMask(-1, n)
    <3>1. \A i \in 1..v : v - i \in 0..v - 1
      BY <1>1
    <3>2. \A i \in 1..v : Char(m, v - i) = Char(n, v - i)
      BY <2>1, <3>1
    <3> HIDE DEF Char
    <3> QED  BY <1>4, <3>2
  <2>2. ASSUME Wide!UnityPrintMask(-1, m) = Wide!UnityPrintMask(-1, n), NEW bit \in 0..v - 1
        PROVE  bit \in BitsOf(w, m) <=> bit \in BitsOf(w, n)
    <3>1. v - bit \in 1..v /\ v - (v - bit) = bit
      BY <1>1
    <3>2. ASSUME NEW k PROVE Wide!UnityPrintMask(-1, k)[v - bit] = Char(k, bit)
      <4>1. Wide!UnityPrintMask(-1, k) = [i \in 1..v |-> Char(k, v - i)]
        BY <1>4
      <4> HIDE DEF Char
      <4> QED  BY <3>1, <4>1
    <3>3. Char(m, bit) = Char(n, bit)
      <4> HIDE DEF Char
      <4> QED  BY <2>2, <3>2
    <3> QED  BY <3>3
  <2> QED  BY <2>1, <2>2
<1>6. m \in Nat /\ n \in Nat /\ m = m % 2^w /\ n = n % 2^w
  <2>1. PICK u \in Nat \ {0} : u = 2^PRINTED_BITS /\ \A k : k \in Wide!UINT <=> k \in 0..u - 1
    BY WideCasts
  <2>2. \A k \in Int : k \in 0..u - 1 => k % u = k
    BY Modulo
  <2>3. m \in 0..u - 1 /\ n \in 0..u - 1 /\ m \in Int /\ n \in Int
    BY <2>1
  <2>4. m % u = m /\ n % u = n
    BY <2>2, <2>3
  <2> QED  BY <2>1, <2>3, <2>4 DEF w
<1>7. m % 2^v = n % 2^v <=> \A i \in 0..v - 1 : i \in BitsOf(w, m) <=> i \in BitsOf(w, n)
  <2> HIDE DEF v
  <2> QED  BY <1>1, <1>6, SameBits
<1> QED  BY <1>5, <1>7

\* Where all bits are compared, equal ones are those of equal numbers.
LEMMA BitsEqual ==
  ASSUME NEW t \in Assertions!INT, NEW a \in Assertions!INT
  PROVE  Assertions!UnityAssertBits(-1, t, a) <=> Assertions!UnityAssertEqualNumber(t, a)
<1>1. PICK m \in Nat \ {0}, half \in Nat \ {0} :
         /\ m = 2^UNITY_BITS /\ m = 2 * half
         /\ \A n : n \in Assertions!INT <=> n \in -half..half - 1
         /\ \A n : Assertions!Unsigned(n) = n % m
         /\ \A n \in Assertions!INT : Assertions!Unsigned(n) = Cast(n, m)
  BY Casts
<1> DEFINE w == UNITY_BITS
           x == Assertions!Unsigned(t)
           y == Assertions!Unsigned(a)
<1>2. w \in Nat /\ w \in 0..w
  BY AssertionsAssumption
<1>3. /\ t \in -half..half - 1 /\ a \in -half..half - 1
      /\ x = Cast(t, m) /\ y = Cast(a, m) /\ x = t % m /\ y = a % m
  BY <1>1
<1> HIDE DEF x, y, w
<1>4. x \in 0..m - 1 /\ y \in 0..m - 1 /\ (x = y <=> t = a)
  BY <1>1, <1>3 DEF Cast
<1>5. x % m = x /\ y % m = y
  <2>1. \A v \in Int : v \in 0..m - 1 => v % m = v
    BY Modulo
  <2>2. x \in Int /\ y \in Int
    BY <1>4
  <2> QED  BY <1>4, <2>1, <2>2
<1>6. \A n : Assertions!Bits(n) = BitsOf(w, n)
  BY DEF Assertions!Bits, Assertions!Unsigned, BitsOf, w
<1>7. BitsOf(w, t) = BitsOf(w, x) /\ BitsOf(w, a) = BitsOf(w, y)
  <2>1. t % 2^w = x % 2^w /\ a % 2^w = y % 2^w
    BY <1>1, <1>3, <1>5 DEF w
  <2> QED  BY <2>1 DEF BitsOf
<1>8. x % 2^w = y % 2^w <=> \A i \in 0..w - 1 : i \in BitsOf(w, x) <=> i \in BitsOf(w, y)
  <2>1. x \in Nat /\ y \in Nat /\ x = x % 2^w /\ y = y % 2^w
    BY <1>1, <1>4, <1>5 DEF w
  <2> QED  BY <1>2, <2>1, SameBits
<1>9. x % 2^w = x /\ y % 2^w = y
  BY <1>1, <1>5 DEF w
<1>10. x = y <=> BitsOf(w, x) = BitsOf(w, y)
  <2>1. BitsOf(w, x) \subseteq 0..w - 1 /\ BitsOf(w, y) \subseteq 0..w - 1
    BY DEF BitsOf
  <2> QED  BY <1>8, <1>9, <2>1
<1>11. Assertions!UnityAssertBits(-1, t, a) <=> BitsOf(w, t) = BitsOf(w, a)
  <2>1. BitsOf(w, -1) = 0..w - 1
    BY <1>2, AllBits
  <2>2. BitsOf(w, t) \subseteq 0..w - 1 /\ BitsOf(w, a) \subseteq 0..w - 1
    BY DEF BitsOf
  <2> QED  BY <1>6, <2>1, <2>2 DEF Assertions!UnityAssertBits
<1> QED  BY <1>4, <1>7, <1>10, <1>11 DEF Assertions!UnityAssertEqualNumber

\* The parts of PrintedReads.
LEMMA Prints == PrintedReads
BY NumberReadBack, DecimalsDiffer, HexesDiffer, MasksShow, BitsEqual, Zenon DEF PrintedReads
-----------------------------------------------------------------------------
(* The theorems *)

\* A text is read as an int exactly if it spells one that fits, and as the
\* number it spells; what a console accepts without a sign and leading zeros is
\* the number that was typed, whatever the size of the buffer cuts off (utils.c,
\* _check_int, read_int_from_buffer and read_line).
THEOREM NumbersAreRead == Spec => []NumbersRead
<1>1. TypeOK => NumbersRead
  <2> SUFFICES ASSUME TypeOK, buffer # NoText PROVE IntGrammar /\ LineReadWhole
    BY DEF NumbersRead, IntGrammar, LineReadWhole
  <2>1. buffer \in Seq(Alphabet)
    BY DEF TypeOK
  <2>2. IntGrammar
    BY <2>1, IntRead DEF IntGrammar
  <2>3. LineReadWhole
    <3> SUFFICES ASSUME read_int_from_stdin(buffer), Spellings(buffer) # {}, Plain(buffer[1])
                 PROVE  IntIn(read_line(buffer, INT_BUFFER)) = Meaning(buffer)
      BY Zenon DEF LineReadWhole, Plain
    <3> QED  BY <2>1, LineRead
  <2> QED  BY <2>2, <2>3
<1> QED  BY TypeCorrect, <1>1, PTL

\* An address is accepted exactly if it has its dots, and what strtol takes for a
\* number within the limits between any two of them; so every address of plain
\* digits is accepted that is not cut (input.c, read_ip_address_from_buffer).
THEOREM AddressesAreRead == Spec => []AddressGrammar
<1>1. TypeOK => AddressGrammar
  <2> SUFFICES ASSUME TypeOK, buffer # NoText PROVE AddressGrammar
    BY DEF AddressGrammar
  <2>1. buffer \in Seq(Alphabet)
    BY DEF TypeOK
  <2>2. read_ip_address_from_buffer(buffer) <=> OfGroups(First(buffer, IP_ADDR_LEN), NumberGroup)
    BY <2>1, AddressJudged
  <2>3. Len(buffer) <= IP_ADDR_LEN /\ OfGroups(buffer, DigitGroup)
           => read_ip_address_from_buffer(buffer)
    BY <2>1, DigitsJudged
  <2> QED  BY <2>2, <2>3, Zenon DEF AddressGrammar
<1> QED  BY TypeCorrect, <1>1, PTL

\* An accepted line leaves its subnet in the record, and a rejected one only an
\* address, and after it a mask, that was accepted (input.c,
\* read_destination_subnet_from_buffer).
THEOREM SubnetsAreRead == Spec => []SubnetsRead
<1>1. TypeOK => SubnetsRead
  <2> SUFFICES ASSUME TypeOK, buffer # NoText PROVE SubnetsRead
    BY DEF SubnetsRead
  <2>1. buffer \in Seq(Alphabet)
    BY DEF TypeOK
  <2> DEFINE read == read_destination_subnet_from_buffer(buffer, Blank)
  <2>2. (read.ok => SubnetStored(read)) /\ RejectedLeaves(read)
    <3> HIDE DEF read
    <3>1. ASSUME NEW x, x = read PROVE (x.ok => SubnetStored(x)) /\ RejectedLeaves(x)
      <4>1. x = read_destination_subnet_from_buffer(buffer, Blank)
        BY <3>1 DEF read
      <4> QED  BY <2>1, <4>1, SubnetRead
    <3> QED  BY <3>1
  <2>3. IF read.ok THEN SubnetStored(read) ELSE RejectedLeaves(read)
    <3> HIDE DEF read
    <3> QED  BY <2>2
  <2> QED  BY <2>3, Zenon DEF SubnetsRead
<1> QED  BY TypeCorrect, <1>1, PTL

\* What is printed of a number tells which one it was, for numbers of any width:
\* a decimal number is read back by strtol as itself, the smallest one included,
\* no two numbers look alike in decimal or hexadecimal, a mask shows the bits of an
\* int and nothing else, and UnityAssertBits with all bits compares numbers
\* (unity.c, UnityPrintNumber, UnityPrintNumberUnsigned, UnityPrintNumberHex,
\* UnityPrintMask and UnityAssertBits).
THEOREM PrintsAreRead == Spec => []PrintedReads
BY Prints, PTL

\* The assertions tell what their names say, for an int of any width and a
\* tolerance of any size, for arrays of any length of any values, and for any
\* strings: to be within a distance is to be no further apart, to be equal is to
\* be the same in every element (of floating point numbers, up to the given
\* fraction of the expected one; and one string expected of an array is never
\* NULL), and an assertion and its opposite never both hold;
\* and what is printed of a number tells which one it was (PrintsAreRead; unity.c,
\* UnityAssertNumbersWithin, UnityAssertFloatsWithin, the UnityAssertEqual
\* functions, UnityAssertGreaterOrLessOrEqualNumber and UnityAssertFloatSpecial).
THEOREM AssertionsAreExact == Spec => []AssertionsExact
<1>1. AssertionsExact
  BY Within, Equals, Differ, Prints DEF AssertionsExact
<1> QED  BY <1>1, PTL
=============================================================================
