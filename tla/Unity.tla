------------------------------- MODULE Unity -------------------------------
(***************************************************************************)
(* routing_table_manager/unity: the runner of the unit tests.              *)
(*                                                                         *)
(* A test may call any assertion in setUp, in its function and in          *)
(* tearDown.  One that fails, UnityIgnore and TEST_PASS jump out of the    *)
(* code that called them (longjmp), to the end of the TEST_PROTECT block.  *)
(***************************************************************************)
EXTENDS Integers, Sequences, FiniteSets

CONSTANTS
    MAX_TESTS               \* bound: RUN_TESTs in main

ASSUME UnityAssumption == MAX_TESTS \in Nat

VARIABLES
    NumberOfTests, TestFailures, TestIgnores,
    CurrentTestFailed, CurrentTestIgnored,
    pc,                     \* where the program is
    outcome,                \* the first line printed for the current test
    passes,                 \* PASS lines
    exit                    \* what main returns

unityVars == <<NumberOfTests, TestFailures, TestIgnores, CurrentTestFailed,
               CurrentTestIgnored, pc, outcome, passes, exit>>
Counters  == <<NumberOfTests, TestFailures, TestIgnores, passes>>

UserCode == {"setUp", "Func", "tearDown"}

UnityTypeOK ==
    /\ NumberOfTests \in 0..MAX_TESTS
    /\ {TestFailures, TestIgnores, passes} \subseteq 0..MAX_TESTS
    /\ CurrentTestFailed \in BOOLEAN /\ CurrentTestIgnored \in BOOLEAN
    /\ pc \in UserCode \cup {"begin", "main", "conclude", "ended"}
    /\ outcome \in {"none", "FAIL", "IGNORE"}
    /\ exit \in 0..MAX_TESTS

UnityInit ==
    /\ NumberOfTests = 0 /\ TestFailures = 0 /\ TestIgnores = 0 /\ passes = 0
    /\ CurrentTestFailed = FALSE /\ CurrentTestIgnored = FALSE
    /\ pc = "begin" /\ outcome = "none" /\ exit = 0

-----------------------------------------------------------------------------
UnityBegin ==
    /\ pc = "begin" /\ pc' = "main"
    /\ NumberOfTests' = 0 /\ TestFailures' = 0 /\ TestIgnores' = 0
    /\ CurrentTestFailed' = FALSE /\ CurrentTestIgnored' = FALSE
    /\ UNCHANGED <<outcome, passes, exit>>

UnityDefaultTestRun ==
    /\ pc = "main" /\ NumberOfTests < MAX_TESTS
    /\ NumberOfTests' = NumberOfTests + 1
    /\ pc' = "setUp" /\ outcome' = "none"
    /\ UNCHANGED <<TestFailures, TestIgnores, passes, CurrentTestFailed,
                   CurrentTestIgnored, exit>>

\* setUp, the function or tearDown returns.
Return ==
    /\ pc \in UserCode
    /\ pc' = CASE pc = "setUp" -> "Func" [] pc = "Func" -> "tearDown"
               [] pc = "tearDown" -> "conclude"
    /\ UNCHANGED <<Counters, CurrentTestFailed, CurrentTestIgnored, outcome, exit>>

\* TEST_ABORT: setUp and the function are protected together, tearDown alone.
Abort == pc' = IF pc = "tearDown" THEN "conclude" ELSE "tearDown"

RETURN_IF_FAIL_OR_IGNORE == CurrentTestFailed \/ CurrentTestIgnored

\* An assertion that does not hold, and UnityFail.  One that holds, or that
\* follows a failure or UnityIgnore, changes nothing.
AssertFails ==
    /\ pc \in UserCode /\ ~ RETURN_IF_FAIL_OR_IGNORE
    /\ CurrentTestFailed' = TRUE /\ Abort
    /\ outcome' = IF outcome = "none" THEN "FAIL" ELSE outcome
    /\ UNCHANGED <<Counters, CurrentTestIgnored, exit>>

UnityIgnore ==
    /\ pc \in UserCode /\ ~ RETURN_IF_FAIL_OR_IGNORE
    /\ CurrentTestIgnored' = TRUE /\ Abort
    /\ outcome' = IF outcome = "none" THEN "IGNORE" ELSE outcome
    /\ UNCHANGED <<Counters, CurrentTestFailed, exit>>

\* The rest of the code is skipped, and nothing is noted.
TEST_PASS ==
    /\ pc \in UserCode /\ Abort
    /\ UNCHANGED <<Counters, CurrentTestFailed, CurrentTestIgnored, outcome, exit>>

\* Mutant: the flag of an ignored test outlives it.
ConcludeKeepsIgnored ==
    /\ pc = "conclude" /\ pc' = "main"
    /\ TestIgnores'  = TestIgnores + (IF CurrentTestIgnored THEN 1 ELSE 0)
    /\ TestFailures' = TestFailures
                       + (IF CurrentTestFailed /\ ~ CurrentTestIgnored THEN 1 ELSE 0)
    /\ passes' = passes + (IF RETURN_IF_FAIL_OR_IGNORE THEN 0 ELSE 1)
    /\ CurrentTestFailed' = FALSE
    /\ UNCHANGED <<NumberOfTests, CurrentTestIgnored, outcome, exit>>

UnityConcludeTest ==
    /\ pc = "conclude" /\ pc' = "main"
    /\ TestIgnores'  = TestIgnores + (IF CurrentTestIgnored THEN 1 ELSE 0)
    /\ TestFailures' = TestFailures
                       + (IF CurrentTestFailed /\ ~ CurrentTestIgnored THEN 1 ELSE 0)
    /\ passes' = passes + (IF RETURN_IF_FAIL_OR_IGNORE THEN 0 ELSE 1)
    /\ CurrentTestFailed' = FALSE /\ CurrentTestIgnored' = FALSE
    /\ UNCHANGED <<NumberOfTests, outcome, exit>>

UnityEnd ==
    /\ pc = "main" /\ pc' = "ended"
    /\ exit' = TestFailures
    /\ UNCHANGED <<Counters, CurrentTestFailed, CurrentTestIgnored, outcome>>

UnityNext ==
    \/ UnityBegin \/ UnityDefaultTestRun \/ Return \/ AssertFails
    \/ UnityIgnore \/ TEST_PASS \/ UnityConcludeTest \/ UnityEnd

\* A test that was concluded is counted once: as passed, as ignored or as
\* failed; main's status is the number of failed ones.
EveryTestCounts ==
    /\ pc \in {"main", "ended"} =>
           NumberOfTests = passes + TestIgnores + TestFailures
    /\ pc = "ended" => exit = TestFailures

\* The verdict is the first thing a test was told: an assertion of tearDown
\* makes no failure of an ignored test, and what one test did does not reach
\* the next.
VerdictIsFirst ==
    [][pc = "conclude" =>
           /\ TestFailures' > TestFailures <=> outcome = "FAIL"
           /\ TestIgnores'  > TestIgnores  <=> outcome = "IGNORE"
           /\ passes'       > passes       <=> outcome = "none"]_unityVars

=============================================================================
