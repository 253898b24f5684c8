------------------------------ MODULE SelfTest ------------------------------
(***************************************************************************)
(* The shell (kernel/core/shell.c) runs one command at a time.  This       *)
(* module has the local variables of the one that runs, and what the self  *)
(* tests of `pmm', `heap' and `vma' (kernel/cmds) have in common.          *)
(*                                                                         *)
(* Each is a list of tests that take things -- pages, pieces of the heap,  *)
(* areas -- into the slots of an array, look at them and give them back.   *)
(* They differ in what they do when something is refused: return on the    *)
(* spot, undo what they did and return, keep going with what they have, or *)
(* skip to the last test.                                                  *)
(***************************************************************************)
EXTENDS Integers, Sequences, FiniteSetsExt, Functions, TLC

CONSTANT NULL   \* the null pointer

VARIABLES
    ret,    \* the answer of the layer under test to the last call
    cmd,    \* the command that runs, "idle" between two
    test,   \* the number of the test
    loop,   \* the loop the test is in
    mine,   \* what it has taken and not given back, by slot
    start,  \* the count it has read before it began
    pass,   \* the variable of that name, and those like adj_ok
    denied  \* history: something was refused

testVars == <<cmd, test, loop, mine, start, pass, denied>>

\* A test: what it asks for, what it does when refused, whether that counts
\* as a failure, and whether it gives back every other slot to refill it.
Test(wants, refused, fails, holes) ==
    [wants |-> wants, refused |-> refused, fails |-> fails, holes |-> holes]

Nothing == << >>

Idle ==
    /\ cmd = "idle" /\ test = 0 /\ loop = "none" /\ mine = Nothing
    /\ start = 0 /\ pass = TRUE /\ denied = FALSE

\* The command returns to the shell.
Return ==
    /\ cmd' = "idle" /\ test' = 0 /\ loop' = "none" /\ mine' = Nothing
    /\ start' = 0 /\ pass' = TRUE /\ denied' = FALSE

\* A self test begins, in a loop of its own or with the first test.
Begin(name, first, count) ==
    /\ cmd = "idle"
    /\ cmd' = name /\ test' = 1 /\ loop' = first /\ start' = count
    /\ UNCHANGED <<mine, pass, denied>>

\* The slot the loop is at.
FreeSlot(t) == Min((1 .. Len(t.wants)) \ DOMAIN mine)
GiveSlot ==
    Min(IF loop = "holes" THEN {s \in DOMAIN mine : s % 2 = 1} ELSE DOMAIN mine)

Taking(name) == cmd = name /\ loop \in {"take", "refill"}
Giving(name) == cmd = name /\ loop \in {"holes", "give", "undo"} /\ DOMAIN mine # {}

\* What is asked for next.
Wanted(t) == t.wants[FreeSlot(t)]

\* thing was granted.
Took(t, thing) ==
    /\ mine' = [s \in DOMAIN mine \cup {FreeSlot(t)} |->
                   IF s \in DOMAIN mine THEN mine[s] ELSE thing]
    /\ loop' = IF DOMAIN mine' # 1 .. Len(t.wants) THEN loop
               ELSE IF loop = "take" THEN "check" ELSE "give"
    /\ UNCHANGED <<cmd, test, start, pass, denied>>

\* It was refused.
Refused(tests) ==
    LET t == tests[test]
    IN  IF loop = "take" /\ t.refused = "return"
        THEN Return
        ELSE /\ denied' = TRUE
             /\ pass' = (pass /\ ~t.fails)
             /\ IF loop = "take" /\ t.refused = "skip"
                THEN test' = Len(tests) /\ UNCHANGED loop
                ELSE /\ loop' = CASE loop = "refill" -> "give"
                                  [] t.refused = "undo" -> "undo"
                                  [] t.refused = "keep" -> "check"
                     /\ UNCHANGED test
             /\ UNCHANGED <<cmd, mine, start>>

\* The test looks at what it has taken; ok is what it expects to see.
Checks(name, t, ok) ==
    /\ cmd = name /\ loop = "check"
    /\ pass' = (pass /\ ok)
    /\ loop' = IF t.holes THEN "holes" ELSE "give"
    /\ UNCHANGED <<cmd, test, mine, start, denied>>

\* A slot was given back.
Gave ==
    /\ mine' = Restrict(mine, DOMAIN mine \ {GiveSlot})
    /\ loop' = IF loop = "holes" /\ \A s \in DOMAIN mine' : s % 2 = 0
               THEN "refill" ELSE loop
    /\ UNCHANGED <<cmd, test, start, pass, denied>>

\* All is given back: a last look, and on to the next test, which reads count.
Over(name, tests, ok, count) ==
    /\ cmd = name /\ loop \in {"give", "undo"} /\ mine = Nothing
    /\ IF loop = "undo" THEN Return
       ELSE /\ pass' = (pass /\ ok) /\ start' = count
            /\ IF test = Len(tests)
               THEN loop' = "verdict" /\ UNCHANGED test
               ELSE /\ test' = test + 1
                    /\ loop' = IF tests[test + 1].wants = << >> THEN "check" ELSE "take"
            /\ UNCHANGED <<cmd, mine, denied>>

\* The last line: ALL PASS or SOME FAILED.
Verdict == loop = "verdict" /\ Return
=============================================================================
