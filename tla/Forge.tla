-------------------------------- MODULE Forge --------------------------------
(***************************************************************************)
(* The Forge of src/agent/forge: threads forge capabilities, verify code by  *)
(* its test cases and execute it, each execution in a process of its own     *)
(* that reads a temporary file; what is forged goes to one registry.         *)
(*                                                                         *)
(* Of code, only this matters: whether it passes the validator.  What a run  *)
(* of it comes to is any of Outcomes, for each test case anew.  The process  *)
(* of the threads may die at any point.                                      *)
(***************************************************************************)
EXTENDS Naturals, Sequences, FiniteSets

CONSTANTS
    Callers,
    Names,        \* names of tools
    Files,        \* temporary files: the bound on executions
    MaxCases      \* bound: test cases of one call

ASSUME MaxCasesAssumption == MaxCases \in Nat

Codes == {"valid", "rejected"}

\* The result that the test case expects, or another; nothing, and an empty text
\* for an error: the code has no function, or its function raised, which is said
\* on stdout; an error, from stderr or by timeout.
Outcomes == {"expected", "other", "silent", "error"}

\* A test case: whether its arguments can be written as JSON, and whether it
\* states an expected result.
Cases == [plain : BOOLEAN, stated : BOOLEAN]

VARIABLES
    tools,        \* _tools of the registry
    files,        \* temporary files on the disk
    call,         \* per thread, the call in progress
    answer,       \* history: the last answer of verify with what its test cases came to
    left,         \* history: files left by an exception or by the end of the process
    taken         \* history: names of temporary files used

forge == <<tools, files, call, answer, left, taken>>

NoCall == [op |-> "none"]

\* A call: the code, the test cases to come, all_passed, the file of the process
\* that runs, and, for the properties, what the test cases so far came to.
Calling(op, name, code, cases) ==
    [op |-> op, name |-> name, code |-> code, cases |-> cases, passed |-> TRUE,
     file |-> {}, seen |-> {}]

ForgeInit ==
    /\ tools = {}
    /\ files = {}
    /\ call = [t \in Callers |-> NoCall]
    /\ answer = [passed |-> TRUE, seen |-> {}]
    /\ left = {}
    /\ taken = {}

-----------------------------------------------------------------------------
(* Calls. *)

\* The body of the function synthesized is not indented under its `try:`, so
\* that it is no Python, with lessons or without.
Synthesized == "rejected"

\* The one test case of a specification.
Generated == <<[plain |-> TRUE, stated |-> FALSE]>>

Calls(t, op, name, code, cases) ==
    /\ call[t] = NoCall
    /\ call' = [call EXCEPT ![t] = Calling(op, name, code, cases)]
    /\ UNCHANGED <<tools, files, answer, left, taken>>

Forge(t, name) == Calls(t, "forge", name, Synthesized, Generated)

Verify(t, code, cases) == Calls(t, "verify", "", code, cases)

Execute(t, code, case) == Calls(t, "execute", "", code, <<case>>)

RegisterTool(name) ==
    /\ tools' = tools \cup {name}
    /\ UNCHANGED <<files, call, answer, left, taken>>

UnregisterTool(name) ==
    /\ name \in tools
    /\ tools' = tools \ {name}
    /\ UNCHANGED <<files, call, answer, left, taken>>

-----------------------------------------------------------------------------
(* The executor, and the verifier around it. *)

HasCase(t) == call[t] # NoCall /\ call[t].file = {} /\ call[t].cases # <<>>

\* A test case is passed: an error text that is empty is no error.
Passes(case, outcome) ==
    /\ outcome # "error"
    /\ case.stated => outcome = "expected"

\* Mutant: the last test case decides.
CaseDoneLast(c, outcome) ==
    [c EXCEPT !.passed = Passes(Head(c.cases), outcome),
              !.cases = Tail(@),
              !.file = {},
              !.seen = @ \cup {[stated |-> Head(c.cases).stated, outcome |-> outcome]}]

\* The call after a test case that came to an outcome.
CaseDone(c, outcome) ==
    [c EXCEPT !.passed = @ /\ Passes(Head(c.cases), outcome),
              !.cases = Tail(@),
              !.file = {},
              !.seen = @ \cup {[stated |-> Head(c.cases).stated, outcome |-> outcome]}]

\* The validator refuses the code: that is the error of the test case.
Refuse(t) ==
    /\ HasCase(t)
    /\ call[t].code = "rejected"
    /\ call' = [call EXCEPT ![t] = CaseDone(@, "error")]
    /\ UNCHANGED <<tools, files, answer, left, taken>>

\* The file is written and a process runs it.
Launch(t, f) ==
    /\ HasCase(t)
    /\ call[t].code = "valid"
    /\ Head(call[t].cases).plain
    /\ f \notin taken
    /\ files' = files \cup {f}
    /\ taken' = taken \cup {f}
    /\ call' = [call EXCEPT ![t].file = {f}]
    /\ UNCHANGED <<tools, answer, left>>

\* The file is there and cannot be written: the arguments are no JSON, or the
\* disk is full.  This is before the try that removes it, and the exception goes
\* through verify to the caller.
LaunchRaises(t, f) ==
    /\ HasCase(t)
    /\ call[t].code = "valid"
    /\ f \notin taken
    /\ files' = files \cup {f}
    /\ taken' = taken \cup {f}
    /\ left' = left \cup {f}
    /\ call' = [call EXCEPT ![t] = NoCall]
    /\ UNCHANGED <<tools, answer>>

\* The process ends or is killed at its timeout; the file goes in any case.
RunEnds(t, outcome) ==
    /\ call[t] # NoCall
    /\ call[t].file # {}
    /\ files' = files \ call[t].file
    /\ call' = [call EXCEPT ![t] = CaseDone(@, outcome)]
    /\ UNCHANGED <<tools, answer, left, taken>>

\* The call returns; forge_capability registers what was verified.
Returns(t) ==
    /\ call[t] # NoCall
    /\ call[t].cases = <<>>
    /\ call[t].file = {}
    /\ answer' = IF call[t].op = "execute" THEN answer
                 ELSE [passed |-> call[t].passed, seen |-> call[t].seen]
    /\ tools' = IF call[t].op = "forge" /\ call[t].passed THEN tools \cup {call[t].name} ELSE tools
    /\ call' = [call EXCEPT ![t] = NoCall]
    /\ UNCHANGED <<files, left, taken>>

\* The process of the threads dies: the registry was in its memory.
Crash ==
    /\ tools' = {}
    /\ call' = [t \in Callers |-> NoCall]
    /\ left' = left \cup {f \in files : \E t \in Callers : call[t] # NoCall /\ f \in call[t].file}
    /\ UNCHANGED <<files, answer, taken>>

ForgeNext ==
    \/ \E t \in Callers :
          \/ \E name \in Names : Forge(t, name)
          \/ \E code \in Codes, n \in 0 .. MaxCases : \E cases \in [1 .. n -> Cases] : Verify(t, code, cases)
          \/ \E code \in Codes, case \in Cases : Execute(t, code, case)
          \/ \E f \in Files : Launch(t, f) \/ LaunchRaises(t, f)
          \/ \E outcome \in Outcomes : RunEnds(t, outcome)
          \/ Refuse(t)
          \/ Returns(t)
    \/ \E name \in Names : RegisterTool(name) \/ UnregisterTool(name)
    \/ Crash

ForgeSpec == ForgeInit /\ [][ForgeNext]_forge

-----------------------------------------------------------------------------
\* A verdict is that of all its test cases: code is verified only if no run of it
\* ended in an error text and each stated result was the one expected, however
\* many cases there were and whatever other threads ran meanwhile.
VerdictSound ==
    answer.passed <=> \A s \in answer.seen : s.outcome # "error" /\ (s.stated => s.outcome = "expected")

\* A temporary file is that of a run in progress, or was left where it could not
\* be written or when the process died: no way for a run to end leaves one.
FilesAccounted ==
    files = left \cup UNION {call[t].file : t \in {u \in Callers : call[u] # NoCall}}

\* Verdicts are sound and temporary files accounted for, at the same time: neither
\* a failing run nor a crash trades the one for the other.
ForgeSound == VerdictSound /\ FilesAccounted

=============================================================================
