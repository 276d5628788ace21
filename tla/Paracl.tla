------------------------------- MODULE Paracl -------------------------------
(***************************************************************************)
(* The paracl process in its default mode: main has the program parsed,    *)
(* validate() runs an ErrorHandler over the tree, and evaluate() runs an   *)
(* Interpreter over the same tree if no error was found.  The two visitors *)
(* share nothing but the tree; the C++ stack is one.                       *)
(***************************************************************************)
EXTENDS Interpreter, ErrorHandler

VARIABLE phase      \* which visitor is running: "validate" or "evaluate"

vars == <<visitorVars, interpVars, checkVars, phase>>

Init ==
    /\ prog \in Programs
    /\ cur = 1 /\ done = RootFrame(prog) /\ status = "running"
    /\ CheckInit
    /\ InterpInit
    /\ phase = "validate"

Validate ==
    /\ phase = "validate"
    /\ CheckNext
    /\ UNCHANGED <<interpVars, phase>>

\* main: print the errors and return SyntaxErr ...
Reject ==
    /\ phase = "validate" /\ Running /\ cur = 0 /\ Errors # <<>>
    /\ Stop("rejected")
    /\ UNCHANGED <<interpVars, checkVars, phase>>

\* ... or evaluate the program.
StartEvaluation ==
    /\ phase = "validate" /\ Running /\ cur = 0 /\ Errors = <<>>
    /\ phase' = "evaluate"
    /\ cur' = 1 /\ done' = RootFrame(prog)
    /\ UNCHANGED <<prog, status, interpVars, checkVars>>

Evaluate ==
    /\ phase = "evaluate"
    /\ InterpNext
    /\ UNCHANGED <<checkVars, phase>>

Exit ==
    /\ phase = "evaluate" /\ Running /\ cur = 0
    /\ Stop("exited")
    /\ UNCHANGED <<interpVars, checkVars, phase>>

Stopped == ~Running /\ UNCHANGED vars

Next == Validate \/ Reject \/ StartEvaluation \/ Evaluate \/ Exit \/ Stopped

Spec == Init /\ [][Next]_vars

\* One thread that nothing suspends: it takes its next step.
FairSpec == Spec /\ WF_vars(Next)
=============================================================================
