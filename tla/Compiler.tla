------------------------------ MODULE Compiler ------------------------------
(***************************************************************************)
(* The paracl process in its compiler mode and what compiler.sh does with  *)
(* its output: the program is parsed and validated as in the default mode, *)
(* CodeGenVisitor generates IR from the tree, clang compiles the IR and    *)
(* links it with pcllib.cpp, and the executable runs.                      *)
(***************************************************************************)
EXTENDS CodeGenVisitor, ErrorHandler, Machine

VARIABLE phase      \* "validate", "generate" or "execute"

vars == <<visitorVars, checkVars, genVars, machineVars, phase>>

Init ==
    /\ prog \in Programs
    /\ cur = 1 /\ done = RootFrame(prog) /\ status = "running"
    /\ CheckInit /\ GenInit /\ MachineInit
    /\ phase = "validate"

Validate ==
    /\ phase = "validate"
    /\ CheckNext
    /\ UNCHANGED <<genVars, machineVars, phase>>

Reject ==
    /\ phase = "validate" /\ Running /\ cur = 0 /\ Errors # <<>>
    /\ Stop("rejected")
    /\ UNCHANGED <<checkVars, genVars, machineVars, phase>>

StartGeneration ==
    /\ phase = "validate" /\ Running /\ cur = 0 /\ Errors = <<>>
    /\ phase' = "generate"
    /\ cur' = 1 /\ done' = RootFrame(prog)
    /\ UNCHANGED <<prog, status, checkVars, genVars, machineVars>>

Generate ==
    /\ phase = "generate"
    /\ GenNext
    /\ UNCHANGED <<checkVars, machineVars, phase>>

\* compiler.sh: paracl has written the IR, clang takes it or not.
Link ==
    /\ phase = "generate" /\ Running /\ cur = 0
    /\ IF Verifies(ir)
       THEN /\ Load(ir) /\ phase' = "execute"
            /\ UNCHANGED <<visitorVars, checkVars, genVars>>
       ELSE /\ Stop("invalidIR")
            /\ UNCHANGED <<checkVars, genVars, machineVars, phase>>

Execute ==
    /\ phase = "execute"
    /\ MachineNext
    /\ UNCHANGED <<visitorVars, checkVars, genVars, phase>>

Stopped == (~Running \/ outcome # "running") /\ UNCHANGED vars

Next == Validate \/ Reject \/ StartGeneration \/ Generate \/ Link \/ Execute \/ Stopped

Spec == Init /\ [][Next]_vars

\* The executable has one thread and nothing suspends it; nothing is assumed of paracl.
FairSpec == Spec /\ WF_vars(Execute)
=============================================================================
