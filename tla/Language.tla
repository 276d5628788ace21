------------------------------ MODULE Language ------------------------------
(***************************************************************************)
(* The ParaCL language as its user sees it: a program reads ints, prints   *)
(* ints and ends.  At every moment it has printed a part of what its       *)
(* meaning is for the ints it has read, it reads only when it has printed  *)
(* all of that, and it ends as its meaning ends.  An implementation may    *)
(* refuse the program before it does anything, and nothing is said of a    *)
(* program without meaning nor of an execution that is excused.            *)
(***************************************************************************)
EXTENDS Semantics

VARIABLES
    program,
    excused,     \* nothing is claimed of this execution any more
    read,        \* the ints read
    printed,     \* the ints printed
    outcome      \* "running", or how it ended

observed == <<program, excused, read, printed, outcome>>

Outcomes == {"running", "ended", "badInput", "fault", "refused", "undefined"}

Now == Meaning(program, read)

Init ==
    /\ WellFormed(program)
    /\ excused \in BOOLEAN
    /\ read = <<>> /\ printed = <<>> /\ outcome = "running"

\* All that can be told from what was read has been printed, and it ends in this way.
Comes(end) == Now.end = end /\ printed = Now.out

Reads ==
    /\ read' # read
    /\ Comes("waits")
    /\ \E v \in Int32 : read' = Append(read, v)
    /\ UNCHANGED <<program, excused, printed, outcome>>

Prints ==
    /\ printed' # printed
    /\ Now.end # "undefined"
    /\ IsStrictPrefix(printed, printed') /\ IsPrefix(printed', Now.out)
    /\ UNCHANGED <<program, excused, read, outcome>>

Ends ==
    /\ outcome' # outcome
    /\ \/ outcome' = "ended" /\ Comes("ended")
       \/ outcome' = "badInput" /\ Comes("waits")
       \/ outcome' = "fault" /\ Comes("fault")
       \/ outcome' = "refused" /\ read = <<>> /\ printed = <<>>
    /\ UNCHANGED <<program, excused, read, printed>>

Anything ==
    /\ observed' # observed
    /\ excused' \/ Now.end = "undefined"
    /\ outcome' \in Outcomes
    /\ UNCHANGED program

Next == outcome = "running" /\ (excused => excused') /\ (Reads \/ Prints \/ Ends \/ Anything)

Spec == Init /\ [][Next]_observed
=============================================================================
