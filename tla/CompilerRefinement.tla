------------------------- MODULE CompilerRefinement -------------------------
(***************************************************************************)
(* The executable is the program: it implements the language, the blocks,  *)
(* the registers and the memory notwithstanding.                           *)
(***************************************************************************)
EXTENDS CompilerProperties

Seen ==
    IF phase # "execute" THEN IF Running THEN "running" ELSE "refused"
    ELSE CASE outcome = "running" -> "running"
           [] outcome = "exited" -> "ended"
           [] outcome = "badInput" -> "badInput"
           [] outcome = "trapped" -> "fault"
           [] OTHER -> "undefined"

Lang == INSTANCE Language WITH program <- prog, excused <- Accepted /\ Miscompiled,
            read <- scanned, printed <- output, outcome <- Seen

\* The executable prints what the program means, reads when it has printed all it could,
\* and ends as the program does, whatever memory holds before it is written.
CompiledImplementsLanguage == Lang!Spec

-----------------------------------------------------------------------------
Plain == INSTANCE Language WITH program <- prog, excused <- FALSE,
            read <- scanned, printed <- output, outcome <- Seen

\* README: all types are integer, array concatenates everything that is passed to it, and
\* there are two modes to run one program: the executable prints what the program means.
PrintsItsMeaning == Plain!Spec
=============================================================================
