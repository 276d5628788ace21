-------------------------- MODULE ParaclRefinement --------------------------
(***************************************************************************)
(* The interpreter implements the language, the heap, the tables and the   *)
(* call stack notwithstanding.                                             *)
(***************************************************************************)
EXTENDS ParaclProperties

\* The names whose own value, or an element of it, the value of node n may be or may be
\* made from again.
Denotes(p, n) ==
    LET D[m \in Nodes(p)] ==
            CASE p[m].kind \in {"variable", "access"} -> {p[m].name}
              [] p[m].kind = "assign" -> {p[m].name} \cup D[p[m].kids[1]]
              [] p[m].kind = "accessAssign" -> D[p[m].kids[2]]
              [] p[m].kind \in {"print", "holder", "uniform"} \/ (p[m].kind = "un" /\ p[m].op = "+")
                   -> D[p[m].kids[1]]
              [] OTHER -> {}
    IN  D[n]

\* The assignments to one of these names or to an element of one.
Writes(p, names) ==
    { m \in Nodes(p) : \/ p[m].kind = "assign" /\ p[m].name \in names
                       \/ p[m].kind = "accessAssign" /\ p[p[m].kids[1]].name \in names }

\* An operand that is a variable and not yet a value when a later operand writes it.
ReadsOperandsLate(p) ==
    \E n \in Nodes(p) :
        /\ p[n].kind \in {"calc", "logic", "uniform", "preset"}
        /\ \E i, j \in DOMAIN p[n].kids :
              /\ i < j
              /\ \E m \in Writes(p, Denotes(p, p[n].kids[i])) : p[n].kids[j] \in Ancestors(p, m)

Uniforms(p) == { n \in Nodes(p) : p[n].kind = "uniform" }

NamesOfUniforms(p) ==
    { p[n].name : n \in { n \in Nodes(p) :
        p[n].kind = "assign" /\ p[p[n].kids[1]].kind = "holder"
            /\ p[p[p[n].kids[1]].kids[1]].kind = "uniform" } }

\* A uniform array is repeated by its name, and what one was made from, or an element
\* of one, is written.
RebuildsUniforms(p) ==
    /\ \E n \in Uniforms(p) : Denotes(p, p[n].kids[1]) \cap NamesOfUniforms(p) # {}
    /\ \/ \E m \in Writes(p, NamesOfUniforms(p)) : p[m].kind = "accessAssign"
       \/ \E n \in Uniforms(p) : \E m \in Writes(p, Denotes(p, n)) :
             m > n \/ (\E w \in Ancestors(p, m) \cap Ancestors(p, n) : p[w].kind = "while")

Lang == INSTANCE Language WITH
            program <- prog,
            excused <- ReadsOperandsLate(prog) \/ RebuildsUniforms(prog) \/ RedefinesArray,
            read    <- reads,
            printed <- output,
            outcome <- IF Running THEN "running"
                       ELSE IF ~Evaluating THEN "refused"
                       ELSE CASE status = "exited" -> "ended"
                              [] status = "badInput" -> "badInput"
                              [] status \in {"divByZero", "trapped"} -> "fault"
                              [] OTHER -> "undefined"

\* The interpreter prints what the program means, reads when it has printed all it
\* could, stops for an arithmetic fault exactly when the program has one, and goes wrong
\* in no other way unless the program has no meaning.  Excused are the operands read
\* after a later one wrote them, the uniform arrays built again, and what a loop binds
\* to a name that has an array.
ImplementsLanguage == Lang!Spec

-----------------------------------------------------------------------------
\* The checker, which computes with constants as the interpreter does, ends the process
\* for a division only where the language has no value for it either: the operation is
\* one the program, should it ever get there, could only fail in.
CheckerFaultsAreReal ==
    [][ phase = "validate" /\ status' \in {"divByZero", "trapped"} =>
            Lang!Eval(prog, cur, Lang!Start(<<>>)).end = "fault" ]_vars
=============================================================================
