------------------------------- MODULE Tokens -------------------------------
(***************************************************************************)
(* What the scanner returns: the symbol a token stands for in the grammar, *)
(* the name of a variable, the value of a number.                          *)
(***************************************************************************)
EXTENDS Integers

Token(sym) == [sym |-> sym, name |-> "", val |-> 0]
VAR(x)     == [Token("VAR") EXCEPT !.name = x]
NUMBER(v)  == [Token("NUMBER") EXCEPT !.val = v]
EOF        == Token("end of file")
=============================================================================
