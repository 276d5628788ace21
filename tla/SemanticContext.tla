-------------------------- MODULE SemanticContext --------------------------
(***************************************************************************)
(* SymTable and ValueManager: maps from (name, declaring block) to a type  *)
(* or to a value, and the lookup that walks the enclosing blocks.  A scope *)
(* is the chain of blocks around a node, innermost first.  Both visitors   *)
(* own one table each, so the operators take the table as an argument.     *)
(***************************************************************************)
EXTENDS Integers, Sequences

SymTabKey(name, block) == <<name, block>>

EmptyTable == [k \in {} |-> k]

\* try_emplace for an absent key, insert_or_assign in general.
Emplace(table, key, v) ==
    [k \in DOMAIN table \cup {key} |-> IF k = key THEN v ELSE table[k]]

\* The positions in scope at which name is declared.
DeclaredAt(table, name, scope) ==
    { i \in DOMAIN scope : SymTabKey(name, scope[i]) \in DOMAIN table }

\* The innermost block of scope that declares name; 0 stands for nullptr.
getDeclScopeFor(table, name, scope) ==
    LET at == DeclaredAt(table, name, scope)
    IN  IF at = {} THEN 0 ELSE scope[CHOOSE i \in at : \A j \in at : i <= j]

isDefined(table, name, scope) == getDeclScopeFor(table, name, scope) # 0

getDeclKeyFor(table, name, scope) ==
    SymTabKey(name, getDeclScopeFor(table, name, scope))

getTypeFor(table, name, scope) == table[getDeclKeyFor(table, name, scope)]

tryDefine(table, key, type) ==
    IF key \in DOMAIN table THEN table ELSE Emplace(table, key, type)

containsKeyWithType(table, type) == \E k \in DOMAIN table : table[k] = type

linkValueWithName(values, key, v) == Emplace(values, key, v)
=============================================================================
