------------------------------- MODULE MCTables -------------------------------
EXTENDS ObjTables, TLC

\* Less than a chunk of two bytes.
FileSize  == [n \in Name |-> 1]

\* No call tells one unit of text from another.
UnitSymmetry == Permutations(Unit)

\* Calls on text and calls on files share no state: a behaviour has open files or text.
OneKind == tx_used = {} \/ eo_used = {}
===============================================================================
