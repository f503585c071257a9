----------------------------- MODULE MCSymbols -----------------------------
(* A small program for SymbolTable: two names and a structure without tag,  *)
(* spread over two buckets that the built-in functions use too.             *)
EXTENDS SymbolTable

MCHash == [x \in AllNames |-> IF x \in {"a", "read", Hidden} THEN 1 ELSE 2]
=============================================================================
