---------------------------- MODULE MCOwnership ----------------------------
(* Ownership for TLC: the variables of the program are interchangeable,    *)
(* and so are the C objects.  Four programs: one that uses everything that *)
(* executes, one that only loads and looks, one that runs an AST, and one  *)
(* that builds modules and asks for types.                                 *)
EXTENDS Ownership, TLC

Symmetry == Permutations(Vars) \cup Permutations(Objs)

Executing ==
  {"vm", "store", "statistics", "executor", "module", "table", "memory", "global", "async"}
Loading ==
  Types \cup {"configure", "loader", "validator", "compiler", "ast", "importtype", "exporttype"}
RunningAST == {"vm", "loader", "validator", "ast", "async", "functiontype"}
Building == Types \cup {"module", "table", "memory", "global", "tag"}

MCPrograms == {Executing, Loading, RunningAST, Building}
===========================================================================
