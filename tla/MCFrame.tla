------------------------------- MODULE MCFrame --------------------------------
EXTENDS Frame

Function(params, maxStats, maxExprs, maxArgs, maxNames, exprs_, stats_) ==
  [params |-> params, maxStats |-> maxStats, maxExprs |-> maxExprs, maxArgs |-> maxArgs,
   maxNames |-> maxNames, exprs |-> exprs_, stats |-> stats_]

(* Rows inside rows: one return of nested calls and constructors.          *)
OfRows == Function(0, 1, 2, 2, 1, {"call", "vararg", "table"}, {"return"})
OfMethods == Function(0, 1, 2, 1, 1, {"call", "method", "vararg"}, {"return"})

(* Branches, loops and code nothing reaches.                               *)
OfBlocks == Function(0, 3, 0, 0, 1, {"call"}, {"if", "while", "in", "break", "return"})

(* Locals, and the temporaries of what is computed among them.             *)
OfLocals == Function(1, 2, 1, 0, 2, {"call", "binary"}, {"local", "do", "for"})
OfChoices == Function(1, 1, 2, 1, 1, {"call", "local", "unary", "and"}, {"local", "assign"})

(* A local that changes around a loop, and values read by name.            *)
OfChanges == Function(1, 2, 1, 0, 1, {"call", "binary"}, {"while", "assign"})
OfGlobals == Function(0, 2, 2, 1, 1, {"call", "global"}, {"local", "call"})

(* A local and a loop or a call in its scope.                              *)
OfScopes == Function(0, 2, 0, 0, 1, {"call"}, {"local", "while", "call"})

AllFunctions ==
  {OfRows, OfMethods, OfBlocks, OfLocals, OfChoices, OfChanges, OfGlobals}
ScopedFunctions == {OfScopes}
===============================================================================
