----------------------------- MODULE MCLifecycle -----------------------------
(***************************************************************************)
(* Small instances of Lifecycle: classes of short programs, compiled,      *)
(* initialised and executed.                                               *)
(***************************************************************************)
EXTENDS Lifecycle

NoParams == [f \in Funcs |-> <<>>]
FuncSymmetry == Permutations(Funcs)

MCSamples == {IntV(0), FloatV(0), StrV(1), ObjV(0)}
MCArguments == {FloatV(0)}

\* Functions, requires and try blocks; calls are statements of their own.
Calls ==
  [stmts |-> {"func", "try", "require", "expression"}, exprs |-> {"number", "call"},
   maxCode |-> 9, maxDepth |-> 1]

\* No program with a number standing as a statement.
NumbersAreConditions ==
  \A i \in 1..(Len(code) - 1) : code[i].op = "PUSH" => code[i + 1].op = "JMP_IF"

\* Branches, loops, errors and returns over computed values, with no call.
Computed ==
  [stmts |-> {"func", "if", "while", "require", "try", "return", "return_in_try",
              "empty_return", "const", "assign", "emit", "expression"},
   exprs |-> {"number", "large", "symbol", "TRUE", "+", "neg"},
   maxCode |-> 4, maxDepth |-> 2]

\* Errors in the handlers of errors.
Handlers ==
  [stmts |-> {"func", "try", "require"}, exprs |-> {"number"}, maxCode |-> 9, maxDepth |-> 1]

StructuredClasses == {Calls}
AnswersClasses == {Computed, Handlers}
CallInTryClasses == {[Calls EXCEPT !.exprs = @ \cup {"call_in_try"}, !.maxCode = 10]}
ReturnInTryClasses ==
  {[Calls EXCEPT !.stmts = @ \cup {"return", "return_in_try"}, !.maxCode = 10]}
ForwardClasses == {[Calls EXCEPT !.exprs = @ \cup {"forward"}, !.maxCode = 7]}
=============================================================================
