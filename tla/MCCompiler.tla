----------------------------- MODULE MCCompiler -----------------------------
(***************************************************************************)
(* Small instances of Compiler. f has no parameter and g has one.          *)
(***************************************************************************)
EXTENDS Compiler

MCParams == ("f" :> <<>>) @@ ("g" :> <<"x">>)

MCSamples == {IntV(0)}

\* Nested functions, branches, loops, try blocks and declarations.
Nested ==
  [stmts |-> {"func", "if", "else", "while", "try", "return", "return_in_try", "let",
              "const", "assign", "object"},
   exprs |-> {"number", "incdec", "call", "call_in_try", "print"},
   maxCode |-> 7, maxDepth |-> 1]

\* Statements that add straight code, over computed values, in functions and branches.
Computed ==
  [stmts |-> {"func", "if", "expression", "require", "emit", "return", "empty_return",
              "empty_print", "let"},
   exprs |-> {"number", "large", "symbol", "TRUE", "+", "neg", "!", "call", "label"},
   maxCode |-> 5, maxDepth |-> 2]

\* The counting loop, in functions, with what may be declared in and after it.
Counting ==
  [stmts |-> {"func", "for", "if", "let", "assign"}, exprs |-> {"number"},
   maxCode |-> 9, maxDepth |-> 1]

\* Objects, arrays and the operators over them.
Access ==
  [stmts |-> {"func", "let", "member_assign", "expression"},
   exprs |-> {"this", "symbol", "array", "access", "member", "getEnv", "len", "contains",
              "nonce", "hash", "Error", "fields", "unnamed", "unsupported"},
   maxCode |-> 5, maxDepth |-> 2]

MCClasses == {Nested, Computed, Counting, Access}
=============================================================================
