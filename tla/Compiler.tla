------------------------------ MODULE Compiler ------------------------------
(***************************************************************************)
(* Code generation, compiler/: CompileProgram's walk over the syntax tree, *)
(* one action per node entered, left or emitted. The tree is not given in  *)
(* advance: each action picks the next node, so the behaviours are the     *)
(* compilations of every program built from the chosen constructs.         *)
(*                                                                         *)
(* compileExpr's recursion is a post-order walk: operands are emitted      *)
(* before their operator, and expr.depth counts the subexpressions whose   *)
(* operator is still to come. The recursion of compileStmt is the stack    *)
(* open of the constructs whose closing code is still to come.             *)
(*                                                                         *)
(* Programs are taken from a class. Beside the kinds of nodes its sets     *)
(* hold words for what the other classes leave out: "redeclare" (of a      *)
(* function), "return_in_try", "call_in_try", "forward" (a call before the *)
(* declaration), "empty_print" (an empty return outside functions).        *)
(*                                                                         *)
(* The analyzer walks the same tree before the compiler does. Its scope is *)
(* InScope: what the code compiled so far has brought in, visible, and     *)
(* what the last clauses of the loops under way will. Its refusals are     *)
(* guards of the actions that compile what it refuses, so that only        *)
(* accepted programs are compiled.                                         *)
(*                                                                         *)
(* A definition marked "a fault" is a mutation of the one after it, which  *)
(* the properties are tried on; nothing else uses it.                      *)
(***************************************************************************)
EXTENDS Bytecode, SequencesExt

CONSTANTS
  Names,      \* variable names
  Funcs,      \* function names
  Params,     \* Params[f]: the parameter names of f, in order
  Classes,    \* the classes of programs, each [stmts, exprs, maxCode, maxDepth]:
              \* the kinds of statements and of expressions, the code length from
              \* which no construct is begun, the bound on operands in wait
  Numbers,    \* the small number literals, at most Byte
  Byte,       \* how many values an operand byte holds: 256
  MaxPool,    \* how many constants the operand of CONST reaches: 256
  MaxOpen     \* bound on the nesting of statements

ASSUME CompilerAssumption ==
  /\ Byte \in Nat \ {0}
  /\ MaxPool \in 1..Byte
  /\ Params \in [Funcs -> Seq(Names)]
  /\ Numbers \subseteq 0..Byte

VARIABLES
  class,          \* the class the program is of
  code,           \* c.Code
  pool,           \* c.ConstPool
  symbols,        \* c.Symbols: name -> slot
  constants,      \* the names x for which c.Symbols has x/CONST
  nextSlot,       \* c.NextSlot
  functions,      \* c.Functions
  functionName,   \* c.FunctionName
  isInFunction,   \* c.isInFunction
  open,           \* the statements being compiled, the innermost last
  expr,           \* the expression being compiled
  visible,        \* the names the analyzer has in scope for a statement already compiled
  called,         \* names whose calls the analyzer has checked
  stage           \* "compiling", "compiled" or "panicked"

scope == <<symbols, constants, nextSlot>>
decls == <<functions, functionName>>
analysis == <<visible, called>>
cvars == <<class, code, pool, scope, decls, isInFunction, open, expr, analysis, stage>>

(* The constants the modelled constructs put in the pool. *)
Message == StrV(1)       \* an error or require message
EventName == StrV(2)
Key == StrV(3)           \* a property name
Large == FloatV(Byte + 1)  \* a number that does not fit OP_PUSH
Tree == ObjV(2)          \* the operand of getEnv
Items == Value("arr", 1)

Pos == Len(code)         \* compiler.go:365 currentPos
InExpr == expr.for # "nothing"
NoExpr == [for |-> "nothing", name |-> "", slot |-> 0, depth |-> 0]
Expr(for, name, slot) == [for |-> for, name |-> name, slot |-> slot, depth |-> 0]

(* An open statement: p, q and r are code positions; the scope fields hold *)
(* what leaving the statement restores, start the analyzer's scope where   *)
(* the body of a for begins, and post the names that the last clause of    *)
(* the for, yet to be compiled, brings in.                                 *)
Open(kind, p) ==
  [kind |-> kind, p |-> p, q |-> 0, r |-> 0, name |-> "", slot |-> 0,
   symbols |-> NoEntries, constants |-> {}, inFunction |-> FALSE,
   outer |-> {}, start |-> {}, post |-> {}]
Inner == Last(open)
Inside(kind) == open # <<>> /\ Inner.kind = kind

(* Where the analyzer looks: function bodies, but not the try statements,  *)
(* nor the functions, inside them (analyzer.go:162, :322).                 *)
Analyzed ==
  /\ open # <<>>
  /\ open[1].kind = "func"
  /\ \A i \in 2..Len(open) : open[i].kind \notin {"func", "try", "catch"}

(* The last clause of a for is analyzed before the body and in its scope   *)
(* (analyzer.go:379), and compiled after it (stmt.go:238): in the body a   *)
(* name it brings in is accepted before any code for it.                   *)
LastClauses == UNION {open[i].post : i \in {j \in DOMAIN open : open[j].kind = "for"}}
InScope == visible \cup LastClauses

\* The last clause of a for brings in the names that it was analyzed to bring in.
BringsIn(names) == Inside("for_post") /\ Analyzed => Inner.post = names \ InScope

----------------------------------------------------------------------------
(* compiler.go:285 emit, :289 addConst, :369 patchJump. *)
PoolIndex(pl, v) == CHOOSE i \in DOMAIN pl : pl[i] = v /\ \A j \in 1..(i - 1) : pl[j] # v
WithConst(v) == IF v \in Range(pool) THEN pool ELSE Append(pool, v)
ConstFromOne(v) == Instr("CONST", PoolIndex(WithConst(v), v) % MaxPool, 0)    \* a fault
Const(v) == Instr("CONST", (PoolIndex(WithConst(v), v) - 1) % MaxPool, 0)

\* addConst panics when the pool outgrows the operand byte.
Overflows(v) == v \notin Range(pool) /\ Len(pool) >= MaxPool

Emit(instrs) == code' = code \o instrs
AddConst(v) == ~Overflows(v) /\ pool' = WithConst(v)
Patched(cd, p, target) == [cd EXCEPT ![p + 1].a = target]

\* compiler.go:323 allocSlot, :330 getSlot
AllocSameSlot(name) ==                                  \* a fault
  /\ symbols' = Put(symbols, name, nextSlot)
  /\ UNCHANGED nextSlot

AllocSlot(name) ==
  /\ symbols' = Put(symbols, name, nextSlot)
  /\ nextSlot' = nextSlot + 1
GetSlot(name) == Lookup(symbols, name, nextSlot)

Hole(op) == Instr(op, 0, 0)

----------------------------------------------------------------------------
Init ==
  /\ class \in Classes
  /\ code = <<>>
  /\ pool = <<>>
  /\ symbols = NoEntries
  /\ constants = {}
  /\ nextSlot = 1
  /\ functions = NoEntries
  /\ functionName = NoEntries
  /\ isInFunction = FALSE
  /\ open = <<>>
  /\ expr = NoExpr
  /\ visible = {}
  /\ called = {}
  /\ stage = "compiling"

\* What the model takes for the first and last statement of a for; one of each.
ForClauses == {"let", "const", "assign", "expression"}

\* A statement may begin here.
Begins(kind) ==
  /\ stage = "compiling"
  /\ ~InExpr
  /\ kind \in class.stmts
  /\ Pos < class.maxCode
  /\ ~Inside("object")
  /\ Inside("for_init") \/ Inside("for_post") => Pos = Inner.p /\ kind \in ForClauses

Nests == Len(open) < MaxOpen

(* Inside a try block of the function being compiled. *)
InTry ==
  \E i \in DOMAIN open :
    /\ open[i].kind = "try"
    /\ \A j \in (i + 1)..Len(open) : open[j].kind # "func"

Visible(x) == Analyzed => x \in InScope
Declared(x) == visible' = IF Analyzed THEN visible \cup {x} ELSE visible

----------------------------------------------------------------------------
(* Expressions. *)
Operand(kind) == stage = "compiling" /\ InExpr /\ kind \in class.exprs /\ Pos < class.maxCode

\* The subexpression just compiled took n operands.
Built(n) == expr.depth >= n /\ expr' = [expr EXCEPT !.depth = @ - n + 1]
Leaf == expr.depth < class.maxDepth /\ Built(0)

\* expr.go:54: numbers up to 256 are pushed as a byte, so 256 becomes 0
Number ==
  /\ Operand("number")
  /\ Leaf
  /\ \E n \in Numbers : Emit(<<Instr("PUSH", n % Byte, 0)>>)
  /\ UNCHANGED <<class, pool, scope, decls, isInFunction, open, analysis, stage>>

LargeNumber ==
  /\ Operand("large")
  /\ Leaf
  /\ AddConst(Large)
  /\ Emit(<<Const(Large)>>)
  /\ UNCHANGED <<class, scope, decls, isInFunction, open, analysis, stage>>

Literal ==
  /\ stage = "compiling" /\ InExpr /\ Pos < class.maxCode
  /\ Leaf
  /\ \/ \E op \in {"TRUE", "FALSE", "NULL", "PUSH_OBJECT"} \cap class.exprs : Emit(<<Op(op)>>)
     \/ "this" \in class.exprs /\ Emit(<<Instr("SLOAD", 0, 0)>>)
  /\ UNCHANGED <<class, pool, scope, decls, isInFunction, open, analysis, stage>>

\* expr.go:68: an unknown name reads slot 0. The analyzer refuses those it sees.
Symbol ==
  /\ Operand("symbol")
  /\ Leaf
  /\ \E x \in Names :
       /\ Visible(x)
       /\ Emit(<<Instr("SLOAD", Lookup(symbols, x, 0) % Byte, 0)>>)
  /\ UNCHANGED <<class, pool, scope, decls, isInFunction, open, analysis, stage>>

\* expr.go:296: leaves nothing on the operand stack
IncDec ==
  /\ Operand("incdec")
  /\ Leaf
  /\ \E x \in Names, op \in {"ADD", "SUB"} :
       LET slot == Lookup(symbols, x, 0) % Byte
       IN  /\ Visible(x)
           /\ Emit(<<Instr("SLOAD", slot, 0), Instr("PUSH", 1, 0), Op(op),
                     Instr("STORE", slot, 0)>>)
  /\ UNCHANGED <<class, pool, scope, decls, isInFunction, open, analysis, stage>>

\* expr.go:215: '%' is parsed as an operator but emits nothing
BinaryCode(operator) ==
  CASE operator = "+" -> <<Op("SWAP"), Op("ADD")>>
    [] operator = "-" -> <<Op("SUB")>>    [] operator = "*" -> <<Op("MUL")>>
    [] operator = "/" -> <<Op("DIV")>>    [] operator = ">" -> <<Op("GT")>>
    [] operator = "<" -> <<Op("LT")>>     [] operator = "==" -> <<Op("EQ")>>
    [] operator = ">=" -> <<Op("GT_EQ")>> [] operator = "<=" -> <<Op("LT_EQ")>>
    [] operator = "!=" -> <<Op("DIFF")>>  [] operator = "&&" -> <<Op("AND")>>
    [] operator = "||" -> <<Op("OR")>>    [] operator = "%" -> <<>>
Operators == {"+", "-", "*", "/", ">", "<", "==", ">=", "<=", "!=", "&&", "||", "%"}

Binary ==
  /\ stage = "compiling" /\ InExpr /\ Pos < class.maxCode
  /\ Built(2)
  /\ \E operator \in Operators \cap class.exprs : Emit(BinaryCode(operator))
  /\ UNCHANGED <<class, pool, scope, decls, isInFunction, open, analysis, stage>>

\* expr.go:284
Prefix ==
  /\ stage = "compiling" /\ InExpr /\ Pos < class.maxCode
  /\ Built(1)
  /\ \/ "neg" \in class.exprs /\ Emit(<<Instr("PUSH", 0, 0), Op("SWAP"), Op("SUB")>>)
     \/ "!" \in class.exprs /\ Emit(<<Op("NOT")>>)
  /\ UNCHANGED <<class, pool, scope, decls, isInFunction, open, analysis, stage>>

\* expr.go:266: a function not compiled yet has the zero address
UserCall ==
  /\ Operand("call")
  /\ \E f \in Funcs :
       /\ f \in DOMAIN functions \/ "forward" \in class.exprs
       /\ InTry => "call_in_try" \in class.exprs
       /\ expr.depth - Len(Params[f]) < class.maxDepth
       /\ Built(Len(Params[f]))
       /\ Emit(<<Instr("CALL", IF f \in DOMAIN functions THEN functions[f].addr ELSE 0, 0)>>)
       /\ called' = IF Analyzed THEN called \cup {f} ELSE called
  /\ UNCHANGED <<class, pool, scope, decls, isInFunction, open, visible, stage>>

\* expr.go:269: print pops its argument and pushes nothing
PrintCall ==
  /\ Operand("print")
  /\ Built(1)
  /\ Emit(<<Op("PRINT")>>)
  /\ UNCHANGED <<class, pool, scope, decls, isInFunction, open, analysis, stage>>

\* expr.go:271, :344, :349: the other calls and operators that replace their
\* operands by one value. The analyzer knows no function of the name contains. A call
\* of what is not a name compiles its arguments alone (:262), ++ nothing (:299).
Operation ==
  /\ stage = "compiling" /\ InExpr /\ Pos < class.maxCode
  /\ \/ "access" \in class.exprs /\ Built(2) /\ Emit(<<Op("ACCESS")>>)
     \/ "len" \in class.exprs /\ Built(1) /\ Emit(<<Op("LENGTH")>>)
     \/ "contains" \in class.exprs /\ ~Analyzed /\ Built(2) /\ Emit(<<Op("CONTAINS")>>)
     \/ "nonce" \in class.exprs /\ Built(1) /\ Emit(<<Op("NONCE")>>)
     \/ "hash" \in class.exprs /\ Built(2) /\ Emit(<<Instr("HASH", 1, 0)>>)
     \/ "unnamed" \in class.exprs /\ (Leaf \/ Built(1) \/ Built(2)) /\ UNCHANGED code
  /\ UNCHANGED <<class, pool, scope, decls, isInFunction, open, analysis, stage>>

\* expr.go:321, :338: operators that take a constant; getEnv's is its operand's
\* syntax tree
WithConstant ==
  /\ stage = "compiling" /\ InExpr /\ Pos < class.maxCode
  /\ Built(1)
  /\ \/ "member" \in class.exprs /\ AddConst(Key) /\ Emit(<<Const(Key), Op("GET_PROPERTY")>>)
     \/ /\ "getEnv" \in class.exprs /\ AddConst(Tree)
        /\ Emit(<<Instr("GET_ENV", Const(Tree).a, 0)>>)
  /\ UNCHANGED <<class, scope, decls, isInFunction, open, analysis, stage>>

\* expr.go:81: arrays are not compared, so each literal is a constant of its own
ArrayLiteral ==
  /\ Operand("array")
  /\ Leaf
  /\ Len(pool) < MaxPool
  /\ pool' = Append(pool, Items)
  /\ Emit(<<Instr("CONST", Len(pool), 0)>>)
  /\ UNCHANGED <<class, scope, decls, isInFunction, open, analysis, stage>>

\* expr.go:357, of a code and a message that are literals; and :203, an object that is
\* an operand, of one field or two that are
ErrorExpr ==
  /\ stage = "compiling" /\ InExpr /\ Pos < class.maxCode
  /\ Leaf
  /\ AddConst(Key)
  /\ \/ /\ class.exprs \cap {"Error", "fields"} # {}
        /\ Emit(<<Op("PUSH_OBJECT"), Const(Key), Instr("PUSH", 1, 0), Op("SET_PROPERTY"),
                  Const(Key), Const(Key), Op("SET_PROPERTY")>>)
     \/ /\ "fields" \in class.exprs
        /\ Emit(<<Op("PUSH_OBJECT"), Const(Key), Instr("PUSH", 1, 0), Op("SET_PROPERTY")>>)
  /\ UNCHANGED <<class, scope, decls, isInFunction, open, analysis, stage>>

ExprStep ==
  Number \/ LargeNumber \/ Literal \/ Symbol \/ IncDec \/ Binary \/ Prefix
    \/ UserCall \/ PrintCall \/ Operation \/ WithConstant \/ ArrayLiteral \/ ErrorExpr

\* The expression is complete and `for` is what it was compiled for.
Ends(for) == stage = "compiling" /\ expr.for = for /\ expr.depth = 1

----------------------------------------------------------------------------
(* Simple statements. *)
BeginExpressionStmt ==
  /\ Begins("expression")
  /\ BringsIn({})
  /\ expr' = Expr("statement", "", 0)
  /\ UNCHANGED <<class, code, pool, scope, decls, isInFunction, open, analysis, stage>>

\* No instruction discards the value an expression statement leaves.
EndExpressionStmt ==
  /\ Ends("statement")
  /\ expr' = NoExpr
  /\ UNCHANGED <<class, code, pool, scope, decls, isInFunction, open, analysis, stage>>

\* stmt.go:66: a redeclaration is reported at run time, and compiled all the same
BeginVarDecl(x, isConst) ==
  /\ Begins(IF isConst THEN "const" ELSE "let")
  /\ BringsIn({x})
  /\ IF x \in DOMAIN symbols \/ x \in constants
     THEN AddConst(Message) /\ Emit(<<Const(Message), Op("ERR")>>)
     ELSE UNCHANGED <<code, pool>>
  /\ constants' = IF isConst THEN constants \cup {x} ELSE constants
  /\ expr' = Expr("variable", x, 0)
  /\ UNCHANGED <<class, symbols, nextSlot, decls, isInFunction, open, analysis, stage>>

EndVarDecl ==
  /\ Ends("variable")
  /\ AllocSlot(expr.name)
  /\ Emit(<<Instr("STORE", nextSlot % Byte, 0)>>)
  /\ Declared(expr.name)
  /\ expr' = NoExpr
  /\ UNCHANGED <<class, pool, constants, decls, isInFunction, open, called, stage>>

\* expr.go:136: assigning a constant is reported at run time
AssignConstant(x) ==
  /\ Begins("assign")
  /\ x \in constants /\ BringsIn({x})
  /\ AddConst(Message)
  /\ Emit(<<Const(Message), Op("ERR")>>)
  /\ Declared(x)
  /\ UNCHANGED <<class, scope, decls, isInFunction, open, expr, called, stage>>

NewName(x) ==
  IF x \in DOMAIN symbols THEN UNCHANGED <<symbols, nextSlot>> ELSE AllocSlot(x)

BeginAssign(x) ==
  /\ Begins("assign")
  /\ x \notin constants /\ BringsIn({x})
  /\ NewName(x)
  /\ expr' = Expr("assignment", x, GetSlot(x))
  /\ UNCHANGED <<class, code, pool, constants, decls, isInFunction, open, analysis, stage>>

EndAssign ==
  /\ Ends("assignment")
  /\ Emit(<<Instr("STORE", expr.slot % Byte, 0)>>)
  /\ Declared(expr.name)
  /\ expr' = NoExpr
  /\ UNCHANGED <<class, pool, scope, decls, isInFunction, open, called, stage>>

\* expr.go:175: the object is this, a variable, or, of x.y.z = v, left out
BeginMemberAssign ==
  /\ Begins("member_assign")
  /\ AddConst(Key)
  /\ \/ \E x \in Names :
          /\ Visible(x)
          /\ Emit(<<Instr("SLOAD", Lookup(symbols, x, 0) % Byte, 0), Const(Key)>>)
     \/ Emit(<<Instr("SLOAD", 0, 0), Const(Key)>>)
     \/ "member" \in class.exprs /\ Emit(<<Const(Key)>>)
  /\ expr' = Expr("field", "", 0)
  /\ UNCHANGED <<class, scope, decls, isInFunction, open, analysis, stage>>

\* expr.go:163 with :189: x = {...} fills the object field by field
BeginObject(x) ==
  /\ Begins("object")
  /\ Nests
  /\ x \notin constants
  /\ NewName(x)
  /\ Emit(<<Op("PUSH_OBJECT")>>)
  /\ open' = Append(open, [Open("object", Pos) EXCEPT !.slot = GetSlot(x), !.name = x])
  /\ UNCHANGED <<class, pool, constants, decls, isInFunction, expr, analysis, stage>>

BeginField ==
  /\ stage = "compiling" /\ ~InExpr /\ Inside("object") /\ Pos < class.maxCode
  /\ AddConst(Key)
  /\ Emit(<<Const(Key)>>)
  /\ expr' = Expr("field", "", 0)
  /\ UNCHANGED <<class, scope, decls, isInFunction, open, analysis, stage>>

EndField ==
  /\ Ends("field")
  /\ Emit(<<Op("SET_PROPERTY")>>)
  /\ expr' = NoExpr
  /\ UNCHANGED <<class, pool, scope, decls, isInFunction, open, analysis, stage>>

\* compileObjectAssignment stores the object and so does its caller.
EndObject ==
  /\ stage = "compiling" /\ ~InExpr /\ Inside("object")
  /\ Emit(<<Instr("STORE", Inner.slot % Byte, 0), Instr("STORE", Inner.slot % Byte, 0)>>)
  /\ open' = Front(open)
  /\ Declared(Inner.name)
  /\ UNCHANGED <<class, pool, scope, decls, isInFunction, expr, called, stage>>

BeginReturn ==
  /\ Begins("return")
  /\ InTry => "return_in_try" \in class.stmts
  /\ expr' = Expr("return", "", 0)
  /\ UNCHANGED <<class, code, pool, scope, decls, isInFunction, open, analysis, stage>>

ReturnCode == <<Op(IF isInFunction THEN "RET" ELSE "PRINT")>>

EndReturn ==
  /\ Ends("return")
  /\ Emit(ReturnCode)
  /\ expr' = NoExpr
  /\ UNCHANGED <<class, pool, scope, decls, isInFunction, open, analysis, stage>>

\* `return` with no value stands last in its block (parser/stmt.go:214); what
\* the model lets follow it in a function is never reached.
EmptyReturn ==
  /\ Begins("empty_return")
  /\ InTry => "return_in_try" \in class.stmts
  /\ isInFunction \/ "empty_print" \in class.stmts
  /\ Emit(ReturnCode)
  /\ UNCHANGED <<class, pool, scope, decls, isInFunction, open, expr, analysis, stage>>

\* The name of an event and the message of a require: a text or, with the word "label",
\* a number or a name, which is not looked up. Where the analyzer looks it takes nothing
\* else (analyzer.go:327, :348); elsewhere the model takes nothing else either.
Labels(v) ==
  {Const(v)} \cup
    IF "label" \in class.exprs
    THEN {Instr("PUSH", n % Byte, 0) : n \in Numbers}
           \cup {Instr("SLOAD", Lookup(symbols, x, 0) % Byte, 0) : x \in Names}
    ELSE {}
Labelled(v, i) == IF i = Const(v) THEN AddConst(v) ELSE UNCHANGED pool

BeginEmit ==
  /\ Begins("emit")
  /\ \E i \in Labels(EventName) : Labelled(EventName, i) /\ Emit(<<i>>)
  /\ expr' = Expr("event", "", 0)
  /\ UNCHANGED <<class, scope, decls, isInFunction, open, analysis, stage>>

EndEmit ==
  /\ Ends("event")
  /\ Emit(<<Op("EMIT")>>)
  /\ expr' = NoExpr
  /\ UNCHANGED <<class, pool, scope, decls, isInFunction, open, analysis, stage>>

\* stmt.go:260: cond; JMP_IF err; JMP end; err: message; ERR; end:
BeginRequire ==
  /\ Begins("require")
  /\ expr' = Expr("condition", "", 0)
  /\ UNCHANGED <<class, code, pool, scope, decls, isInFunction, open, analysis, stage>>

RequireEndShort(message) ==                                          \* a fault
  <<Instr("JMP_IF", Pos + 3, 0), Instr("JMP", Pos + 4, 0), message, Op("ERR")>>
RequireEnd(message) ==
  <<Instr("JMP_IF", Pos + 2, 0), Instr("JMP", Pos + 4, 0), message, Op("ERR")>>

EndRequire ==
  /\ Ends("condition")
  /\ \E i \in Labels(Message) : Labelled(Message, i) /\ Emit(RequireEnd(i))
  /\ expr' = NoExpr
  /\ UNCHANGED <<class, scope, decls, isInFunction, open, analysis, stage>>

SimpleStmt ==
  \/ BeginExpressionStmt \/ EndExpressionStmt
  \/ \E x \in Names, isConst \in BOOLEAN : BeginVarDecl(x, isConst)
  \/ EndVarDecl
  \/ \E x \in Names : AssignConstant(x) \/ BeginAssign(x) \/ BeginObject(x)
  \/ EndAssign \/ BeginMemberAssign \/ BeginField \/ EndField \/ EndObject
  \/ BeginReturn \/ EndReturn \/ EmptyReturn
  \/ BeginEmit \/ EndEmit
  \/ BeginRequire \/ EndRequire

----------------------------------------------------------------------------
(* Functions, stmt.go:103. *)
ParamSlots(f) == [i \in DOMAIN Params[f] |-> nextSlot + i - 1]

\* Each parameter gets a new slot; of two with one name the later one stands.
WithParams(f) ==
  [x \in DOMAIN symbols \cup Range(Params[f]) |->
     IF x \in Range(Params[f])
     THEN nextSlot - 1 + (CHOOSE i \in DOMAIN Params[f] :
            Params[f][i] = x /\ \A j \in DOMAIN Params[f] : Params[f][j] = x => j <= i)
     ELSE symbols[x]]

FuncMetaAtJump(f) == [addr |-> Pos, args |-> ParamSlots(f)]    \* a fault
FuncMeta(f) == [addr |-> Pos + 1, args |-> ParamSlots(f)]

EnterFunc(f) ==
  /\ Begins("func")
  /\ Nests
  /\ f \in DOMAIN functions => "redeclare" \in class.stmts
  /\ Emit(<<Hole("JMP")>>)
  /\ open' = Append(open, [Open("func", Pos) EXCEPT
                             !.symbols = symbols, !.constants = constants,
                             !.inFunction = isInFunction])
  /\ isInFunction' = TRUE
  /\ symbols' = WithParams(f)
  /\ nextSlot' = nextSlot + Len(Params[f])
  /\ functions' = Put(functions, f, FuncMeta(f))
  /\ functionName' = Put(functionName, Pos + 1, f)
  /\ visible' = IF open = <<>> THEN Range(Params[f]) ELSE visible
  /\ UNCHANGED <<class, pool, constants, expr, called, stage>>

FuncEndWithoutRet == Patched(code, Inner.p, Pos)                     \* a fault
FuncEndEarly == Append(Patched(code, Inner.p, Pos), Op("RET"))       \* a fault
FuncEnd == Patched(Append(code, Op("RET")), Inner.p, Pos + 1)

\* A fault: the function's names stay in the table of what surrounds it.
LeaveFuncLeaking ==
  /\ stage = "compiling" /\ ~InExpr /\ Inside("func")
  /\ code' = FuncEnd
  /\ isInFunction' = Inner.inFunction
  /\ constants' = Inner.constants
  /\ visible' = IF Len(open) = 1 THEN {} ELSE visible
  /\ open' = Front(open)
  /\ UNCHANGED <<class, pool, symbols, nextSlot, decls, expr, called, stage>>

LeaveFunc ==
  /\ stage = "compiling" /\ ~InExpr /\ Inside("func")
  /\ code' = FuncEnd
  /\ isInFunction' = Inner.inFunction
  /\ symbols' = Inner.symbols
  /\ constants' = Inner.constants
  /\ visible' = IF Len(open) = 1 THEN {} ELSE visible
  /\ open' = Front(open)
  /\ UNCHANGED <<class, pool, nextSlot, decls, expr, called, stage>>

----------------------------------------------------------------------------
(* Branches and loops, stmt.go:194, :226, :245. The analyzer copies its    *)
(* scope for the branches of an if and for a for, not for a while.         *)
BeginIf ==
  /\ Begins("if")
  /\ Nests
  /\ expr' = Expr("if", "", 0)
  /\ UNCHANGED <<class, code, pool, scope, decls, isInFunction, open, analysis, stage>>

EnterThen ==
  /\ Ends("if")
  /\ open' = Append(open, [Open("then", Pos) EXCEPT !.outer = visible])
  /\ Emit(<<Hole("JMP_IF")>>)
  /\ expr' = NoExpr
  /\ UNCHANGED <<class, pool, scope, decls, isInFunction, analysis, stage>>

EnterElse ==
  /\ stage = "compiling" /\ ~InExpr /\ Inside("then")
  /\ "else" \in class.stmts
  /\ open' = [open EXCEPT ![Len(open)] = [@ EXCEPT !.kind = "else", !.q = Pos, !.r = Pos + 1]]
  /\ Emit(<<Hole("JMP")>>)
  /\ visible' = Inner.outer
  /\ UNCHANGED <<class, pool, scope, decls, isInFunction, expr, called, stage>>

LeaveIf ==
  /\ stage = "compiling" /\ ~InExpr /\ (Inside("then") \/ Inside("else"))
  /\ code' = IF Inner.kind = "then" THEN Patched(code, Inner.p, Pos)
             ELSE Patched(Patched(code, Inner.p, Inner.r), Inner.q, Pos)
  /\ visible' = Inner.outer
  /\ open' = Front(open)
  /\ UNCHANGED <<class, pool, scope, decls, isInFunction, expr, called, stage>>

BeginWhile ==
  /\ Begins("while")
  /\ Nests
  /\ expr' = Expr("while", "", Pos)      \* slot carries condPos
  /\ UNCHANGED <<class, code, pool, scope, decls, isInFunction, open, analysis, stage>>

EnterWhile ==
  /\ Ends("while")
  /\ open' = Append(open, [Open("while", expr.slot) EXCEPT !.q = Pos])
  /\ Emit(<<Hole("JMP_IF")>>)
  /\ expr' = NoExpr
  /\ UNCHANGED <<class, pool, scope, decls, isInFunction, analysis, stage>>

LoopEndUnpatched == Append(code, Instr("JMP", Inner.p, 0))           \* a fault
LoopEnd == Patched(Append(code, Instr("JMP", Inner.p, 0)), Inner.q, Pos + 1)

LeaveWhile ==
  /\ stage = "compiling" /\ ~InExpr /\ Inside("while")
  /\ code' = LoopEnd
  /\ open' = Front(open)
  /\ UNCHANGED <<class, pool, scope, decls, isInFunction, expr, analysis, stage>>

\* p is where the statement being compiled began, then where the condition does.
BeginFor ==
  /\ Begins("for")
  /\ Nests
  /\ open' = Append(open, [Open("for_init", Pos) EXCEPT !.outer = visible])
  /\ UNCHANGED <<class, code, pool, scope, decls, isInFunction, expr, analysis, stage>>

BeginForCondition ==
  /\ stage = "compiling" /\ ~InExpr /\ Inside("for_init")
  /\ Pos # Inner.p
  /\ expr' = Expr("for", "", Pos)
  /\ UNCHANGED <<class, code, pool, scope, decls, isInFunction, open, analysis, stage>>

EnterFor ==
  /\ Ends("for")
  /\ \E post \in {{}} \cup {{x} : x \in Names \ InScope} :
       /\ post # {} => Analyzed
       /\ open' = [open EXCEPT ![Len(open)] =
                     [@ EXCEPT !.kind = "for", !.p = expr.slot, !.q = Pos, !.start = visible,
                               !.post = post]]
  /\ Emit(<<Hole("JMP_IF")>>)
  /\ expr' = NoExpr
  /\ UNCHANGED <<class, pool, scope, decls, isInFunction, analysis, stage>>

EnterForPost ==
  /\ stage = "compiling" /\ ~InExpr /\ Inside("for")
  /\ open' = [open EXCEPT ![Len(open)] =
                [@ EXCEPT !.kind = "for_post", !.p = Pos, !.r = Inner.p]]
  /\ visible' = Inner.start
  /\ UNCHANGED <<class, code, pool, scope, decls, isInFunction, expr, called, stage>>

LeaveFor ==
  /\ stage = "compiling" /\ ~InExpr /\ Inside("for_post")
  /\ Pos # Inner.p
  /\ code' = Patched(Append(code, Instr("JMP", Inner.r, 0)), Inner.q, Pos + 1)
  /\ visible' = Inner.outer
  /\ open' = Front(open)
  /\ UNCHANGED <<class, pool, scope, decls, isInFunction, expr, called, stage>>

----------------------------------------------------------------------------
(* try { } catch(x) { }, stmt.go:570. The error slot belongs to a name no  *)
(* program can spell.                                                      *)
EnterTry ==
  /\ Begins("try")
  /\ Nests
  /\ open' = Append(open, [Open("try", Pos) EXCEPT !.slot = nextSlot])
  /\ nextSlot' = nextSlot + 1
  /\ Emit(<<Instr("TRY", 0, nextSlot % Byte)>>)
  /\ UNCHANGED <<class, pool, symbols, constants, decls, isInFunction, expr, analysis, stage>>

TryEndUnclosed == <<Hole("JMP")>>                                    \* a fault
TryEnd == <<Op("END_TRY"), Hole("JMP")>>

EnterCatch(x) ==
  /\ stage = "compiling" /\ ~InExpr /\ Inside("try")
  /\ Emit(TryEnd)
  /\ open' = [open EXCEPT ![Len(open)] =
                [@ EXCEPT !.kind = "catch", !.q = Pos + Len(TryEnd) - 1,
                          !.r = Pos + Len(TryEnd), !.name = x,
                          !.symbols = [y \in DOMAIN symbols \cap {x} |-> symbols[y]]]]
  /\ symbols' = Put(symbols, x, Inner.slot)
  /\ UNCHANGED <<class, pool, constants, nextSlot, decls, isInFunction, expr, analysis, stage>>

\* symbols is the shared map: what the catch block declared stays declared.
CatchVarDropped == [y \in DOMAIN symbols \ {Inner.name} |-> symbols[y]]   \* a fault
WithoutCatchVar ==
  [y \in (DOMAIN symbols \ {Inner.name}) \cup DOMAIN Inner.symbols |->
     IF y \in DOMAIN Inner.symbols THEN Inner.symbols[y] ELSE symbols[y]]

CatchEndEarly == Patched(Patched(code, Inner.p, Inner.q - 1), Inner.q, Pos)   \* a fault
CatchEnd == Patched(Patched(code, Inner.p, Inner.r), Inner.q, Pos)

LeaveCatch ==
  /\ stage = "compiling" /\ ~InExpr /\ Inside("catch")
  /\ symbols' = WithoutCatchVar
  /\ code' = CatchEnd
  /\ open' = Front(open)
  /\ UNCHANGED <<class, pool, constants, nextSlot, decls, isInFunction, expr, analysis, stage>>

Construct ==
  \/ \E f \in Funcs : EnterFunc(f)
  \/ LeaveFunc
  \/ BeginIf \/ EnterThen \/ EnterElse \/ LeaveIf
  \/ BeginWhile \/ EnterWhile \/ LeaveWhile
  \/ BeginFor \/ BeginForCondition \/ EnterFor \/ EnterForPost \/ LeaveFor
  \/ EnterTry \/ (\E x \in Names : EnterCatch(x)) \/ LeaveCatch

----------------------------------------------------------------------------
(* compiler.go:352 CompileBlock of the main program. The analyzer, which   *)
(* ran before, accepts a call to a function declared anywhere, and no      *)
(* other (analyzer.go:429).                                                *)
Finish ==
  /\ stage = "compiling" /\ ~InExpr /\ open = <<>>
  /\ called \subseteq DOMAIN functions
  /\ Emit(<<Op("HALT")>>)
  /\ stage' = "compiled"
  /\ UNCHANGED <<class, pool, scope, decls, isInFunction, open, expr, analysis>>

\* A panic ends the deployment: addConst's on one constant too many (compiler.go:299), and
\* those on a node that cannot be compiled, as an item of an array (expr.go:99, :116, :131)
\* or the left side of an assignment (:159), or on an argument of another type (:252).
CompilerPanics ==
  /\ stage = "compiling"
  /\ Len(pool) >= MaxPool \/ (InExpr /\ "unsupported" \in class.exprs)
  /\ stage' = "panicked"
  /\ UNCHANGED <<class, code, pool, scope, decls, isInFunction, open, expr, analysis>>

Next == ExprStep \/ SimpleStmt \/ Construct \/ Finish \/ CompilerPanics

Spec == Init /\ [][Next]_cvars

Compiled == Artifact(code, pool, functions, functionName, NoEntries)

----------------------------------------------------------------------------
TypeOK ==
  /\ stage \in {"compiling", "compiled", "panicked"}
  /\ \A i \in DOMAIN code : code[i].a \in Nat /\ code[i].b \in 0..(Byte - 1)
  /\ Len(pool) <= MaxPool
  /\ nextSlot \in Nat \ {0}
  /\ \A x \in DOMAIN symbols : x \in Names /\ symbols[x] \in 1..(nextSlot - 1)
  /\ \A f \in DOMAIN functions : f \in Funcs /\ functions[f].addr \in 1..Pos
  /\ isInFunction <=> \E i \in DOMAIN open : open[i].kind = "func"
  /\ called \subseteq Funcs /\ visible \subseteq Names

(***************************************************************************)
(* A finished compilation is an artifact the machine cannot run out of:    *)
(* every jump, handler and entry address lies in the code, whatever        *)
(* constructs were nested in whatever order, and the code ends with HALT.  *)
(***************************************************************************)
CompiledIsWellFormed == stage = "compiled" => WellFormed(Compiled)

(***************************************************************************)
(* A function body, from its entry to the RET before the target of the     *)
(* jump over it, is closed: no branch leads into it or out of it, so only  *)
(* CALL, RET and a caught error cross its boundary (compileFunc's jump,    *)
(* stmt.go:115 and :135, and the patches of everything nested in it).      *)
(***************************************************************************)
FunctionBodiesClosed ==
  stage = "compiled" =>
    \A entry \in DOMAIN functionName :
      LET end  == code[entry].a        \* the target of the JMP before the entry
          Body == entry..(end - 1)
      IN  /\ code[entry].op = "JMP" /\ entry < end /\ code[end].op = "RET"
          /\ \A i \in DOMAIN code \ {entry} :
               code[i].op \in {"JMP", "JMP_IF", "TRY"}
                 => ((i - 1) \in Body <=> code[i].a \in Body)

(***************************************************************************)
(* Only loops branch backwards: each backward JMP closes a loop that has   *)
(* an exit test jumping just past it. So no patch was forgotten, for an    *)
(* unpatched hole would jump back to 0 (stmt.go:226-258).                  *)
(***************************************************************************)
BackwardJumpsAreLoops ==
  stage = "compiled" =>
    \A i \in DOMAIN code :
      code[i].op \in {"JMP", "JMP_IF", "TRY"} /\ code[i].a < i =>
        /\ code[i].op = "JMP"
        /\ \E j \in (code[i].a + 1)..(i - 1) : code[j].op = "JMP_IF" /\ code[j].a = i

(***************************************************************************)
(* The handler of each TRY begins after the END_TRY and the jump over the  *)
(* handler, and that jump leads past it: a try block that runs to its end  *)
(* removes its frame and skips its handler (stmt.go:573-600).              *)
(***************************************************************************)
HandlersFollowTheirTry ==
  stage = "compiled" =>
    \A i \in DOMAIN code : code[i].op = "TRY" =>
      LET h == code[i].a
      IN  /\ i < h - 1
          /\ code[h - 1].op = "END_TRY"
          /\ code[h].op = "JMP" /\ code[h].a >= h

(***************************************************************************)
(* Two names in scope never share a slot, and none has the slot of `this`, *)
(* as long as the slots fit the operand byte (compiler.go:323 allocSlot;   *)
(* the emitted operand is byte(slot)).                                     *)
(***************************************************************************)
SlotsDistinct == nextSlot <= Byte =>
  /\ \A x, y \in DOMAIN symbols :
       x # y => symbols[x] % Byte # symbols[y] % Byte
  /\ \A x \in DOMAIN symbols : symbols[x] % Byte # 0

(***************************************************************************)
(* Every CALL enters a compiled function, and the metadata the machine     *)
(* finds by that address (compiler.go:338 GetFuncArgs, through the two     *)
(* maps) is that function's own: the arguments go to the slots its body    *)
(* reads. It speaks of programs that declare each function once and before *)
(* its calls: the words forward and redeclare allow others.                *)
(***************************************************************************)
CallsBindTheirCallee ==
  stage = "compiled" =>
    \A i \in DOMAIN code : code[i].op = "CALL" =>
      /\ code[i].a \in DOMAIN functionName
      /\ functions[functionName[code[i].a]].addr = code[i].a

(***************************************************************************)
(* The slot of a parameter is read and written in the body of its function *)
(* alone, and nobody else's variable or caught error is kept in it: a call *)
(* stores the arguments in slots that belong to the function (vm.go:630),  *)
(* where anything else would be lost. So a call changes no name of another *)
(* function; of its own it does, when the function calls itself.           *)
(***************************************************************************)
SlotsOf(i) == CASE i.op \in {"SLOAD", "STORE"} -> {i.a} [] i.op = "TRY" -> {i.b} [] OTHER -> {}

ParametersStayInside ==
  stage = "compiled" /\ nextSlot <= Byte =>
    \A f \in DOMAIN functions, i \in DOMAIN code :
      LET entry == functions[f].addr
      IN  SlotsOf(code[i]) \cap Range(functions[f].args) # {}
            => (i - 1) \in entry..(code[entry].a - 1)

(***************************************************************************)
(* A name the analyzer has let into the scope of a function has a slot, or *)
(* is a constant that may not be assigned, at every point where the        *)
(* function may use it: the two walks keep their scopes in different ways  *)
(* (analyzer.go:506 copyScope; stmt.go:109, :583-593), and a name with no  *)
(* slot would silently read slot 0, which holds `this`. The exception is a *)
(* name that so far only the last clause of a loop under way brings in     *)
(* (analyzer.go:379; stmt.go:234-238): in the body it does read slot 0.    *)
(***************************************************************************)
AcceptedNamesHaveSlots ==
  Analyzed => InScope \subseteq DOMAIN symbols \cup constants \cup (LastClauses \ visible)
=============================================================================
