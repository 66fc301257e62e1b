----------------------- MODULE CompilerControlProofs -----------------------
(***************************************************************************)
(* Proofs about what Compiler emits: where it branches, and which slots it *)
(* reads and writes there.                                                 *)
(*                                                                         *)
(* First, what each step does to the code, address by address. Then five   *)
(* invariants over the open statements and the code so far: every address  *)
(* of a structured program has a level, the try blocks open there, which   *)
(* no branch changes; in every program the jumps have their targets where  *)
(* the statements put them, stay in the function they are in, and the      *)
(* slots of a function's parameters are used in its body alone; and in a   *)
(* balanced program every address has a height, the operands that an       *)
(* instruction there may count on.                                         *)
(***************************************************************************)
EXTENDS CompilerProofs

----------------------------------------------------------------------------
(* What each step does to the code, address by address.                    *)

\* Instructions after which the next one is executed, in the same function and
\* with the same try blocks open.
StraightOps == (PlainOps \ {"RET", "END_TRY", "HALT"}) \cup {"CONST"}

\* The instructions at the addresses outside S stay what they were.
KeepsBut(S) == \A i \in 1..Pos : (i - 1) \notin S => code'[i] = code[i]

Straight ==
  /\ Pos <= Pos' /\ KeepsBut({})
  /\ \A i \in 1..Pos' : i > Pos => code'[i].op \in StraightOps

LEMMA Emitting ==
  ASSUME CodeOK, NEW T, NEW s \in Seq(T), Emit(s)
  PROVE  /\ Pos \in Nat /\ Len(s) \in Nat /\ Pos' = Pos + Len(s) /\ KeepsBut({})
         /\ \A i \in 1..Pos' : i > Pos => i - Pos \in 1..Len(s) /\ code'[i] = s[i - Pos]
<1> DEFINE S == Emitted \cup T
<1>1. code \in Seq(S) /\ s \in Seq(S) /\ Len(code) \in Nat /\ Len(s) \in Nat
  <2>1. code \in Seq(Emitted)
    BY DEF CodeOK
  <2>2. Emitted \subseteq S /\ T \subseteq S
    OBVIOUS
  <2> HIDE DEF S
  <2> QED
    BY <2>1, <2>2, LenProperties
<1> HIDE DEF S
<1>2. code' = code \o s
  BY DEF Emit
<1>3. /\ Len(code') = Len(code) + Len(s)
      /\ \A i \in 1..Len(code) : code'[i] = code[i]
      /\ \A i \in 1..Len(code') :
           i > Len(code) => i - Len(code) \in 1..Len(s) /\ code'[i] = s[i - Len(code)]
  BY <1>1, <1>2, ExtendedProperties
<1> QED
  BY <1>1, <1>3 DEF Pos, KeepsBut

LEMMA EmittingOne ==
  ASSUME CodeOK, NEW x, Emit(<<x>>)
  PROVE  Pos \in Nat /\ Pos' = Pos + 1 /\ KeepsBut({}) /\ code'[Pos + 1] = x
<1>1. <<x>> \in Seq({x}) /\ Len(<<x>>) = 1 /\ <<x>>[1] = x
  OBVIOUS
<1>2. /\ Pos \in Nat /\ Pos' = Pos + 1 /\ KeepsBut({})
      /\ \A i \in 1..Pos' : i > Pos => code'[i] = <<x>>[i - Pos]
  BY <1>1, Emitting
<1>3. Pos + 1 \in 1..Pos' /\ Pos + 1 > Pos /\ Pos + 1 - Pos = 1
  BY <1>2
<1> QED
  BY <1>1, <1>2, <1>3

LEMMA EmittingTwo ==
  ASSUME CodeOK, NEW x, NEW y, Emit(<<x, y>>)
  PROVE  /\ Pos \in Nat /\ Pos' = Pos + 2 /\ KeepsBut({})
         /\ code'[Pos + 1] = x /\ code'[Pos + 2] = y
<1>1. <<x, y>> \in Seq({x, y}) /\ Len(<<x, y>>) = 2 /\ <<x, y>>[1] = x /\ <<x, y>>[2] = y
  OBVIOUS
<1>2. /\ Pos \in Nat /\ Pos' = Pos + 2 /\ KeepsBut({})
      /\ \A i \in 1..Pos' : i > Pos => code'[i] = <<x, y>>[i - Pos]
  BY <1>1, Emitting
<1>3. /\ Pos + 1 \in 1..Pos' /\ Pos + 1 > Pos /\ Pos + 1 - Pos = 1
      /\ Pos + 2 \in 1..Pos' /\ Pos + 2 > Pos /\ Pos + 2 - Pos = 2
  BY <1>2
<1> QED
  BY <1>1, <1>2, <1>3

LEMMA EmittingFour ==
  ASSUME CodeOK, NEW x, NEW y, NEW z, NEW u, Emit(<<x, y, z, u>>)
  PROVE  /\ Pos \in Nat /\ Pos' = Pos + 4 /\ KeepsBut({})
         /\ code'[Pos + 1] = x /\ code'[Pos + 2] = y /\ code'[Pos + 3] = z /\ code'[Pos + 4] = u
<1> DEFINE s == <<x, y, z, u>>
<1>1. s \in Seq({x, y, z, u}) /\ Len(s) = 4 /\ s[1] = x /\ s[2] = y /\ s[3] = z /\ s[4] = u
  OBVIOUS
<1> HIDE DEF s
<1>2. /\ Pos \in Nat /\ Pos' = Pos + 4 /\ KeepsBut({})
      /\ \A i \in 1..Pos' : i > Pos => code'[i] = s[i - Pos]
  BY <1>1, Emitting DEF s
<1>3. /\ Pos + 1 \in 1..Pos' /\ Pos + 1 > Pos /\ Pos + 1 - Pos = 1
      /\ Pos + 2 \in 1..Pos' /\ Pos + 2 > Pos /\ Pos + 2 - Pos = 2
      /\ Pos + 3 \in 1..Pos' /\ Pos + 3 > Pos /\ Pos + 3 - Pos = 3
      /\ Pos + 4 \in 1..Pos' /\ Pos + 4 > Pos /\ Pos + 4 - Pos = 4
  BY <1>2
<1> QED
  BY <1>1, <1>2, <1>3

\* Short emissions of straight code.
LEMMA StraightEmission ==
  ASSUME CodeOK, NEW T, NEW s \in Seq(T), Emit(s), \A i \in 1..Len(s) : s[i].op \in StraightOps
  PROVE  Straight
BY Emitting DEF Straight

LEMMA StraightNothing ==
  ASSUME CodeOK, UNCHANGED code
  PROVE  Straight
<1>1. Pos \in Nat /\ Pos' = Pos
  BY LenProperties DEF CodeOK, Pos
<1> QED
  BY <1>1 DEF Straight, KeepsBut

LEMMA StraightOne ==
  ASSUME CodeOK, NEW x, x.op \in StraightOps, Emit(<<x>>)
  PROVE  Straight
<1>1. <<x>> \in Seq({x}) /\ Len(<<x>>) = 1 /\ <<x>>[1] = x
  OBVIOUS
<1>2. \A i \in 1..Len(<<x>>) : <<x>>[i].op \in StraightOps
  BY <1>1
<1> QED
  BY <1>1, <1>2, StraightEmission

LEMMA StraightTwo ==
  ASSUME CodeOK, NEW x, NEW y, x.op \in StraightOps, y.op \in StraightOps, Emit(<<x, y>>)
  PROVE  Straight
<1> DEFINE s == <<x, y>>
<1>1. s \in Seq({x, y}) /\ Len(s) = 2 /\ s[1] = x /\ s[2] = y
  OBVIOUS
<1>2. Emit(s)
  OBVIOUS
<1> HIDE DEF s
<1>3. \A i \in 1..Len(s) : s[i].op \in StraightOps
  BY <1>1
<1> QED
  BY <1>1, <1>2, <1>3, StraightEmission

LEMMA StraightThree ==
  ASSUME CodeOK, NEW x, NEW y, NEW z, Emit(<<x, y, z>>),
         x.op \in StraightOps, y.op \in StraightOps, z.op \in StraightOps
  PROVE  Straight
<1> DEFINE s == <<x, y, z>>
<1>1. s \in Seq({x, y, z}) /\ Len(s) = 3 /\ s[1] = x /\ s[2] = y /\ s[3] = z
  OBVIOUS
<1>2. Emit(s)
  OBVIOUS
<1> HIDE DEF s
<1>3. \A i \in 1..Len(s) : s[i].op \in StraightOps
  BY <1>1
<1> QED
  BY <1>1, <1>2, <1>3, StraightEmission

LEMMA StraightFour ==
  ASSUME CodeOK, NEW x, NEW y, NEW z, NEW u, Emit(<<x, y, z, u>>),
         x.op \in StraightOps, y.op \in StraightOps, z.op \in StraightOps, u.op \in StraightOps
  PROVE  Straight
<1> DEFINE s == <<x, y, z, u>>
<1>1. s \in Seq({x, y, z, u}) /\ Len(s) = 4 /\ s[1] = x /\ s[2] = y /\ s[3] = z /\ s[4] = u
  OBVIOUS
<1>2. Emit(s)
  OBVIOUS
<1> HIDE DEF s
<1>3. \A i \in 1..Len(s) : s[i].op \in StraightOps
  BY <1>1
<1> QED
  BY <1>1, <1>2, <1>3, StraightEmission

LEMMA OpOf ==
  ASSUME NEW op, NEW a, NEW b
  PROVE  Instr(op, a, b).op = op /\ Op(op).op = op /\ Hole(op).op = op
BY DEF Instr, Op, Hole

LEMMA ConstOp ==
  ASSUME NEW v
  PROVE  Const(v).op \in StraightOps
BY DEF Const, Instr, StraightOps

LEMMA StraightNames ==
  /\ StraightOps = {"PUSH", "SLOAD", "STORE", "ADD", "SUB", "MUL", "DIV", "GT", "LT", "EQ",
       "GT_EQ", "LT_EQ", "DIFF", "AND", "OR", "SWAP", "NOT", "TRUE", "FALSE", "NULL",
       "PUSH_OBJECT", "PRINT", "ACCESS", "LENGTH", "CONTAINS", "NONCE", "HASH", "GET_ENV",
       "GET_PROPERTY", "SET_PROPERTY", "ERR", "EMIT", "CONST"}
BY DEF StraightOps, PlainOps

LEMMA ComputesStraight ==
  ASSUME CodeOK, Computes
  PROVE  Straight
<1> USE StraightNames
<1>1. CASE Number
  BY <1>1, StraightOne, OpOf DEF Number
<1>2. CASE LargeNumber
  BY <1>2, StraightOne, ConstOp DEF LargeNumber
<1>3. CASE Literal
  <2>1. CASE \E op \in {"TRUE", "FALSE", "NULL", "PUSH_OBJECT"} : Emit(<<Op(op)>>)
    BY <2>1, StraightOne, OpOf
  <2>2. CASE Emit(<<Instr("SLOAD", 0, 0)>>)
    BY <2>2, StraightOne, OpOf
  <2> QED
    BY <1>3, <2>1, <2>2 DEF Literal
<1>4. CASE Symbol
  BY <1>4, StraightOne, OpOf DEF Symbol
<1>5. CASE IncDec
  <2>1. PICK x \in Names, op \in {"ADD", "SUB"} :
          Emit(<<Instr("SLOAD", Lookup(symbols, x, 0) % Byte, 0), Instr("PUSH", 1, 0), Op(op),
                 Instr("STORE", Lookup(symbols, x, 0) % Byte, 0)>>)
    BY <1>5 DEF IncDec
  <2>2. /\ Instr("SLOAD", Lookup(symbols, x, 0) % Byte, 0).op \in StraightOps
        /\ Instr("PUSH", 1, 0).op \in StraightOps /\ Op(op).op \in StraightOps
        /\ Instr("STORE", Lookup(symbols, x, 0) % Byte, 0).op \in StraightOps
    BY OpOf
  <2> QED
    BY <2>1, <2>2, StraightFour
<1>6. CASE Binary
  <2>1. PICK operator \in Operators : Emit(BinaryCode(operator))
    BY <1>6 DEF Binary
  <2>2. CASE operator = "+"
    <3>1. Emit(<<Op("SWAP"), Op("ADD")>>)
      BY <2>1, <2>2 DEF BinaryCode
    <3> QED
      BY <3>1, StraightTwo, OpOf
  <2>3. CASE operator = "%"
    <3>1. code' = code \o <<>>
      BY <2>1, <2>3 DEF BinaryCode, Emit
    <3>2. code' = code
      BY <3>1, ConcatEmptySeq DEF CodeOK
    <3> QED
      BY <3>2, StraightNothing
  <2>4. CASE operator \notin {"+", "%"}
    <3>1. PICK op \in StraightOps : BinaryCode(operator) = <<Op(op)>>
      BY <2>4 DEF BinaryCode, Operators
    <3> QED
      BY <2>1, <3>1, StraightOne, OpOf
  <2> QED
    BY <2>2, <2>3, <2>4
<1>7. CASE Prefix
  <2>1. CASE Emit(<<Op("NOT")>>)
    BY <2>1, StraightOne, OpOf
  <2>2. CASE Emit(<<Instr("PUSH", 0, 0), Op("SWAP"), Op("SUB")>>)
    BY <2>2, StraightThree, OpOf
  <2> QED
    BY <1>7, <2>1, <2>2 DEF Prefix
<1>8. CASE PrintCall
  BY <1>8, StraightOne, OpOf DEF PrintCall
<1>9. CASE Operation
  <2>1. CASE \E op \in StraightOps, a \in Nat : Emit(<<Instr(op, a, 0)>>)
    BY <2>1, StraightOne, OpOf
  <2>2. CASE UNCHANGED code
    BY <2>2, StraightNothing
  <2> QED
    BY <1>9, <2>1, <2>2 DEF Operation, Op
<1>10. CASE WithConstant
  <2>1. CASE Emit(<<Const(Key), Op("GET_PROPERTY")>>)
    BY <2>1, StraightTwo, ConstOp, OpOf
  <2>2. CASE Emit(<<Instr("GET_ENV", Const(Tree).a, 0)>>)
    BY <2>2, StraightOne, OpOf
  <2> QED
    BY <1>10, <2>1, <2>2 DEF WithConstant
<1>11. CASE ArrayLiteral
  BY <1>11, StraightOne, OpOf DEF ArrayLiteral
<1>12. CASE ErrorExpr
  <2> DEFINE k == Const(Key)
             s == <<Op("PUSH_OBJECT"), k, Instr("PUSH", 1, 0), Op("SET_PROPERTY"), k, k,
                    Op("SET_PROPERTY")>>
             T == {Op("PUSH_OBJECT"), k, Instr("PUSH", 1, 0), Op("SET_PROPERTY")}
  <2>0. CASE Emit(<<Op("PUSH_OBJECT"), Const(Key), Instr("PUSH", 1, 0), Op("SET_PROPERTY")>>)
    BY <2>0, StraightFour, ConstOp, OpOf
  <2>1. CASE Emit(s)
    <3>1. \A i \in T : i.op \in StraightOps
      BY ConstOp, OpOf
    <3> HIDE DEF k
    <3>2. s \in Seq(T)
      OBVIOUS
    <3> HIDE DEF s
    <3>3. \A i \in 1..Len(s) : s[i] \in T
      BY <3>2, ElementOfSeq
    <3> HIDE DEF T
    <3> QED
      BY <2>1, <3>1, <3>2, <3>3, StraightEmission
  <2> QED
    BY <1>12, <2>0, <2>1 DEF ErrorExpr
<1> QED
  BY <1>1, <1>2, <1>3, <1>4, <1>5, <1>6, <1>7, <1>8, <1>9, <1>10, <1>11, <1>12 DEF Computes

\* The statements that neither branch nor leave, and the expressions compiled for
\* those that do.
Plain ==
  \/ Computes \/ BeginExpressionStmt \/ EndExpressionStmt \/ EndVarDecl \/ EndAssign
  \/ (\E x \in Names, isConst \in BOOLEAN : BeginVarDecl(x, isConst))
  \/ (\E x \in Names : AssignConstant(x) \/ BeginAssign(x))
  \/ BeginMemberAssign \/ BeginField \/ EndField \/ BeginReturn
  \/ BeginEmit \/ EndEmit \/ BeginRequire \/ BeginIf \/ BeginWhile \/ BeginForCondition
  \/ CompilerPanics \/ UNCHANGED cvars

\* The label of an event or a require is one value put on the stack.
LEMMA LabelOp ==
  ASSUME ScopeTyped, NEW v, NEW i \in Labels(v)
  PROVE  i.op \in {"CONST", "PUSH", "SLOAD"}
<1>1. Const(v).op = "CONST"
  BY DEF Const, Instr
<1> QED
  BY <1>1, LabelKinds, OpOf

LEMMA PlainIsStraight ==
  ASSUME CodeOK, ScopeTyped, Plain
  PROVE  Straight /\ UNCHANGED <<open, isInFunction, functions, functionName>>
<1> USE StraightNames
<1>1. UNCHANGED <<open, isInFunction, functions, functionName>>
  BY DEF Plain, Computes, Number, LargeNumber, Literal, Symbol, IncDec, Binary, Prefix,
       PrintCall, Operation, WithConstant, ArrayLiteral, ErrorExpr, BeginExpressionStmt,
       EndExpressionStmt, EndVarDecl, EndAssign, BeginVarDecl, AssignConstant, BeginAssign,
       BeginMemberAssign, BeginField, EndField, BeginReturn, BeginEmit,
       EndEmit, BeginRequire, BeginIf, BeginWhile, BeginForCondition,
       CompilerPanics, cvars, decls
<1> SUFFICES Straight
  BY <1>1
<1>2. CASE Computes
  BY <1>2, ComputesStraight
<1>3. CASE \/ BeginExpressionStmt \/ EndExpressionStmt \/ (\E x \in Names : BeginAssign(x))
           \/ BeginReturn \/ BeginRequire \/ BeginIf \/ BeginWhile \/ BeginForCondition
           \/ CompilerPanics \/ UNCHANGED cvars
  <2>1. UNCHANGED code
    BY <1>3 DEF BeginExpressionStmt, EndExpressionStmt, BeginAssign, BeginReturn, BeginRequire,
                BeginIf, BeginWhile, BeginForCondition, CompilerPanics, cvars
  <2> QED
    BY <2>1, StraightNothing
<1>4. ASSUME NEW x \in Names, NEW isConst \in BOOLEAN, BeginVarDecl(x, isConst)
      PROVE  Straight
  <2>1. CASE UNCHANGED code
    BY <2>1, StraightNothing
  <2>2. CASE Emit(<<Const(Message), Op("ERR")>>)
    BY <2>2, StraightTwo, ConstOp, OpOf
  <2> QED
    BY <1>4, <2>1, <2>2 DEF BeginVarDecl
<1>5. CASE EndVarDecl
  BY <1>5, StraightOne, OpOf DEF EndVarDecl
<1>6. ASSUME NEW x \in Names, AssignConstant(x)
      PROVE  Straight
  BY <1>6, StraightTwo, ConstOp, OpOf DEF AssignConstant
<1>7. CASE EndAssign
  BY <1>7, StraightOne, OpOf DEF EndAssign
<1>8. CASE BeginMemberAssign
  <2>1. ASSUME NEW a, Emit(<<Instr("SLOAD", a, 0), Const(Key)>>)
        PROVE  Straight
    BY <2>1, StraightTwo, ConstOp, OpOf
  <2>2. CASE Emit(<<Const(Key)>>)
    BY <2>2, StraightOne, ConstOp
  <2> QED
    BY <1>8, <2>1, <2>2 DEF BeginMemberAssign
<1>9. CASE BeginField
  BY <1>9, StraightOne, ConstOp DEF BeginField
<1>10. CASE EndField \/ EndEmit
  BY <1>10, StraightOne, OpOf DEF EndField, EndEmit
<1>11. CASE BeginEmit
  <2>1. PICK i \in Labels(EventName) : Emit(<<i>>)
    BY <1>11 DEF BeginEmit
  <2>2. i.op \in StraightOps
    BY LabelOp
  <2> QED
    BY <2>1, <2>2, StraightOne
<1> QED
  BY <1>1, <1>2, <1>3, <1>4, <1>5, <1>6, <1>7, <1>8, <1>9, <1>10, <1>11 DEF Plain

----------------------------------------------------------------------------
(* What each construct does to the code and to the innermost statement.    *)

\* A construct is entered: its first jump is emitted and it becomes the innermost.
Enters(e, op) ==
  /\ e \in Statements /\ open' = Append(open, e)
  /\ Pos \in Nat /\ Pos' = Pos + 1 /\ KeepsBut({}) /\ code'[Pos + 1].op = op

\* It goes on to its next part.
Continues(e) ==
  /\ Pos \in Nat /\ open # <<>> /\ Inner \in Statements /\ Placed(code, Inner)
  /\ e \in Statements /\ open' = [open EXCEPT ![Len(open)] = e]
  /\ e.slot = Inner.slot

\* It is left, and the jumps at the addresses in S get their targets.
Leaves(S) ==
  /\ Pos \in Nat /\ open # <<>> /\ Inner \in Statements /\ Placed(code, Inner)
  /\ open' = Front(open)
  /\ KeepsBut(S) /\ \A i \in 1..Pos : code'[i].op = code[i].op

LEMMA FuncEntered ==
  ASSUME Typed, NEW f \in Funcs, EnterFunc(f)
  PROVE  /\ \E e : Enters(e, "JMP") /\ e.kind = "func" /\ e.p = Pos
         /\ functions' = Put(functions, f, FuncMeta(f))
         /\ functionName' = Put(functionName, Pos + 1, f)
<1>1. Pos \in Nat /\ CodeOK
  BY LenProperties DEF Typed, CodeOK, Pos
<1>2. PICK o : o = Open("func", Pos)
  OBVIOUS
<1>3. PICK e : e = [o EXCEPT !.symbols = symbols, !.constants = constants,
                             !.inFunction = isInFunction]
  OBVIOUS
<1>4. o \in Statements /\ o.kind = "func" /\ o.p = Pos
  BY <1>1, <1>2, OpenIsTyped DEF OpenKinds
<1>5. symbols \in Tables /\ constants \in SUBSET Names /\ isInFunction \in BOOLEAN
  BY DEF Typed, ScopeTyped
<1>6. e \in Statements /\ e.kind = "func" /\ e.p = Pos
  BY <1>3, <1>4, <1>5 DEF Statements
<1>7. open' = Append(open, e) /\ Emit(<<Hole("JMP")>>)
      /\ functions' = Put(functions, f, FuncMeta(f))
      /\ functionName' = Put(functionName, Pos + 1, f)
  BY <1>2, <1>3 DEF EnterFunc
<1>8. Enters(e, "JMP")
  BY <1>1, <1>6, <1>7, EmittingOne, OpOf DEF Enters
<1> QED
  BY <1>6, <1>7, <1>8

LEMMA ThenEntered ==
  ASSUME Typed, EnterThen
  PROVE  \E e : Enters(e, "JMP_IF") /\ e.kind = "then" /\ e.p = Pos
<1>1. Pos \in Nat /\ CodeOK /\ visible \in SUBSET Names
  BY LenProperties DEF Typed, CodeOK, ScopeTyped, Pos
<1>2. PICK o : o = Open("then", Pos)
  OBVIOUS
<1>3. PICK e : e = [o EXCEPT !.outer = visible]
  OBVIOUS
<1>4. o \in Statements /\ o.kind = "then" /\ o.p = Pos
  BY <1>1, <1>2, OpenIsTyped DEF OpenKinds
<1>5. e \in Statements /\ e.kind = "then" /\ e.p = Pos
  BY <1>1, <1>3, <1>4 DEF Statements
<1>6. open' = Append(open, e) /\ Emit(<<Hole("JMP_IF")>>)
  BY <1>2, <1>3 DEF EnterThen
<1>7. Enters(e, "JMP_IF")
  BY <1>1, <1>5, <1>6, EmittingOne, OpOf DEF Enters
<1> QED
  BY <1>5, <1>7

LEMMA WhileEntered ==
  ASSUME Typed, EnterWhile
  PROVE  /\ expr.for = "while" /\ expr.slot \in 0..Pos
         /\ \E e : Enters(e, "JMP_IF") /\ e.kind = "while" /\ e.p = expr.slot /\ e.q = Pos
<1>1. Pos \in Nat /\ CodeOK /\ expr.slot \in Nat /\ expr.for = "while" /\ expr.slot <= Pos
  BY LenProperties DEF Typed, CodeOK, ExprOK, Exprs, Pos, EnterWhile, Ends
<1>2. PICK o : o = Open("while", expr.slot)
  OBVIOUS
<1>3. PICK e : e = [o EXCEPT !.q = Pos]
  OBVIOUS
<1>4. o \in Statements /\ o.kind = "while" /\ o.p = expr.slot
  BY <1>1, <1>2, OpenIsTyped DEF OpenKinds
<1>5. e \in Statements /\ e.kind = "while" /\ e.p = expr.slot /\ e.q = Pos
  BY <1>1, <1>3, <1>4 DEF Statements
<1>6. open' = Append(open, e) /\ Emit(<<Hole("JMP_IF")>>)
  BY <1>2, <1>3 DEF EnterWhile
<1>7. Enters(e, "JMP_IF")
  BY <1>1, <1>5, <1>6, EmittingOne, OpOf DEF Enters
<1> QED
  BY <1>1, <1>5, <1>7

LEMMA TryEntered ==
  ASSUME Typed, EnterTry
  PROVE  \E e : Enters(e, "TRY") /\ e.kind = "try" /\ e.p = Pos
<1>1. Pos \in Nat /\ CodeOK /\ nextSlot \in Nat
  BY LenProperties DEF Typed, CodeOK, ScopeTyped, Pos
<1>2. PICK o : o = Open("try", Pos)
  OBVIOUS
<1>3. PICK e : e = [o EXCEPT !.slot = nextSlot]
  OBVIOUS
<1>4. o \in Statements /\ o.kind = "try" /\ o.p = Pos
  BY <1>1, <1>2, OpenIsTyped DEF OpenKinds
<1>5. e \in Statements /\ e.kind = "try" /\ e.p = Pos
  BY <1>1, <1>3, <1>4 DEF Statements
<1>6. open' = Append(open, e) /\ Emit(<<Instr("TRY", 0, nextSlot % Byte)>>)
  BY <1>2, <1>3 DEF EnterTry
<1>7. Enters(e, "TRY")
  BY <1>1, <1>5, <1>6, EmittingOne, OpOf DEF Enters
<1> QED
  BY <1>5, <1>7

LEMMA ForBegun ==
  ASSUME Typed, BeginFor
  PROVE  /\ Straight
         /\ \E e \in Statements : open' = Append(open, e) /\ e.kind = "for_init" /\ e.p = Pos
<1>1. Pos \in Nat /\ CodeOK /\ visible \in SUBSET Names
  BY LenProperties DEF Typed, CodeOK, ScopeTyped, Pos
<1>2. PICK o : o = Open("for_init", Pos)
  OBVIOUS
<1>3. PICK e : e = [o EXCEPT !.outer = visible]
  OBVIOUS
<1>4. o \in Statements /\ o.kind = "for_init" /\ o.p = Pos
  BY <1>1, <1>2, OpenIsTyped DEF OpenKinds
<1>5. e \in Statements /\ e.kind = "for_init" /\ e.p = Pos
  BY <1>1, <1>3, <1>4 DEF Statements
<1>6. open' = Append(open, e) /\ UNCHANGED code
  BY <1>2, <1>3 DEF BeginFor
<1> QED
  BY <1>1, <1>5, <1>6, StraightNothing

LEMMA ObjectBegun ==
  ASSUME Typed, NEW x \in Names, BeginObject(x)
  PROVE  /\ Straight
         /\ \E e \in Statements : open' = Append(open, e) /\ e.kind = "object" /\ e.p = Pos
<1>1. Pos \in Nat /\ CodeOK /\ GetSlot(x) \in Nat /\ x \in NamesOrNone
  BY LenProperties, SlotIsNat DEF Typed, CodeOK, NamesOrNone, Pos
<1>2. PICK o : o = Open("object", Pos)
  OBVIOUS
<1>3. PICK e : e = [o EXCEPT !.slot = GetSlot(x), !.name = x]
  OBVIOUS
<1>4. o \in Statements /\ o.kind = "object" /\ o.p = Pos
  BY <1>1, <1>2, OpenIsTyped DEF OpenKinds
<1>5. e \in Statements /\ e.kind = "object" /\ e.p = Pos
  BY <1>1, <1>3, <1>4 DEF Statements
<1>6. open' = Append(open, e) /\ Emit(<<Op("PUSH_OBJECT")>>)
  BY <1>2, <1>3 DEF BeginObject
<1> QED
  BY <1>1, <1>5, <1>6, StraightOne, StraightNames, OpOf

LEMMA ElseEntered ==
  ASSUME Typed, EnterElse
  PROVE  /\ Inner.kind = "then" /\ Pos' = Pos + 1 /\ KeepsBut({}) /\ code'[Pos + 1].op = "JMP"
         /\ \E e : Continues(e) /\ e.kind = "else" /\ e.p = Inner.p /\ e.q = Pos /\ e.r = Pos + 1
<1>1. CodeOK /\ open # <<>> /\ Inner.kind = "then" /\ Emit(<<Hole("JMP")>>)
  BY DEF Typed, EnterElse, Inside
<1>2. Inner \in Statements /\ Inner = open[Len(open)] /\ Placed(code, Inner)
  BY <1>1, InnerIsPlaced DEF Typed
<1>3. Pos \in Nat /\ Pos' = Pos + 1 /\ KeepsBut({}) /\ code'[Pos + 1].op = "JMP"
  BY <1>1, EmittingOne, OpOf
<1>4. PICK e : e = [Inner EXCEPT !.kind = "else", !.q = Pos, !.r = Pos + 1]
  OBVIOUS
<1>5. open' = [open EXCEPT ![Len(open)] = e]
  BY <1>2, <1>4 DEF EnterElse
<1>6. Pos + 1 \in Nat /\ "else" \in OpenKinds
  BY <1>3 DEF OpenKinds
<1>7. /\ e \in Statements /\ e.kind = "else" /\ e.p = Inner.p /\ e.q = Pos /\ e.r = Pos + 1
      /\ e.slot = Inner.slot
  BY <1>2, <1>3, <1>4, <1>6 DEF Statements
<1> QED
  BY <1>1, <1>2, <1>3, <1>5, <1>7 DEF Continues

LEMMA ForEntered ==
  ASSUME Typed, EnterFor
  PROVE  /\ expr.for = "for" /\ expr.slot \in 0..Pos
         /\ Inner.kind = "for_init" /\ Pos' = Pos + 1 /\ KeepsBut({})
         /\ code'[Pos + 1].op = "JMP_IF"
         /\ \E e : Continues(e) /\ e.kind = "for" /\ e.p = expr.slot /\ e.q = Pos
<1>1. /\ CodeOK /\ Emit(<<Hole("JMP_IF")>>) /\ Pos \in Nat
      /\ expr.for = "for" /\ expr.slot \in Nat /\ expr.slot <= Pos
      /\ open # <<>> /\ Inner.kind = "for_init"
  BY LenProperties DEF Typed, EnterFor, Ends, ExprOK, Exprs, Inside, CodeOK, Pos
<1>2. Inner \in Statements /\ Inner = open[Len(open)] /\ Placed(code, Inner)
  BY <1>1, InnerIsPlaced DEF Typed
<1>3. Pos' = Pos + 1 /\ KeepsBut({}) /\ code'[Pos + 1].op = "JMP_IF"
  BY <1>1, EmittingOne, OpOf
<1> PICK post \in SUBSET Names :
      open' = [open EXCEPT ![Len(open)] =
                 [Inner EXCEPT !.kind = "for", !.p = expr.slot, !.q = Pos, !.start = visible,
                               !.post = post]]
  BY ForClause
<1>4. PICK e : e = [Inner EXCEPT !.kind = "for", !.p = expr.slot, !.q = Pos, !.start = visible,
                                 !.post = post]
  OBVIOUS
<1>5. open' = [open EXCEPT ![Len(open)] = e]
  BY <1>4
<1>6. "for" \in OpenKinds /\ visible \in SUBSET Names
  BY DEF OpenKinds, Typed, ScopeTyped
<1>7. /\ e \in Statements /\ e.kind = "for" /\ e.p = expr.slot /\ e.q = Pos
      /\ e.slot = Inner.slot
  BY <1>1, <1>2, <1>4, <1>6 DEF Statements
<1>8. Continues(e)
  BY <1>1, <1>2, <1>5, <1>7 DEF Continues
<1>9. expr.slot \in 0..Pos
  BY <1>1
<1> QED
  BY <1>1, <1>3, <1>7, <1>8, <1>9

LEMMA ForPostEntered ==
  ASSUME Typed, EnterForPost
  PROVE  /\ Inner.kind = "for" /\ Straight /\ UNCHANGED code
         /\ \E e : Continues(e) /\ e.kind = "for_post" /\ e.p = Pos /\ e.q = Inner.q
                   /\ e.r = Inner.p
<1>1. CodeOK /\ open # <<>> /\ Inner.kind = "for" /\ UNCHANGED code /\ Pos \in Nat
  BY LenProperties DEF Typed, EnterForPost, Inside, CodeOK, Pos
<1>2. Inner \in Statements /\ Inner = open[Len(open)] /\ Placed(code, Inner)
  BY <1>1, InnerIsPlaced DEF Typed
<1>3. PICK e : e = [Inner EXCEPT !.kind = "for_post", !.p = Pos, !.r = Inner.p]
  OBVIOUS
<1>4. open' = [open EXCEPT ![Len(open)] = e]
  BY <1>2, <1>3 DEF EnterForPost
<1>5. "for_post" \in OpenKinds /\ Inner.p \in Nat
  BY <1>2 DEF OpenKinds, Statements
<1>6. /\ e \in Statements /\ e.kind = "for_post" /\ e.p = Pos /\ e.q = Inner.q /\ e.r = Inner.p
      /\ e.slot = Inner.slot
  BY <1>1, <1>2, <1>3, <1>5 DEF Statements
<1> QED
  BY <1>1, <1>2, <1>4, <1>6, StraightNothing DEF Continues

LEMMA CatchEntered ==
  ASSUME Typed, NEW x \in Names, EnterCatch(x)
  PROVE  /\ Inner.kind = "try" /\ Pos' = Pos + 2 /\ KeepsBut({})
         /\ code'[Pos + 1].op = "END_TRY" /\ code'[Pos + 2].op = "JMP"
         /\ \E e : Continues(e) /\ e.kind = "catch" /\ e.p = Inner.p /\ e.q = Pos + 1
                   /\ e.r = Pos + 2
<1>1. CodeOK /\ open # <<>> /\ Inner.kind = "try" /\ Emit(TryEnd) /\ UNCHANGED pool
  BY DEF Typed, EnterCatch, Inside
<1>2. Inner \in Statements /\ Inner = open[Len(open)] /\ Placed(code, Inner)
  BY <1>1, InnerIsPlaced DEF Typed
<1>3. Emit(<<Op("END_TRY"), Hole("JMP")>>)
  BY <1>1 DEF TryEnd
<1>4. /\ Pos \in Nat /\ Pos' = Pos + 2 /\ KeepsBut({})
      /\ code'[Pos + 1].op = "END_TRY" /\ code'[Pos + 2].op = "JMP"
  BY <1>1, <1>3, EmittingTwo, OpOf
<1>5. PICK m : m = [y \in DOMAIN symbols \cap {x} |-> symbols[y]]
  OBVIOUS
<1>6. m \in Tables
  BY <1>1, <1>5, TablesRestored DEF Typed
<1>7. PICK q, r : q = Pos + Len(TryEnd) - 1 /\ r = Pos + Len(TryEnd)
  OBVIOUS
<1>8. q = Pos + 1 /\ r = Pos + 2 /\ q \in Nat /\ r \in Nat
  <2>1. PoolGrows
    BY <1>1, PoolKept
  <2>2. q = Pos + 1 /\ r = Pos + 2
    BY <1>1, <1>7, <2>1, TryClosed
  <2> QED
    BY <1>4, <2>2
<1>9. PICK e : e = [Inner EXCEPT !.kind = "catch", !.q = q, !.r = r, !.name = x, !.symbols = m]
  OBVIOUS
<1>10. open' = [open EXCEPT ![Len(open)] = e]
  BY <1>2, <1>5, <1>7, <1>9 DEF EnterCatch
<1>11. "catch" \in OpenKinds /\ x \in NamesOrNone
  BY DEF OpenKinds, NamesOrNone
<1>12. /\ e \in Statements /\ e.kind = "catch" /\ e.p = Inner.p /\ e.q = q /\ e.r = r
       /\ e.slot = Inner.slot
  BY <1>2, <1>6, <1>8, <1>9, <1>11 DEF Statements
<1> QED
  BY <1>1, <1>2, <1>4, <1>8, <1>10, <1>12 DEF Continues

----------------------------------------------------------------------------
(* What the steps that leave a construct do to the code.                   *)

\* A jump gets its target, in code that may have grown by an instruction already.
LEMMA LeftPatched ==
  ASSUME Typed, NEW c \in Seq(Emitted), Pos <= Len(c), \A i \in 1..Pos : c[i] = code[i],
         NEW p \in Nat, NEW t \in Nat, code' = Patched(c, p, t)
  PROVE  /\ Pos \in Nat /\ Pos' = Len(c) /\ KeepsBut({p})
         /\ \A i \in 1..Pos' : code'[i].op = c[i].op
         /\ \A i \in 1..Pos' : i # p + 1 => code'[i] = c[i]
         /\ p + 1 \in 1..Pos' => code'[p + 1].a = t
<1>1. Pos \in Nat /\ Len(c) \in Nat
  BY LenProperties DEF Typed, CodeOK, Pos
<1>2. /\ Len(code') = Len(c)
      /\ \A i \in 1..Len(c) :
           /\ code'[i].op = c[i].op
           /\ i # p + 1 => code'[i] = c[i]
           /\ i = p + 1 => code'[i].a = t
  BY Patching
<1>3. Pos' = Len(c)
  BY <1>2 DEF Pos
<1>4. \A i \in 1..Pos : (i - 1) \notin {p} => i \in 1..Len(c) /\ i # p + 1
  BY <1>1
<1> QED
  BY <1>1, <1>2, <1>3, <1>4 DEF KeepsBut

\* The instructions that end a construct.
LEMMA LeftAppended ==
  ASSUME Typed, NEW op \in {"RET", "JMP"}, NEW a \in Nat
  PROVE  /\ Append(code, Instr(op, a, 0)) \in Seq(Emitted)
         /\ Pos \in Nat /\ Len(Append(code, Instr(op, a, 0))) = Pos + 1
         /\ \A i \in 1..Pos : Append(code, Instr(op, a, 0))[i] = code[i]
         /\ Append(code, Instr(op, a, 0))[Pos + 1] = Instr(op, a, 0)
<1>1. code \in Seq(Emitted) /\ 0 \in 0..(Byte - 1)
  BY Limits DEF Typed, CodeOK
<1>2. Instr(op, a, 0) \in Emitted
  BY <1>1 DEF Instr, Emitted, PlainOps, Jumps
<1> QED
  BY <1>1, <1>2, AppendedProperties, LenProperties DEF Pos

LEMMA FuncLeft ==
  ASSUME Typed, LeaveFunc
  PROVE  /\ Leaves({Inner.p}) /\ Inner.kind = "func"
         /\ Pos' = Pos + 1 /\ code'[Pos + 1].op = "RET" /\ code'[Inner.p + 1].a = Pos + 1
         /\ UNCHANGED <<functions, functionName>>
<1>1. /\ open # <<>> /\ Inner.kind = "func" /\ open' = Front(open)
      /\ code' = Patched(Append(code, Op("RET")), Inner.p, Pos + 1)
      /\ UNCHANGED <<functions, functionName>>
  BY DEF LeaveFunc, Inside, FuncEnd, decls
<1>2. Inner \in Statements /\ Placed(code, Inner)
  BY <1>1, InnerIsPlaced DEF Typed
<1>3. Inner.p \in Nat /\ HoleAt(code, Inner.p)
  BY <1>1, <1>2 DEF Statements, Placed
<1> DEFINE c == Append(code, Op("RET"))
<1>4. /\ c \in Seq(Emitted) /\ Pos \in Nat /\ Len(c) = Pos + 1
      /\ \A i \in 1..Pos : c[i] = code[i]
      /\ c[Pos + 1].op = "RET"
  BY LeftAppended, OpOf DEF Op
<1>5. Pos <= Len(c) /\ Pos + 1 \in Nat /\ code' = Patched(c, Inner.p, Pos + 1)
  BY <1>1, <1>4
<1> HIDE DEF c
<1>6. /\ Pos' = Pos + 1 /\ KeepsBut({Inner.p})
      /\ \A i \in 1..Pos' : code'[i].op = c[i].op
      /\ Inner.p + 1 \in 1..Pos' => code'[Inner.p + 1].a = Pos + 1
  BY <1>3, <1>4, <1>5, LeftPatched
<1>7. Inner.p + 1 \in 1..Pos' /\ Pos + 1 \in 1..Pos' /\ \A i \in 1..Pos : i \in 1..Pos'
  BY <1>3, <1>4, <1>6 DEF HoleAt, Pos
<1>8. Leaves({Inner.p})
  BY <1>1, <1>2, <1>4, <1>6, <1>7 DEF Leaves
<1> QED
  BY <1>1, <1>4, <1>6, <1>7, <1>8

LEMMA ThenLeft ==
  ASSUME Typed, LeaveIf, Inner.kind = "then"
  PROVE  Leaves({Inner.p}) /\ Pos' = Pos /\ code'[Inner.p + 1].a = Pos
<1>1. open # <<>> /\ open' = Front(open) /\ code' = Patched(code, Inner.p, Pos)
  BY DEF LeaveIf, Inside
<1>2. Inner \in Statements /\ Placed(code, Inner)
  BY <1>1, InnerIsPlaced DEF Typed
<1>3. /\ Inner.p \in Nat /\ HoleAt(code, Inner.p) /\ code \in Seq(Emitted)
      /\ Pos \in Nat /\ Pos <= Len(code)
  BY <1>1, <1>2, LenProperties DEF Typed, CodeOK, Statements, Placed, Pos
<1>4. /\ Pos' = Pos /\ KeepsBut({Inner.p})
      /\ \A i \in 1..Pos' : code'[i].op = code[i].op
      /\ Inner.p + 1 \in 1..Pos' => code'[Inner.p + 1].a = Pos
  BY <1>1, <1>3, LeftPatched DEF Pos
<1>5. Inner.p + 1 \in 1..Pos
  BY <1>3 DEF HoleAt, Pos
<1> QED
  BY <1>1, <1>2, <1>3, <1>4, <1>5 DEF Leaves

LEMMA ElseOrCatchLeft ==
  ASSUME Typed, LeaveCatch \/ (LeaveIf /\ Inner.kind # "then")
  PROVE  /\ Leaves({Inner.p, Inner.q}) /\ Inner.kind \in {"else", "catch"} /\ Pos' = Pos
         /\ code'[Inner.q + 1].a = Pos /\ code'[Inner.p + 1].a \in {Inner.r, Pos}
         /\ Inner.p # Inner.q => code'[Inner.p + 1].a = Inner.r
<1>1. /\ open # <<>> /\ open' = Front(open) /\ Inner.kind \in {"else", "catch"}
      /\ code' = Patched(Patched(code, Inner.p, Inner.r), Inner.q, Pos)
  BY DEF LeaveIf, LeaveCatch, CatchEnd, Inside
<1>2. Inner \in Statements /\ Placed(code, Inner)
  BY <1>1, InnerIsPlaced DEF Typed
<1>3. /\ Inner.p \in Nat /\ Inner.q \in Nat /\ Inner.r \in Nat /\ Pos \in Nat
      /\ HoleAt(code, Inner.p) /\ HoleAt(code, Inner.q)
  BY <1>1, <1>2, LenProperties DEF Typed, CodeOK, Statements, Placed, Pos
<1>4. PICK p \in Nat, q \in Nat, r \in Nat :
        /\ p = Inner.p /\ q = Inner.q /\ r = Inner.r
        /\ code' = Patched(Patched(code, p, r), q, Pos) /\ HoleAt(code, p) /\ HoleAt(code, q)
  BY <1>1, <1>3
<1> DEFINE c == Patched(code, p, r)
<1>5. /\ c \in Seq(Emitted) /\ Len(c) = Len(code)
      /\ \A i \in 1..Len(code) :
           /\ c[i].op = code[i].op
           /\ i # p + 1 => c[i] = code[i]
           /\ i = p + 1 => c[i].a = r
  BY Patching DEF Typed, CodeOK
<1>6. code' = Patched(c, q, Pos)
  BY <1>4
<1> HIDE DEF c
<1>7. /\ Len(code') = Len(c)
      /\ \A i \in 1..Len(c) :
           /\ code'[i].op = c[i].op
           /\ i # q + 1 => code'[i] = c[i]
           /\ i = q + 1 => code'[i].a = Pos
  BY <1>3, <1>5, <1>6, Patching
<1>8. p + 1 \in 1..Pos /\ q + 1 \in 1..Pos
  BY <1>3, <1>4 DEF HoleAt, Pos
<1>9. KeepsBut({Inner.p, Inner.q})
  <2>1. \A i \in 1..Pos : (i - 1) \notin {Inner.p, Inner.q} => i # p + 1 /\ i # q + 1
    BY <1>3, <1>4
  <2> QED
    BY <1>5, <1>7, <2>1 DEF KeepsBut, Pos
<1>10. /\ Pos' = Pos
       /\ \A i \in 1..Pos : code'[i].op = code[i].op
       /\ code'[q + 1].a = Pos /\ code'[p + 1].a \in {r, Pos}
       /\ p # q => code'[p + 1].a = r
  BY <1>3, <1>5, <1>7, <1>8 DEF Pos
<1>11. Leaves({Inner.p, Inner.q})
  BY <1>1, <1>2, <1>3, <1>9, <1>10 DEF Leaves
<1>12. p = Inner.p /\ q = Inner.q /\ r = Inner.r
  BY <1>4
<1> QED
  BY <1>1, <1>10, <1>11, <1>12

\* A loop is left: the jump back to its condition, and the way out of it.
LEMMA LoopLeft ==
  ASSUME Typed, LeaveWhile \/ LeaveFor
  PROVE  /\ Leaves({Inner.q}) /\ Inner.kind \in {"while", "for_post"}
         /\ Pos' = Pos + 1 /\ code'[Inner.q + 1].a = Pos + 1
         /\ code'[Pos + 1] = Instr("JMP", IF Inner.kind = "while" THEN Inner.p ELSE Inner.r, 0)
<1> DEFINE t == IF Inner.kind = "while" THEN Inner.p ELSE Inner.r
           c == Append(code, Instr("JMP", t, 0))
<1>1. /\ open # <<>> /\ open' = Front(open) /\ Inner.kind \in {"while", "for_post"}
      /\ code' = Patched(c, Inner.q, Pos + 1)
  BY DEF LeaveWhile, LeaveFor, LoopEnd, Inside
<1>2. Inner \in Statements /\ Placed(code, Inner)
  BY <1>1, InnerIsPlaced DEF Typed
<1>3. t \in Nat /\ Inner.q \in Nat /\ HoleAt(code, Inner.q)
  BY <1>1, <1>2 DEF Statements, Placed
<1> HIDE DEF t
<1>4. /\ c \in Seq(Emitted) /\ Pos \in Nat /\ Len(c) = Pos + 1
      /\ \A i \in 1..Pos : c[i] = code[i]
      /\ c[Pos + 1] = Instr("JMP", t, 0)
  BY <1>3, LeftAppended
<1>5. Pos <= Len(c) /\ Pos + 1 \in Nat
  BY <1>4
<1> HIDE DEF c
<1>6. /\ Pos' = Pos + 1 /\ KeepsBut({Inner.q})
      /\ \A i \in 1..Pos' : code'[i].op = c[i].op
      /\ \A i \in 1..Pos' : i # Inner.q + 1 => code'[i] = c[i]
      /\ Inner.q + 1 \in 1..Pos' => code'[Inner.q + 1].a = Pos + 1
  BY <1>1, <1>3, <1>4, <1>5, LeftPatched
<1>7. /\ Inner.q + 1 \in 1..Pos' /\ Pos + 1 \in 1..Pos' /\ Pos + 1 # Inner.q + 1
      /\ \A i \in 1..Pos : i \in 1..Pos'
  BY <1>3, <1>4, <1>6 DEF HoleAt, Pos
<1>8. Leaves({Inner.q})
  BY <1>1, <1>2, <1>4, <1>6, <1>7 DEF Leaves
<1> QED
  BY <1>1, <1>4, <1>6, <1>7, <1>8 DEF t

LEMMA ObjectLeft ==
  ASSUME Typed, EndObject
  PROVE  /\ Straight /\ open # <<>> /\ Inner.kind = "object" /\ open' = Front(open)
         /\ Inner \in Statements /\ Placed(code, Inner)
<1>1. CodeOK /\ open # <<>> /\ Inner.kind = "object" /\ open' = Front(open)
  BY DEF Typed, EndObject, Inside
<1>2. Emit(<<Instr("STORE", Inner.slot % Byte, 0), Instr("STORE", Inner.slot % Byte, 0)>>)
  BY DEF EndObject
<1> QED
  BY <1>1, <1>2, StraightTwo, StraightNames, OpOf, InnerIsPlaced DEF Typed

----------------------------------------------------------------------------
(* The simple statements and expressions that branch or leave.             *)

LEMMA ReturnEmitted ==
  ASSUME Typed, EndReturn \/ EmptyReturn
  PROVE  /\ Pos \in Nat /\ Pos' = Pos + 1 /\ KeepsBut({})
         /\ code'[Pos + 1].op = IF isInFunction THEN "RET" ELSE "PRINT"
         /\ UNCHANGED <<open, functions, functionName>>
<1>1. Emit(<<Op(IF isInFunction THEN "RET" ELSE "PRINT")>>)
  BY DEF EndReturn, EmptyReturn, ReturnCode
<1>2. CodeOK /\ UNCHANGED <<open, functions, functionName>>
  BY DEF Typed, EndReturn, EmptyReturn, decls
<1> QED
  BY <1>1, <1>2, EmittingOne, OpOf

LEMMA CallEmitted ==
  ASSUME Typed, UserCall
  PROVE  /\ UNCHANGED <<open, functions, functionName>>
         /\ \E f \in Funcs :
              /\ f \in DOMAIN functions \/ "forward" \in class.exprs
              /\ InTry => "call_in_try" \in class.exprs
              /\ Pos \in Nat /\ Pos' = Pos + 1 /\ KeepsBut({})
              /\ code'[Pos + 1].op = "CALL"
              /\ code'[Pos + 1].a = IF f \in DOMAIN functions THEN functions[f].addr ELSE 0
<1>1. PICK f \in Funcs :
         /\ f \in DOMAIN functions \/ "forward" \in class.exprs
         /\ InTry => "call_in_try" \in class.exprs
         /\ Emit(<<Instr("CALL", IF f \in DOMAIN functions THEN functions[f].addr ELSE 0, 0)>>)
  BY DEF UserCall
<1>2. CodeOK /\ UNCHANGED <<open, functions, functionName>>
  BY DEF Typed, UserCall, decls
<1>3. PICK x : /\ x = Instr("CALL", IF f \in DOMAIN functions THEN functions[f].addr ELSE 0, 0)
               /\ Pos \in Nat /\ Pos' = Pos + 1 /\ KeepsBut({}) /\ code'[Pos + 1] = x
  BY <1>1, <1>2, EmittingOne
<1>4. x.op = "CALL" /\ x.a = IF f \in DOMAIN functions THEN functions[f].addr ELSE 0
  BY <1>3 DEF Instr
<1> QED
  BY <1>1, <1>2, <1>3, <1>4

LEMMA RequireEmitted ==
  ASSUME Typed, EndRequire
  PROVE  /\ Pos \in Nat /\ Pos' = Pos + 4 /\ KeepsBut({})
         /\ code'[Pos + 1].op = "JMP_IF" /\ code'[Pos + 1].a = Pos + 2
         /\ code'[Pos + 2].op = "JMP" /\ code'[Pos + 2].a = Pos + 4
         /\ code'[Pos + 3].op \in StraightOps /\ code'[Pos + 4].op \in StraightOps
         /\ UNCHANGED <<open, functions, functionName>>
<1>1. CodeOK /\ UNCHANGED <<open, functions, functionName>>
  BY DEF Typed, EndRequire, decls
<1> PICK z \in Labels(Message) : Emit(RequireEnd(z))
  BY DEF EndRequire
<1>2. PICK x, y, u :
        x = Instr("JMP_IF", Pos + 2, 0) /\ y = Instr("JMP", Pos + 4, 0) /\ u = Op("ERR")
  OBVIOUS
<1>3. Emit(<<x, y, z, u>>)
  BY <1>2 DEF RequireEnd
<1>4. /\ Pos \in Nat /\ Pos' = Pos + 4 /\ KeepsBut({})
      /\ code'[Pos + 1] = x /\ code'[Pos + 2] = y /\ code'[Pos + 3] = z /\ code'[Pos + 4] = u
  BY <1>1, <1>3, EmittingFour
<1>5. x.op = "JMP_IF" /\ x.a = Pos + 2 /\ y.op = "JMP" /\ y.a = Pos + 4
  BY <1>2 DEF Instr
<1>6. z.op \in StraightOps /\ u.op \in StraightOps
  BY <1>2, LabelOp, OpOf, StraightNames DEF Typed
<1> QED
  BY <1>1, <1>4, <1>5, <1>6

LEMMA HaltEmitted ==
  ASSUME Typed, Finish
  PROVE  /\ Pos \in Nat /\ Pos' = Pos + 1 /\ KeepsBut({}) /\ code'[Pos + 1].op = "HALT"
         /\ open = <<>> /\ UNCHANGED <<open, functions, functionName>>
<1>1. Emit(<<Op("HALT")>>)
  BY DEF Finish
<1>2. CodeOK /\ open = <<>> /\ UNCHANGED <<open, functions, functionName>>
  BY DEF Typed, Finish, decls
<1> QED
  BY <1>1, <1>2, EmittingOne, OpOf

----------------------------------------------------------------------------
(* Levels. Every address of a structured program has one: how many try     *)
(* blocks of its function are open there, and whether that is a declared   *)
(* function or the contract's own code.                                    *)

StructuredPrograms ==
  \A c \in Classes :
    "forward" \notin c.exprs /\ "call_in_try" \notin c.exprs /\ "return_in_try" \notin c.stmts

Levels == [depth : Nat, inside : BOOLEAN]
Ground == [depth |-> 0, inside |-> FALSE]
Body == [depth |-> 0, inside |-> TRUE]
Deeper(l) == [depth |-> l.depth + 1, inside |-> l.inside]

\* The level inside a statement that stands at level l, and the one around the k
\* outermost open statements.
Entered(kind, l) == CASE kind = "func" -> Body [] kind = "try" -> Deeper(l) [] OTHER -> l
Around(at, o, k) == IF k = 0 THEN Ground ELSE Entered(o[k].kind, at[o[k].p])

\* The addresses an open statement keeps for its jumps, and its jumps that have no
\* target yet.
Held(e) ==
  {e.p} \cup (IF e.kind \in {"else", "catch", "while", "for", "for_post"} THEN {e.q} ELSE {})
        \cup (IF e.kind \in {"else", "catch", "for_post"} THEN {e.r} ELSE {})
Holes(e) ==
  (IF e.kind \in {"func", "then", "try", "else", "catch"} THEN {e.p} ELSE {})
    \cup (IF e.kind \in {"else", "catch", "while", "for", "for_post"} THEN {e.q} ELSE {})
Waiting(o) == UNION {Holes(o[k]) : k \in 1..Len(o)}

\* Control passes from the i-th instruction only to addresses of the right level.
Leads(at, c, w, i) ==
  LET op == c[i].op  here == at[i - 1]  next == at[i]
  IN  /\ op \in Jumps /\ (i - 1) \notin w => at[c[i].a] = here
      /\ op = "TRY" => next = Deeper(here)
      /\ op = "END_TRY" => here = Deeper(next)
      /\ op = "RET" => here = Body
      /\ op = "HALT" => here = Ground
      /\ op = "CALL" => here.depth = 0 /\ at[c[i].a] = Body
      /\ op \notin {"JMP", "RET", "HALT", "TRY", "END_TRY"} => next = here

\* The addresses the open statements hold stand at the level of the statement.
Chained(at, o, n) ==
  /\ at \in [0..n -> Levels] /\ at[0] = Ground
  /\ \A k \in 1..Len(o) : \A x \in Held(o[k]) : at[x] = Around(at, o, k - 1)
  /\ at[n] = Around(at, o, Len(o))

Annotates(at) ==
  /\ Chained(at, open, Pos)
  /\ \A i \in 1..Pos : Leads(at, code, Waiting(open), i)
  /\ \A f \in DOMAIN functions : at[functions[f].addr] = Body
  /\ expr.for \in {"while", "for"} => at[expr.slot] = at[Pos]
  /\ expr.for = "return" => at[Pos].depth = 0

Annotated == \E at : Annotates(at)

\* The levels of the code so far, and l for what is emitted after it.
Extended(at, n, l) == [x \in 0..n |-> IF x \in DOMAIN at THEN at[x] ELSE l]

----------------------------------------------------------------------------
(* Levels of code that grows and of statements that come and go.           *)

LEMMA LevelsClosed ==
  /\ Ground \in Levels /\ Body \in Levels
  /\ Ground.depth = 0 /\ Ground.inside = FALSE /\ Body.depth = 0 /\ Body.inside = TRUE
  /\ \A l \in Levels : /\ Deeper(l) \in Levels /\ Deeper(l).depth > 0
                       /\ Deeper(l).inside = l.inside
                       /\ l.depth = 0 /\ l.inside => l = Body
  /\ \A kind : \A l \in Levels : Entered(kind, l) \in Levels
BY DEF Levels, Ground, Body, Deeper, Entered

LEMMA HeldPlaced ==
  ASSUME Typed
  PROVE  /\ Pos \in Nat /\ Len(open) \in Nat
         /\ \A k \in 1..Len(open) :
              /\ Held(open[k]) \subseteq 0..Pos /\ open[k].p \in Held(open[k])
              /\ \A x \in Holes(open[k]) : x + 1 \in 1..Pos /\ code[x + 1].op \in Jumps
                                           /\ x \in Held(open[k])
<1>1. Pos \in Nat /\ Len(open) \in Nat
  BY LenProperties DEF Typed, CodeOK, OpenOK, Pos
<1>2. ASSUME NEW e \in Statements, Placed(code, e)
      PROVE  /\ Held(e) \subseteq 0..Pos /\ e.p \in Held(e)
             /\ \A x \in Holes(e) : x + 1 \in 1..Pos /\ code[x + 1].op \in Jumps /\ x \in Held(e)
  <2>1. e.p \in 0..Pos /\ e.q \in 0..Pos /\ e.r \in 0..Pos
    BY <1>1, <1>2 DEF Placed, Statements, Pos
  <2>2. ASSUME NEW x \in Holes(e) PROVE x + 1 \in 1..Pos /\ code[x + 1].op \in Jumps /\ x \in Held(e)
    <3>1. CASE x = e.p /\ e.kind \in {"func", "then", "try", "else", "catch"}
      BY <1>1, <1>2, <2>1, <3>1 DEF Placed, HoleAt, Pos, Held
    <3>2. CASE x = e.q /\ e.kind \in {"else", "catch", "while", "for", "for_post"}
      BY <1>1, <1>2, <2>1, <3>2 DEF Placed, HoleAt, Pos, Held
    <3> QED
      BY <2>2, <3>1, <3>2 DEF Holes
  <2> QED
    BY <2>1, <2>2 DEF Held
<1>3. \A k \in 1..Len(open) : open[k] \in Statements /\ Placed(code, open[k])
  BY ElementOfSeq DEF Typed, OpenOK
<1> QED
  BY <1>1, <1>2, <1>3

LEMMA AroundIsLevel ==
  ASSUME Typed, NEW at, Chained(at, open, Pos)
  PROVE  /\ \A k \in 0..Len(open) : Around(at, open, k) \in Levels
         /\ \A k \in 1..Len(open) :
              Around(at, open, k) = Entered(open[k].kind, Around(at, open, k - 1))
         /\ at[Pos] \in Levels /\ at \in [0..Pos -> Levels] /\ 0 \in 0..Pos
<1>1. /\ Pos \in Nat /\ Len(open) \in Nat
      /\ \A k \in 1..Len(open) : Held(open[k]) \subseteq 0..Pos /\ open[k].p \in Held(open[k])
  BY HeldPlaced
<1>2. \A k \in 1..Len(open) : open[k].p \in 0..Pos /\ at[open[k].p] = Around(at, open, k - 1)
  BY <1>1 DEF Chained
<1>3. at \in [0..Pos -> Levels]
  BY DEF Chained
<1>4. \A k \in 1..Len(open) : at[open[k].p] \in Levels /\ k # 0
  BY <1>1, <1>2, <1>3
<1>5. \A k \in 0..Len(open) : k = 0 \/ k \in 1..Len(open)
  BY <1>1
<1>6. \A k \in 1..Len(open) : Around(at, open, k) = Entered(open[k].kind, at[open[k].p])
  BY <1>4 DEF Around
<1>7. \A k \in 0..Len(open) : Around(at, open, k) \in Levels
  BY <1>4, <1>5, <1>6, LevelsClosed DEF Around
<1> QED
  BY <1>1, <1>2, <1>3, <1>6, <1>7

LEMMA LevelsGrow ==
  ASSUME Typed, Typed', NEW at \in [0..Pos -> Levels], Pos <= Pos', NEW l \in Levels
  PROVE  /\ Extended(at, Pos', l) \in [0..Pos' -> Levels]
         /\ \A x \in 0..Pos : Extended(at, Pos', l)[x] = at[x]
         /\ \A x \in 0..Pos' : x > Pos => Extended(at, Pos', l)[x] = l
<1>1. Pos \in Nat /\ Pos' \in Nat
  BY LenProperties DEF Typed, CodeOK, Pos
<1>2. \A x \in 0..Pos : x \in 0..Pos'
  BY <1>1
<1>3. \A x \in 0..Pos' : x > Pos => x \notin 0..Pos
  BY <1>1
<1> QED
  BY <1>2, <1>3 DEF Extended

\* The last level is the new one when code was emitted.
LEMMA ExtendedEnd ==
  ASSUME Typed, Typed', NEW at \in [0..Pos -> Levels], Pos <= Pos', NEW l \in Levels
  PROVE  /\ Pos' > Pos => Extended(at, Pos', l)[Pos'] = l
         /\ Pos' = Pos => Extended(at, Pos', l)[Pos'] = at[Pos]
         /\ l = at[Pos] => Extended(at, Pos', l)[Pos'] = l
<1>1. Pos \in Nat /\ Pos' \in Nat
  BY LenProperties DEF Typed, CodeOK, Pos
<1>2. Pos' \in 0..Pos' /\ Pos \in 0..Pos
  BY <1>1
<1>3. Extended(at, Pos', l)[Pos'] = IF Pos' \in 0..Pos THEN at[Pos'] ELSE l
  BY <1>2 DEF Extended
<1>4. Pos' > Pos => Pos' \notin 0..Pos
  BY <1>1
<1>5. Pos' = Pos \/ Pos' > Pos
  BY <1>1
<1> QED
  BY <1>2, <1>3, <1>4, <1>5

\* The n outermost statements stay as they are, and at most one stands inside them.
LEMMA Chaining ==
  ASSUME Typed, Typed', NEW at, Chained(at, open, Pos), Pos <= Pos', NEW l \in Levels,
         NEW at2, at2 = Extended(at, Pos', l),
         NEW n \in 0..Len(open), Len(open') \in {n, n + 1},
         \A k \in 1..n : open'[k] = open[k],
         Len(open') = n => at2[Pos'] = Around(at, open, n),
         Len(open') = n + 1 =>
           /\ \A x \in Held(open'[n + 1]) : at2[x] = Around(at, open, n)
           /\ at2[Pos'] = Entered(open'[n + 1].kind, Around(at, open, n))
  PROVE  Chained(at2, open', Pos')
<1>1. /\ Pos \in Nat /\ Len(open) \in Nat
      /\ \A k \in 1..Len(open) : Held(open[k]) \subseteq 0..Pos /\ open[k].p \in Held(open[k])
  BY HeldPlaced
<1>2. Pos' \in Nat
  BY LenProperties DEF Typed, CodeOK, Pos
<1>3. /\ at2 \in [0..Pos' -> Levels] /\ \A x \in 0..Pos : at2[x] = at[x]
  <2>1. at \in [0..Pos -> Levels]
    BY DEF Chained
  <2> QED
    BY <2>1, LevelsGrow
<1>4. at2[0] = Ground
  BY <1>1, <1>3 DEF Chained
<1>5. ASSUME NEW k \in 0..n PROVE Around(at2, open', k) = Around(at, open, k)
  <2>1. CASE k = 0
    BY <2>1 DEF Around
  <2>2. CASE k # 0
    <3>1. k \in 1..n /\ k \in 1..Len(open)
      BY <1>1, <2>2
    <3>2. at2[open[k].p] = at[open[k].p]
      BY <1>1, <1>3, <3>1
    <3> QED
      BY <2>2, <3>1, <3>2 DEF Around
  <2> QED
    BY <2>1, <2>2
<1>6. ASSUME NEW k \in 1..n, NEW x \in Held(open'[k])
      PROVE  at2[x] = Around(at2, open', k - 1)
  <2>1. k \in 1..Len(open) /\ k - 1 \in 0..n /\ open'[k] = open[k]
    BY <1>1
  <2>2. x \in 0..Pos /\ at[x] = Around(at, open, k - 1)
    BY <1>1, <2>1 DEF Chained
  <2> QED
    BY <1>3, <1>5, <2>1, <2>2
<1>7. CASE Len(open') = n
  <2>1. n \in 0..n
    BY <1>1
  <2>2. at2[Pos'] = Around(at2, open', Len(open'))
    BY <1>5, <1>7, <2>1
  <2> QED
    BY <1>3, <1>4, <1>6, <1>7, <2>2 DEF Chained
<1>8. CASE Len(open') = n + 1
  <2>1. n \in 0..n /\ n + 1 # 0 /\ n + 1 - 1 = n
    BY <1>1
  <2>2. ASSUME NEW k \in 1..(n + 1), NEW x \in Held(open'[k])
        PROVE  at2[x] = Around(at2, open', k - 1)
    <3>1. k \in 1..n \/ k = n + 1
      BY <1>1
    <3>2. CASE k = n + 1
      BY <1>5, <1>8, <2>1, <3>2
    <3> QED
      BY <1>6, <3>1, <3>2
  <2>3. open'[n + 1].p \in Held(open'[n + 1])
    BY DEF Held
  <2>4. at2[open'[n + 1].p] = Around(at, open, n)
    BY <1>8, <2>3
  <2>5. Around(at2, open', n + 1) = Entered(open'[n + 1].kind, Around(at, open, n))
    BY <2>1, <2>4 DEF Around
  <2> QED
    BY <1>3, <1>4, <1>8, <2>2, <2>5 DEF Chained
<1> QED
  BY <1>7, <1>8

\* Straight code leads on at its own level.
LEMMA StraightLeads ==
  ASSUME NEW at, NEW c, NEW w, NEW i, c[i].op \in StraightOps, at[i] = at[i - 1]
  PROVE  Leads(at, c, w, i)
<1>1. c[i].op \notin Jumps \cup {"END_TRY", "RET", "HALT", "CALL"} /\ c[i].op # "TRY"
  BY StraightNames DEF Jumps
<1> QED
  BY <1>1 DEF Leads

\* A jump without a target leads on at the level after it.
LEMMA HoleLeads ==
  ASSUME NEW at, NEW c, NEW w, NEW i, (i - 1) \in w,
         \/ c[i].op = "JMP"
         \/ c[i].op = "JMP_IF" /\ at[i] = at[i - 1]
         \/ c[i].op = "TRY" /\ at[i] = Deeper(at[i - 1])
  PROVE  Leads(at, c, w, i)
BY DEF Leads

(***************************************************************************)
(* A step keeps the annotation of the code there was when it gives jumps   *)
(* only targets of their own level, and leaves no other jump without one.  *)
(***************************************************************************)
LEMMA AnnotationGrows ==
  ASSUME Typed, Typed', NEW at, Annotates(at), Pos <= Pos', NEW l \in Levels,
         NEW at2, at2 = Extended(at, Pos', l),
         Chained(at2, open', Pos'),
         UNCHANGED functions \/ \A f \in DOMAIN functions' : at2[functions'[f].addr] = Body,
         \A i \in 1..Pos :
           \/ code'[i] = code[i] /\ ((i - 1) \in Waiting(open) => (i - 1) \in Waiting(open'))
           \/ /\ code'[i].op = code[i].op /\ code[i].op \in Jumps
              /\ (i - 1) \in Waiting(open') \/ at2[code'[i].a] = at2[i - 1],
         \A i \in 1..Pos' : i > Pos => Leads(at2, code', Waiting(open'), i),
         expr'.for \in {"while", "for"} => at2[expr'.slot] = at2[Pos'],
         expr'.for = "return" => at2[Pos'].depth = 0
  PROVE  Annotates(at2)'
<1>1. Pos \in Nat /\ Pos' \in Nat
  BY LenProperties DEF Typed, CodeOK, Pos
<1>2. \A x \in 0..Pos : at2[x] = at[x]
  BY LevelsGrow DEF Annotates, Chained
<1>3. ASSUME NEW i \in 1..Pos
      PROVE  Leads(at2, code', Waiting(open'), i)
  <2>1. i \in 0..Pos /\ (i - 1) \in 0..Pos
    BY <1>1
  <2>2. at2[i] = at[i] /\ at2[i - 1] = at[i - 1] /\ Leads(at, code, Waiting(open), i)
    BY <1>2, <2>1 DEF Annotates
  <2>3. code[i] \in Emitted /\ InRange(code[i], Pos, Len(pool))
    BY ElementOfSeq DEF Typed, CodeOK, Pos
  <2>4. code[i].op \in Branches => code[i].a \in 0..Pos /\ at2[code[i].a] = at[code[i].a]
    BY <1>1, <1>2, <2>3 DEF InRange, Emitted
  <2>5. Jumps \subseteq Branches /\ "CALL" \in Branches
    BY DEF Jumps, Branches
  <2>6. CASE code'[i] = code[i] /\ ((i - 1) \in Waiting(open) => (i - 1) \in Waiting(open'))
    BY <2>2, <2>4, <2>5, <2>6 DEF Leads
  <2>7. CASE /\ code'[i].op = code[i].op /\ code[i].op \in Jumps
             /\ (i - 1) \in Waiting(open') \/ at2[code'[i].a] = at2[i - 1]
    <3>1. code[i].op \in {"JMP", "JMP_IF", "TRY"}
      BY <2>7 DEF Jumps
    <3> QED
      BY <2>2, <2>7, <3>1 DEF Leads
  <2> QED
    BY <2>6, <2>7
<1>4. \A i \in 1..Pos' : Leads(at2, code', Waiting(open'), i)
  <2>1. \A i \in 1..Pos' : i > Pos \/ i \in 1..Pos
    BY <1>1
  <2> QED
    BY <1>3, <2>1
<1>5. \A f \in DOMAIN functions' : at2[functions'[f].addr] = Body
  <2>1. CASE UNCHANGED functions
    <3>1. \A f \in DOMAIN functions : functions[f].addr \in 0..Pos
      BY <1>1 DEF Typed, CodeOK
    <3> QED
      BY <1>2, <2>1, <3>1 DEF Annotates
  <2> QED
    BY <2>1
<1> QED
  BY <1>4, <1>5 DEF Annotates

\* What is compiled next, as far as loops and returns go.
LEMMA PlainExpr ==
  ASSUME Typed, Plain \/ UserCall
  PROVE  \/ expr'.for = expr.for /\ expr'.slot = expr.slot
         \/ expr'.for \notin {"return", "while", "for"}
         \/ BeginReturn /\ expr'.for = "return"
         \/ UNCHANGED code /\ expr'.for \in {"while", "for"} /\ expr'.slot = Pos
<1>1. CASE Computes \/ UserCall
  <2>1. PICK n : Built(n)
    BY <1>1 DEF Computes, Number, LargeNumber, Literal, Symbol, IncDec, Binary, Prefix, UserCall,
       PrintCall, Operation, WithConstant, ArrayLiteral, ErrorExpr, Leaf
  <2>2. expr \in Exprs
    BY DEF Typed, ExprOK
  <2>3. PICK d : expr' = [expr EXCEPT !.depth = d]
    BY <2>1 DEF Built
  <2> QED
    BY <2>2, <2>3 DEF Exprs
<1>2. CASE UNCHANGED expr
  BY <1>2
<1>3. CASE expr' = NoExpr
  BY <1>3 DEF NoExpr
<1>4. ASSUME NEW for, NEW name, NEW slot, expr' = Expr(for, name, slot),
             \/ for \notin {"return", "while", "for"}
             \/ BeginReturn /\ for = "return"
             \/ UNCHANGED code /\ for \in {"while", "for"} /\ slot = Pos
      PROVE  \/ expr'.for \notin {"return", "while", "for"}
             \/ BeginReturn /\ expr'.for = "return"
             \/ UNCHANGED code /\ expr'.for \in {"while", "for"} /\ expr'.slot = Pos
  BY <1>4 DEF Expr
<1>5. CASE BeginReturn
  BY <1>4, <1>5 DEF BeginReturn
<1>6. CASE BeginWhile \/ BeginForCondition
  BY <1>4, <1>6 DEF BeginWhile, BeginForCondition
<1>7. CASE BeginExpressionStmt \/ (\E x \in Names, isConst \in BOOLEAN : BeginVarDecl(x, isConst))
           \/ BeginMemberAssign \/ BeginField \/ BeginEmit \/ BeginRequire \/ BeginIf
  <2>1. PICK for \in {"statement", "variable", "field", "event", "condition", "if"} :
          \E name : expr' = Expr(for, name, 0)
    BY <1>7 DEF BeginExpressionStmt, BeginVarDecl, BeginMemberAssign, BeginField, BeginEmit,
         BeginRequire, BeginIf
  <2> QED
    BY <1>4, <2>1
<1>8. CASE \E x \in Names : BeginAssign(x)
  BY <1>4, <1>8 DEF BeginAssign
<1>9. CASE EndExpressionStmt \/ EndVarDecl \/ EndAssign \/ EndField \/ EndEmit
  BY <1>3, <1>9 DEF EndExpressionStmt, EndVarDecl, EndAssign, EndField, EndEmit
<1>10. CASE (\E x \in Names : AssignConstant(x)) \/ CompilerPanics \/ UNCHANGED cvars
  BY <1>2, <1>10 DEF AssignConstant, CompilerPanics, cvars
<1> QED
  BY <1>1, <1>5, <1>6, <1>7, <1>8, <1>9, <1>10 DEF Plain

----------------------------------------------------------------------------
(* Where functions and try blocks are open, the level says so.             *)

LEMMA InsideFunction ==
  ASSUME Typed, FuncNesting, NEW at, Chained(at, open, Pos)
  PROVE  at[Pos].inside <=> isInFunction
<1> DEFINE T == {k \in 0..Len(open) : ~(Around(at, open, k).inside <=> FuncBelow(open, k + 1))}
<1>1. /\ Len(open) \in Nat
      /\ \A k \in 0..Len(open) : Around(at, open, k) \in Levels
      /\ \A k \in 1..Len(open) :
           Around(at, open, k) = Entered(open[k].kind, Around(at, open, k - 1))
  BY AroundIsLevel, HeldPlaced
<1>2. T = {}
  <2> SUFFICES ASSUME T # {} PROVE FALSE
    OBVIOUS
  <2>1. T \subseteq Nat
    BY <1>1
  <2>2. PICK k \in T : \A j \in T : k <= j
    BY <2>1, FirstPosition
  <2>3. CASE k = 0
    <3>1. Around(at, open, 0).inside = FALSE
      BY LevelsClosed DEF Around
    <3>2. ~FuncBelow(open, 1)
      BY DEF FuncBelow
    <3> QED
      BY <2>2, <2>3, <3>1, <3>2
  <2>4. CASE k # 0
    <3>1. k \in 1..Len(open) /\ k - 1 \in 0..Len(open) /\ k - 1 \in Nat /\ ~(k <= k - 1)
      BY <1>1, <2>2, <2>4
    <3>2. Around(at, open, k - 1).inside <=> FuncBelow(open, k - 1 + 1)
      BY <2>2, <3>1
    <3>3. FuncBelow(open, k + 1) <=> FuncBelow(open, k - 1 + 1) \/ open[k].kind = "func"
      <4>1. \A i \in Int : i \in 1..(k + 1 - 1) <=> i \in 1..(k - 1 + 1 - 1) \/ i = k
        BY <3>1
      <4> QED
        BY <3>1, <4>1 DEF FuncBelow
    <3>4. Around(at, open, k) = Entered(open[k].kind, Around(at, open, k - 1))
          /\ Around(at, open, k - 1) \in Levels
      BY <1>1, <3>1
    <3>5. Around(at, open, k).inside
            <=> Around(at, open, k - 1).inside \/ open[k].kind = "func"
      <4>1. CASE open[k].kind = "func"
        BY <3>4, <4>1, LevelsClosed DEF Entered
      <4>2. CASE open[k].kind # "func"
        BY <3>4, <4>2, LevelsClosed DEF Entered
      <4> QED
        BY <4>1, <4>2
    <3> QED
      BY <2>2, <3>2, <3>3, <3>5
  <2> QED
    BY <2>3, <2>4
<1>3. Len(open) \in 0..Len(open)
  BY <1>1
<1>4. Around(at, open, Len(open)).inside <=> FuncBelow(open, Len(open) + 1)
  BY <1>2, <1>3
<1> QED
  BY <1>4 DEF Chained, FuncNesting

LEMMA OutsideTry ==
  ASSUME Typed, NEW at, Chained(at, open, Pos), ~InTry
  PROVE  at[Pos].depth = 0
<1> SUFFICES ASSUME at[Pos].depth # 0 PROVE FALSE
  OBVIOUS
<1> DEFINE T == {k \in 0..Len(open) : /\ Around(at, open, k).depth # 0
                                      /\ \A j \in (k + 1)..Len(open) : open[j].kind # "func"}
<1>1. /\ Len(open) \in Nat
      /\ \A k \in 0..Len(open) : Around(at, open, k) \in Levels
      /\ \A k \in 1..Len(open) :
           Around(at, open, k) = Entered(open[k].kind, Around(at, open, k - 1))
  BY AroundIsLevel, HeldPlaced
<1>2. Len(open) \in T
  <2>1. Len(open) \in 0..Len(open) /\ (Len(open) + 1)..Len(open) = {}
    BY <1>1
  <2> QED
    BY <2>1 DEF Chained
<1>3. T \subseteq Nat /\ T # {}
  BY <1>1, <1>2
<1>4. PICK k \in T : \A j \in T : k <= j
  BY <1>3, FirstPosition
<1>5. k # 0
  BY <1>4, LevelsClosed DEF Around
<1>6. /\ k \in 1..Len(open) /\ k - 1 \in 0..Len(open) /\ ~(k <= k - 1)
      /\ k - 1 + 1 = k
      /\ \A j \in Int : j \in k..Len(open) => j = k \/ j \in (k + 1)..Len(open)
  BY <1>1, <1>4, <1>5
<1>7. Around(at, open, k) = Entered(open[k].kind, Around(at, open, k - 1))
      /\ Around(at, open, k - 1) \in Levels
  BY <1>1, <1>6
<1>8. open[k].kind # "func"
  BY <1>4, <1>7, LevelsClosed DEF Entered
<1>9. open[k].kind # "try"
  <2>1. DOMAIN open = 1..Len(open)
    BY LenProperties DEF Typed, OpenOK
  <2> QED
    BY <1>4, <1>6, <2>1 DEF InTry
<1>10. Around(at, open, k - 1).depth # 0
  BY <1>4, <1>7, <1>8, <1>9 DEF Entered
<1>11. \A j \in (k - 1 + 1)..Len(open) : open[j].kind # "func"
  BY <1>4, <1>6, <1>8
<1>12. k - 1 \in T
  BY <1>6, <1>10, <1>11
<1> QED
  BY <1>4, <1>6, <1>12

----------------------------------------------------------------------------
(* The annotation, step by step.                                           *)

\* The jumps without a target come and go with the statements they belong to.
LEMMA WaitingPushed ==
  ASSUME Typed, NEW e \in Statements, open' = Append(open, e)
  PROVE  Waiting(open) \subseteq Waiting(open') /\ Holes(e) \subseteq Waiting(open')
<1>1. /\ Len(open) \in Nat /\ Len(open') = Len(open) + 1
      /\ \A i \in 1..Len(open) : open'[i] = open[i]
      /\ open'[Len(open) + 1] = e
  BY Pushed DEF Typed
<1>2. Len(open) + 1 \in 1..Len(open') /\ \A i \in 1..Len(open) : i \in 1..Len(open')
  BY <1>1
<1> QED
  BY <1>1, <1>2 DEF Waiting

LEMMA WaitingChanged ==
  ASSUME Typed, NEW e, Continues(e), Holes(Inner) \subseteq Holes(e)
  PROVE  Waiting(open) \subseteq Waiting(open') /\ Holes(e) \subseteq Waiting(open')
<1>1. /\ Len(open) \in Nat \ {0} /\ Len(open') = Len(open)
      /\ \A i \in 1..(Len(open) - 1) : open'[i] = open[i]
      /\ open'[Len(open)] = e
  BY Changed DEF Typed, Continues
<1>2. Inner = open[Len(open)]
  BY InnerIsPlaced DEF Typed, Continues
<1>3. /\ Len(open) \in 1..Len(open') /\ \A i \in 1..(Len(open) - 1) : i \in 1..Len(open')
      /\ \A i \in 1..Len(open) : i \in 1..(Len(open) - 1) \/ i = Len(open)
  BY <1>1
<1> QED
  BY <1>1, <1>2, <1>3 DEF Waiting

LEMMA WaitingPopped ==
  ASSUME Typed, open # <<>>, open' = Front(open)
  PROVE  \A x : x \in Waiting(open) => x \in Waiting(open') \/ x \in Holes(Inner)
<1>1. /\ Len(open) \in Nat \ {0} /\ Len(open') = Len(open) - 1
      /\ \A i \in 1..(Len(open) - 1) : open'[i] = open[i]
      /\ Inner = open[Len(open)]
  BY Popped DEF Typed
<1>2. \A i \in 1..Len(open) : i = Len(open) \/ i \in 1..Len(open')
  BY <1>1
<1> QED
  BY <1>1, <1>2 DEF Waiting

\* No statement is entered or left.
LEMMA NotNested ==
  ASSUME Typed, Typed', NEW at, Annotates(at), UNCHANGED <<open, functions>>,
         Pos <= Pos', KeepsBut({}), NEW at2, at2 = Extended(at, Pos', at[Pos]),
         \A i \in 1..Pos' : i > Pos => Leads(at2, code', Waiting(open'), i),
         expr'.for \in {"while", "for"} => at2[expr'.slot] = at2[Pos'],
         expr'.for = "return" => at2[Pos'].depth = 0
  PROVE  Annotates(at2)'
<1>1. Chained(at, open, Pos)
  BY DEF Annotates
<1>2. at[Pos] \in Levels /\ at \in [0..Pos -> Levels] /\ Len(open) \in 0..Len(open)
      /\ Len(open) \in Nat
  BY <1>1, AroundIsLevel, HeldPlaced
<1>3. at2[Pos'] = at[Pos]
  BY <1>2, ExtendedEnd
<1>4. Chained(at2, open', Pos')
  <2>1. Len(open') \in {Len(open), Len(open) + 1} /\ Len(open') # Len(open) + 1
    BY <1>2
  <2>2. at2[Pos'] = Around(at, open, Len(open))
    BY <1>1, <1>3 DEF Chained
  <2> QED
    BY <1>1, <1>2, <2>1, <2>2, Chaining
<1>5. \A i \in 1..Pos : code'[i] = code[i]
                        /\ ((i - 1) \in Waiting(open) => (i - 1) \in Waiting(open'))
  BY DEF KeepsBut
<1> QED
  BY <1>2, <1>4, <1>5, AnnotationGrows

\* A statement is entered.
LEMMA AnnotationPushed ==
  ASSUME Typed, Typed', NEW at, Annotates(at), NEW e \in Statements, open' = Append(open, e),
         Pos <= Pos', KeepsBut({}), NEW l \in Levels, l = Entered(e.kind, at[Pos]),
         Pos' > Pos \/ l = at[Pos], NEW at2, at2 = Extended(at, Pos', l),
         \A x \in Held(e) : x \in 0..Pos /\ at[x] = at[Pos],
         UNCHANGED functions \/ \A f \in DOMAIN functions' : at2[functions'[f].addr] = Body,
         \A i \in 1..Pos' : i > Pos => Leads(at2, code', Waiting(open'), i),
         expr'.for = "nothing"
  PROVE  Annotates(at2)'
<1>1. Chained(at, open, Pos)
  BY DEF Annotates
<1>2. at[Pos] \in Levels /\ at \in [0..Pos -> Levels] /\ Pos \in Nat /\ Pos' \in Nat
  BY <1>1, AroundIsLevel, LenProperties DEF Typed, CodeOK, Pos
<1>3. at2[Pos'] = l
  BY <1>2, ExtendedEnd
<1>4. /\ Len(open) \in Nat /\ Len(open') = Len(open) + 1
      /\ \A i \in 1..Len(open) : open'[i] = open[i]
      /\ open'[Len(open) + 1] = e
  BY Pushed DEF Typed
<1>5. at[Pos] = Around(at, open, Len(open))
  BY <1>1 DEF Chained
<1>6. \A x \in Held(e) : at2[x] = at[Pos]
  BY <1>2, LevelsGrow
<1>7. Chained(at2, open', Pos')
  <2>1. Len(open) \in 0..Len(open) /\ Len(open') \in {Len(open), Len(open) + 1}
        /\ Len(open') # Len(open)
    BY <1>4
  <2>2. /\ \A x \in Held(open'[Len(open) + 1]) : at2[x] = Around(at, open, Len(open))
        /\ at2[Pos'] = Entered(open'[Len(open) + 1].kind, Around(at, open, Len(open)))
    BY <1>3, <1>4, <1>5, <1>6
  <2> QED
    BY <1>1, <1>4, <2>1, <2>2, Chaining
<1>8. Waiting(open) \subseteq Waiting(open')
  BY WaitingPushed
<1>9. \A i \in 1..Pos : code'[i] = code[i]
                        /\ ((i - 1) \in Waiting(open) => (i - 1) \in Waiting(open'))
  BY <1>8 DEF KeepsBut
<1> QED
  BY <1>7, <1>9, AnnotationGrows

\* It goes on to its next part.
LEMMA AnnotationContinued ==
  ASSUME Typed, Typed', NEW at, Annotates(at), NEW e, Continues(e), Holes(Inner) \subseteq Holes(e),
         Pos <= Pos', KeepsBut({}), NEW l \in Levels, NEW at2, at2 = Extended(at, Pos', l),
         \A x \in Held(e) : at2[x] = at[Inner.p], at2[Pos'] = Entered(e.kind, at[Inner.p]),
         UNCHANGED functions,
         \A i \in 1..Pos' : i > Pos => Leads(at2, code', Waiting(open'), i),
         expr'.for = "nothing"
  PROVE  Annotates(at2)'
<1>1. Chained(at, open, Pos)
  BY DEF Annotates
<1>2. /\ Len(open) \in Nat \ {0} /\ Len(open') = Len(open)
      /\ \A i \in 1..(Len(open) - 1) : open'[i] = open[i]
      /\ open'[Len(open)] = e
  BY Changed DEF Typed, Continues
<1>3. Inner = open[Len(open)] /\ Inner.p \in Held(Inner)
  BY InnerIsPlaced DEF Typed, Continues, Held
<1> DEFINE n == Len(open) - 1
<1>4. /\ n \in 0..Len(open) /\ n + 1 = Len(open) /\ n + 1 - 1 = n /\ n + 1 \in 1..Len(open)
      /\ Len(open') \in {n, n + 1} /\ Len(open') # n
  BY <1>2
<1>5. at[Inner.p] = Around(at, open, n)
  <2>1. \A x \in Held(open[n + 1]) : at[x] = Around(at, open, n + 1 - 1)
    BY <1>1, <1>4 DEF Chained
  <2> QED
    BY <1>3, <1>4, <2>1
<1>6. Chained(at2, open', Pos')
  <2>1. /\ \A k \in 1..n : open'[k] = open[k]
        /\ \A x \in Held(open'[n + 1]) : at2[x] = Around(at, open, n)
        /\ at2[Pos'] = Entered(open'[n + 1].kind, Around(at, open, n))
    BY <1>2, <1>4, <1>5
  <2> HIDE DEF n
  <2> QED
    BY <1>1, <1>4, <2>1, Chaining
<1>7. Waiting(open) \subseteq Waiting(open')
  BY WaitingChanged
<1>8. \A i \in 1..Pos : code'[i] = code[i]
                        /\ ((i - 1) \in Waiting(open) => (i - 1) \in Waiting(open'))
  BY <1>7 DEF KeepsBut
<1> QED
  BY <1>6, <1>8, AnnotationGrows

\* It is left, its jumps leading to addresses of its own level.
LEMMA AnnotationPopped ==
  ASSUME Typed, Typed', NEW at, Annotates(at), Leaves(Holes(Inner)), Pos <= Pos',
         NEW l \in Levels, l = at[Inner.p], NEW at2, at2 = Extended(at, Pos', l),
         Pos' > Pos \/ Inner.kind \notin {"func", "try"},
         \A x \in Holes(Inner) : at2[code'[x + 1].a] = l,
         UNCHANGED functions,
         \A i \in 1..Pos' : i > Pos => Leads(at2, code', Waiting(open'), i),
         expr'.for = "nothing"
  PROVE  Annotates(at2)'
<1>1. Chained(at, open, Pos)
  BY DEF Annotates
<1>2. /\ Len(open) \in Nat \ {0} /\ Len(open') = Len(open) - 1
      /\ \A i \in 1..(Len(open) - 1) : open'[i] = open[i]
      /\ Inner = open[Len(open)]
  BY Popped DEF Typed, Leaves
<1>3. /\ Pos \in Nat /\ Pos' \in Nat /\ at \in [0..Pos -> Levels]
      /\ \A x \in 0..Pos : at2[x] = at[x]
  BY <1>1, AroundIsLevel, LevelsGrow, LenProperties DEF Typed, CodeOK, Pos
<1> DEFINE n == Len(open) - 1
<1>4. /\ n \in 0..Len(open) /\ n + 1 = Len(open) /\ n + 1 - 1 = n /\ n + 1 \in 1..Len(open)
      /\ Len(open') \in {n, n + 1} /\ Len(open') # n + 1
  BY <1>2
<1>5. /\ l = Around(at, open, n)
      /\ \A x \in Held(Inner) : at[x] = l
  <2>1. \A x \in Held(open[n + 1]) : at[x] = Around(at, open, n + 1 - 1)
    BY <1>1, <1>4 DEF Chained
  <2>2. Inner = open[n + 1] /\ Inner.p \in Held(Inner)
    BY <1>2, <1>4 DEF Held
  <2> QED
    BY <1>4, <2>1, <2>2
<1>6. at2[Pos'] = l
  <2>1. CASE Pos' > Pos
    BY <1>3, <2>1, ExtendedEnd
  <2>2. CASE ~(Pos' > Pos)
    <3>1. at[Pos] = Entered(Inner.kind, l)
      <4>1. Len(open) # 0 /\ at[Pos] = Around(at, open, Len(open))
        BY <1>1, <1>2 DEF Chained
      <4> QED
        BY <1>2, <4>1 DEF Around
    <3>2. at[Pos] = l /\ Pos' = Pos
      BY <1>3, <2>2, <3>1 DEF Entered
    <3> QED
      BY <1>3, <3>2, ExtendedEnd
  <2> QED
    BY <2>1, <2>2
<1>7. Chained(at2, open', Pos')
  <2>1. \A k \in 1..n : open'[k] = open[k]
    BY <1>2
  <2> HIDE DEF n
  <2> QED
    BY <1>1, <1>4, <1>5, <1>6, <2>1, Chaining
<1>8. ASSUME NEW i \in 1..Pos
      PROVE  \/ code'[i] = code[i] /\ ((i - 1) \in Waiting(open) => (i - 1) \in Waiting(open'))
             \/ /\ code'[i].op = code[i].op /\ code[i].op \in Jumps
                /\ (i - 1) \in Waiting(open') \/ at2[code'[i].a] = at2[i - 1]
  <2>1. CASE (i - 1) \notin Holes(Inner)
    <3>1. (i - 1) \in Waiting(open) => (i - 1) \in Waiting(open')
      BY <2>1, WaitingPopped DEF Leaves
    <3> QED
      BY <2>1, <3>1 DEF Leaves, KeepsBut
  <2>2. CASE (i - 1) \in Holes(Inner)
    <3>1. /\ i - 1 + 1 = i /\ Len(open) \in 1..Len(open) /\ i - 1 \in 0..Pos
      BY <1>2, <1>3
    <3>2. code[i - 1 + 1].op \in Jumps /\ (i - 1) \in Held(Inner)
      BY <1>2, <2>2, <3>1, HeldPlaced
    <3>3. at2[code'[i - 1 + 1].a] = l
      BY <2>2
    <3>4. at2[i - 1] = l
      BY <1>3, <1>5, <3>1, <3>2
    <3>5. code'[i].op = code[i].op
      BY DEF Leaves
    <3> QED
      BY <3>1, <3>2, <3>3, <3>4, <3>5
  <2> QED
    BY <2>1, <2>2
<1> QED
  BY <1>7, <1>8, AnnotationGrows

----------------------------------------------------------------------------
(* Each step carries the annotation on.                                    *)

\* Code emitted at one level.
LEMMA FlatEmission ==
  ASSUME Typed, Typed', NEW at, Annotates(at), Pos <= Pos', NEW at2,
         at2 = Extended(at, Pos', at[Pos])
  PROVE  /\ Pos \in Nat /\ Pos' \in Nat /\ at[Pos] \in Levels
         /\ \A x \in 0..Pos : at2[x] = at[x]
         /\ \A x \in Pos..Pos' : at2[x] = at[Pos]
         /\ \A i \in 1..Pos' : i > Pos => at2[i] = at[Pos] /\ at2[i - 1] = at[Pos]
<1>1. Chained(at, open, Pos)
  BY DEF Annotates
<1>2. Pos \in Nat /\ Pos' \in Nat /\ at[Pos] \in Levels /\ at \in [0..Pos -> Levels]
  BY <1>1, AroundIsLevel, LenProperties DEF Typed, CodeOK, Pos
<1>3. /\ \A x \in 0..Pos : at2[x] = at[x]
      /\ \A x \in 0..Pos' : x > Pos => at2[x] = at[Pos]
  BY <1>2, LevelsGrow
<1>4. \A x \in Pos..Pos' : (x = Pos /\ x \in 0..Pos) \/ (x \in 0..Pos' /\ x > Pos)
  BY <1>2
<1>5. ASSUME NEW x \in Pos..Pos' PROVE at2[x] = at[Pos]
  <2>1. CASE x = Pos /\ x \in 0..Pos
    BY <1>3, <2>1
  <2>2. CASE x \in 0..Pos' /\ x > Pos
    BY <1>3, <2>2
  <2> QED
    BY <1>4, <2>1, <2>2
<1>6. \A i \in 1..Pos' : i > Pos => i \in Pos..Pos' /\ i - 1 \in Pos..Pos'
  BY <1>2
<1> QED
  BY <1>2, <1>3, <1>5, <1>6

\* No class of programs has returns in try blocks, calls there, or calls of functions
\* that are declared later.
StructuredClass == StructuredPrograms /\ class \in Classes

LEMMA PlainAnnotated ==
  ASSUME StructuredClass, Typed, Typed', NEW at, Annotates(at), Plain
  PROVE  Annotated'
<1>1. Straight /\ UNCHANGED <<open, functions>>
  BY PlainIsStraight DEF Typed
<1>2. Pos <= Pos' /\ KeepsBut({}) /\ \A i \in 1..Pos' : i > Pos => code'[i].op \in StraightOps
  BY <1>1 DEF Straight
<1>3. PICK at2 : at2 = Extended(at, Pos', at[Pos])
  OBVIOUS
<1>4. /\ Pos \in Nat /\ Pos' \in Nat
      /\ \A x \in 0..Pos : at2[x] = at[x]
      /\ \A x \in Pos..Pos' : at2[x] = at[Pos]
      /\ \A i \in 1..Pos' : i > Pos => at2[i] = at[Pos] /\ at2[i - 1] = at[Pos]
  BY <1>2, <1>3, FlatEmission
<1>5. \A i \in 1..Pos' : i > Pos => Leads(at2, code', Waiting(open'), i)
  BY <1>2, <1>4, StraightLeads
<1>6. at2[Pos'] = at[Pos]
  BY <1>2, <1>4
<1>7. /\ expr'.for \in {"while", "for"} => at2[expr'.slot] = at2[Pos']
      /\ expr'.for = "return" => at2[Pos'].depth = 0
  <2>1. CASE expr'.for = expr.for /\ expr'.slot = expr.slot
    <3>1. /\ expr.for \in {"while", "for"} => at[expr.slot] = at[Pos]
          /\ expr.for = "return" => at[Pos].depth = 0
      BY DEF Annotates
    <3>2. expr.for \in {"while", "for"} => expr.slot \in 0..Pos
      BY <1>4 DEF Typed, ExprOK, Exprs
    <3> QED
      BY <1>4, <1>6, <2>1, <3>1, <3>2
  <2>2. CASE expr'.for \notin {"return", "while", "for"}
    BY <2>2
  <2>3. CASE BeginReturn /\ expr'.for = "return"
    <3>1. ~InTry
      BY <2>3 DEF BeginReturn, StructuredClass, StructuredPrograms
    <3>2. at[Pos].depth = 0
      BY <3>1, OutsideTry DEF Annotates
    <3> QED
      BY <1>6, <2>3, <3>2
  <2>4. CASE UNCHANGED code /\ expr'.for \in {"while", "for"} /\ expr'.slot = Pos
    <3>1. Pos' = Pos
      BY <2>4 DEF Pos
    <3> QED
      BY <2>4, <3>1
  <2> QED
    BY <2>1, <2>2, <2>3, <2>4, PlainExpr
<1> QED
  BY <1>1, <1>2, <1>3, <1>5, <1>7, NotNested DEF Annotated

\* One instruction that leads on at its own level.
LEMMA OneAnnotated ==
  ASSUME Typed, Typed', NEW at, Annotates(at), UNCHANGED <<open, functions>>,
         Pos' = Pos + 1, KeepsBut({}),
         \A at2 : /\ \A x \in 0..Pos : at2[x] = at[x]
                  /\ at2[Pos + 1] = at[Pos]
                  => Leads(at2, code', Waiting(open'), Pos + 1),
         \/ expr'.for = expr.for /\ expr'.slot = expr.slot
         \/ expr'.for \notin {"return", "while", "for"}
  PROVE  Annotated'
<1>1. Pos \in Nat /\ Pos <= Pos'
  BY LenProperties DEF Typed, CodeOK, Pos
<1>2. PICK at2 : at2 = Extended(at, Pos', at[Pos])
  OBVIOUS
<1>3. /\ \A x \in 0..Pos : at2[x] = at[x]
      /\ \A x \in Pos..Pos' : at2[x] = at[Pos]
  BY <1>1, <1>2, FlatEmission
<1>4. Leads(at2, code', Waiting(open'), Pos + 1)
  BY <1>1, <1>3
<1>5. \A i \in 1..Pos' : i > Pos => i = Pos + 1
  BY <1>1
<1>6. \A i \in 1..Pos' : i > Pos => Leads(at2, code', Waiting(open'), i)
  BY <1>4, <1>5
<1>7. at2[Pos'] = at[Pos]
  BY <1>1, <1>3
<1>8. /\ expr'.for \in {"while", "for"} => at2[expr'.slot] = at2[Pos']
      /\ expr'.for = "return" => at2[Pos'].depth = 0
  <2>1. /\ expr.for \in {"while", "for"} => at[expr.slot] = at[Pos]
        /\ expr.for = "return" => at[Pos].depth = 0
    BY DEF Annotates
  <2>2. expr.for \in {"while", "for"} => expr.slot \in 0..Pos
    BY <1>1 DEF Typed, ExprOK, Exprs
  <2> QED
    BY <1>3, <1>7, <2>1, <2>2
<1> QED
  BY <1>1, <1>2, <1>6, <1>8, NotNested DEF Annotated

LEMMA CallAnnotated ==
  ASSUME StructuredClass, Typed, Typed', NEW at, Annotates(at), UserCall
  PROVE  Annotated'
<1>1. UNCHANGED <<open, functions>>
  BY CallEmitted
<1>2. PICK f \in Funcs :
        /\ f \in DOMAIN functions \/ "forward" \in class.exprs
        /\ InTry => "call_in_try" \in class.exprs
        /\ Pos \in Nat /\ Pos' = Pos + 1 /\ KeepsBut({})
        /\ code'[Pos + 1].op = "CALL"
        /\ code'[Pos + 1].a = IF f \in DOMAIN functions THEN functions[f].addr ELSE 0
  BY CallEmitted
<1>3. f \in DOMAIN functions /\ ~InTry
  BY <1>2 DEF StructuredClass, StructuredPrograms
<1>4. at[Pos].depth = 0
  BY <1>3, OutsideTry DEF Annotates
<1>5. code'[Pos + 1].a \in 0..Pos /\ at[code'[Pos + 1].a] = Body
  <2>1. functions[f].addr \in 1..Pos
    BY <1>3 DEF Typed, CodeOK
  <2> QED
    BY <1>2, <1>3, <2>1 DEF Annotates
<1>6. ASSUME NEW at2, \A x \in 0..Pos : at2[x] = at[x], at2[Pos + 1] = at[Pos]
      PROVE  Leads(at2, code', Waiting(open'), Pos + 1)
  <2>1. Pos + 1 - 1 = Pos /\ Pos \in 0..Pos
    BY <1>2
  <2>2. at2[code'[Pos + 1].a] = Body /\ at2[Pos] = at[Pos]
    BY <1>5, <1>6, <2>1
  <2>3. "CALL" \notin Jumps
    BY DEF Jumps
  <2> QED
    BY <1>2, <1>4, <1>6, <2>1, <2>2, <2>3 DEF Leads
<1>7. expr'.for = expr.for /\ expr'.slot = expr.slot
  <2>1. PICK n : Built(n)
    BY DEF UserCall
  <2>2. PICK d : expr' = [expr EXCEPT !.depth = d]
    BY <2>1 DEF Built
  <2> QED
    BY <2>2 DEF Typed, ExprOK, Exprs
<1> QED
  BY <1>1, <1>2, <1>6, <1>7, OneAnnotated

LEMMA ReturnAnnotated ==
  ASSUME StructuredClass, Typed, Typed', FuncNesting, NEW at, Annotates(at), EndReturn \/ EmptyReturn
  PROVE  Annotated'
<1>1. /\ Pos \in Nat /\ Pos' = Pos + 1 /\ KeepsBut({})
      /\ code'[Pos + 1].op = IF isInFunction THEN "RET" ELSE "PRINT"
      /\ UNCHANGED <<open, functions>>
  BY ReturnEmitted
<1>2. Chained(at, open, Pos) /\ at[Pos] \in Levels
  BY AroundIsLevel DEF Annotates
<1>3. at[Pos].depth = 0
  <2>1. CASE EndReturn
    BY <2>1 DEF EndReturn, Ends, Annotates
  <2>2. CASE EmptyReturn
    <3>1. ~InTry
      BY <2>2 DEF EmptyReturn, StructuredClass, StructuredPrograms
    <3> QED
      BY <1>2, <3>1, OutsideTry
  <2> QED
    BY <2>1, <2>2
<1>4. isInFunction => at[Pos] = Body
  BY <1>2, <1>3, InsideFunction, LevelsClosed
<1>5. ASSUME NEW at2, \A x \in 0..Pos : at2[x] = at[x], at2[Pos + 1] = at[Pos]
      PROVE  Leads(at2, code', Waiting(open'), Pos + 1)
  <2>1. Pos + 1 - 1 = Pos /\ Pos \in 0..Pos
    BY <1>1
  <2>2. at2[Pos] = at[Pos]
    BY <1>5, <2>1
  <2>3. CASE isInFunction
    <3>1. code'[Pos + 1].op = "RET" /\ "RET" \notin Jumps
      BY <1>1, <2>3 DEF Jumps
    <3> QED
      BY <1>4, <2>1, <2>2, <2>3, <3>1 DEF Leads
  <2>4. CASE ~isInFunction
    <3>1. code'[Pos + 1].op \in StraightOps
      BY <1>1, <2>4, StraightNames
    <3>2. PICK i : i = Pos + 1
      OBVIOUS
    <3>3. i - 1 = Pos /\ at2[i] = at[Pos]
      BY <1>5, <2>1, <3>2
    <3>4. code'[i].op \in StraightOps /\ at2[i] = at2[i - 1]
      BY <2>2, <3>1, <3>2, <3>3
    <3>5. Leads(at2, code', Waiting(open'), i)
      BY <3>4, StraightLeads
    <3> QED
      BY <3>2, <3>5
  <2> QED
    BY <2>3, <2>4
<1>6. expr'.for \notin {"return", "while", "for"} \/ UNCHANGED expr
  BY ExprFields DEF EndReturn, EmptyReturn
<1> QED
  BY <1>1, <1>5, <1>6, OneAnnotated

LEMMA HaltAnnotated ==
  ASSUME Typed, Typed', NEW at, Annotates(at), Finish
  PROVE  Annotated'
<1>1. /\ Pos \in Nat /\ Pos' = Pos + 1 /\ KeepsBut({}) /\ code'[Pos + 1].op = "HALT"
      /\ open = <<>> /\ UNCHANGED <<open, functions>>
  BY HaltEmitted
<1>2. at[Pos] = Ground
  BY <1>1 DEF Annotates, Chained, Around
<1>3. ASSUME NEW at2, \A x \in 0..Pos : at2[x] = at[x], at2[Pos + 1] = at[Pos]
      PROVE  Leads(at2, code', Waiting(open'), Pos + 1)
  <2>1. Pos + 1 - 1 = Pos /\ Pos \in 0..Pos
    BY <1>1
  <2>2. at2[Pos] = Ground /\ "HALT" \notin Jumps
    BY <1>2, <1>3, <2>1 DEF Jumps
  <2> QED
    BY <1>1, <2>1, <2>2 DEF Leads
<1>4. UNCHANGED expr
  BY DEF Finish
<1> QED
  BY <1>1, <1>3, <1>4, OneAnnotated

LEMMA RequireAnnotated ==
  ASSUME Typed, Typed', NEW at, Annotates(at), EndRequire
  PROVE  Annotated'
<1>1. /\ Pos \in Nat /\ Pos' = Pos + 4 /\ KeepsBut({})
      /\ code'[Pos + 1].op = "JMP_IF" /\ code'[Pos + 1].a = Pos + 2
      /\ code'[Pos + 2].op = "JMP" /\ code'[Pos + 2].a = Pos + 4
      /\ code'[Pos + 3].op \in StraightOps /\ code'[Pos + 4].op \in StraightOps
      /\ UNCHANGED <<open, functions>>
  BY RequireEmitted
<1>2. Pos <= Pos'
  BY <1>1
<1>3. PICK at2 : at2 = Extended(at, Pos', at[Pos])
  OBVIOUS
<1>4. /\ \A x \in Pos..Pos' : at2[x] = at[Pos]
      /\ \A i \in 1..Pos' : i > Pos => at2[i] = at[Pos] /\ at2[i - 1] = at[Pos]
  BY <1>2, <1>3, FlatEmission
<1>5. Pos + 2 \in Pos..Pos' /\ Pos + 4 \in Pos..Pos'
  BY <1>1
<1>6. ASSUME NEW i \in 1..Pos', i > Pos
      PROVE  Leads(at2, code', Waiting(open'), i)
  <2>1. i \in {Pos + 1, Pos + 2} \/ i \in {Pos + 3, Pos + 4}
    BY <1>1, <1>6
  <2>2. at2[i] = at[Pos] /\ at2[i - 1] = at[Pos]
    BY <1>4, <1>6
  <2>3. CASE i \in {Pos + 1, Pos + 2}
    <3>1. code'[i].op \in {"JMP", "JMP_IF"} /\ at2[code'[i].a] = at[Pos]
      BY <1>1, <1>4, <1>5, <2>3
    <3> QED
      BY <2>2, <3>1 DEF Leads
  <2>4. CASE i \in {Pos + 3, Pos + 4}
    <3>1. code'[i].op \in StraightOps
      BY <1>1, <2>4
    <3> QED
      BY <2>2, <3>1, StraightLeads
  <2> QED
    BY <2>1, <2>3, <2>4
<1>7. expr'.for = "nothing"
  BY ExprFields DEF EndRequire
<1> QED
  BY <1>1, <1>2, <1>3, <1>6, <1>7, NotNested DEF Annotated

\* A statement is entered through a jump over it, or over its body.
LEMMA EntryAnnotated ==
  ASSUME Typed, Typed', NEW at, Annotates(at), NEW e, NEW op, Enters(e, op),
         Pos \in Holes(e), \A x \in Held(e) : x \in 0..Pos /\ at[x] = at[Pos],
         \/ e.kind = "func" /\ op = "JMP"
         \/ e.kind = "try" /\ op = "TRY"
         \/ e.kind \in {"then", "while"} /\ op = "JMP_IF",
         \/ UNCHANGED functions
         \/ /\ e.kind = "func"
            /\ \E f \in Funcs : functions' = Put(functions, f, FuncMeta(f)),
         expr'.for = "nothing"
  PROVE  Annotated'
<1>1. /\ e \in Statements /\ open' = Append(open, e)
      /\ Pos \in Nat /\ Pos' = Pos + 1 /\ KeepsBut({}) /\ code'[Pos + 1].op = op
      /\ Pos <= Pos' /\ Pos' > Pos
  BY DEF Enters
<1>2. Chained(at, open, Pos) /\ at[Pos] \in Levels /\ at \in [0..Pos -> Levels]
  BY AroundIsLevel DEF Annotates
<1>3. PICK l \in Levels : l = Entered(e.kind, at[Pos])
  BY <1>2, LevelsClosed
<1>4. PICK at2 : at2 = Extended(at, Pos', l)
  OBVIOUS
<1>5. at2[Pos'] = l /\ \A x \in 0..Pos : at2[x] = at[x]
  BY <1>1, <1>2, <1>4, ExtendedEnd, LevelsGrow
<1>6. Pos \in Waiting(open')
  BY <1>1, WaitingPushed
<1>7. ASSUME NEW i \in 1..Pos', i > Pos
      PROVE  Leads(at2, code', Waiting(open'), i)
  <2>1. i = Pos' /\ i = Pos + 1 /\ i - 1 = Pos /\ Pos \in 0..Pos
    BY <1>1, <1>7
  <2>2. at2[i] = l /\ at2[i - 1] = at[Pos] /\ (i - 1) \in Waiting(open') /\ code'[i].op = op
    BY <1>1, <1>5, <1>6, <2>1
  <2>3. CASE e.kind = "func" /\ op = "JMP"
    BY <2>2, <2>3, HoleLeads
  <2>4. CASE e.kind = "try" /\ op = "TRY"
    BY <1>3, <2>2, <2>4, HoleLeads DEF Entered
  <2>5. CASE e.kind \in {"then", "while"} /\ op = "JMP_IF"
    BY <1>3, <2>2, <2>5, HoleLeads DEF Entered
  <2> QED
    BY <2>3, <2>4, <2>5
<1>8. UNCHANGED functions \/ \A f \in DOMAIN functions' : at2[functions'[f].addr] = Body
  <2>1. CASE e.kind = "func" /\ \E f \in Funcs : functions' = Put(functions, f, FuncMeta(f))
    <3>1. PICK f \in Funcs : functions' = Put(functions, f, FuncMeta(f))
      BY <2>1
    <3>2. FuncMeta(f).addr = Pos'
      BY <1>1 DEF FuncMeta
    <3>3. at2[Pos'] = Body
      BY <1>3, <1>5, <2>1 DEF Entered
    <3>4. ASSUME NEW g \in DOMAIN functions' PROVE at2[functions'[g].addr] = Body
      <4>1. CASE g = f
        <5>1. functions'[g] = FuncMeta(f)
          BY <3>1, <3>4, <4>1 DEF Put
        <5> QED
          BY <3>2, <3>3, <5>1
      <4>2. CASE g # f
        <5>1. g \in DOMAIN functions /\ functions'[g] = functions[g]
          BY <3>1, <3>4, <4>2 DEF Put
        <5>2. functions[g].addr \in 0..Pos
          BY <1>1, <5>1 DEF Typed, CodeOK
        <5>3. at[functions[g].addr] = Body
          BY <5>1 DEF Annotates
        <5> QED
          BY <1>5, <5>1, <5>2, <5>3
      <4> QED
        BY <4>1, <4>2
    <3> QED
      BY <3>4
  <2> QED
    BY <2>1
<1> QED
  BY <1>1, <1>3, <1>4, <1>7, <1>8, AnnotationPushed DEF Annotated

\* A part of a statement that emits no jump of its own.
LEMMA ForBegunAnnotated ==
  ASSUME Typed, Typed', NEW at, Annotates(at), NEW e \in Statements, open' = Append(open, e),
         Straight, e.kind \in {"for_init", "object"}, e.p = Pos, UNCHANGED functions,
         expr'.for = "nothing"
  PROVE  Annotated'
<1>1. Pos <= Pos' /\ KeepsBut({}) /\ \A i \in 1..Pos' : i > Pos => code'[i].op \in StraightOps
  BY DEF Straight
<1>2. PICK at2 : at2 = Extended(at, Pos', at[Pos])
  OBVIOUS
<1>3. /\ Pos \in Nat /\ at[Pos] \in Levels
      /\ \A i \in 1..Pos' : i > Pos => at2[i] = at[Pos] /\ at2[i - 1] = at[Pos]
  BY <1>1, <1>2, FlatEmission
<1>4. \A i \in 1..Pos' : i > Pos => Leads(at2, code', Waiting(open'), i)
  BY <1>1, <1>3, StraightLeads
<1>5. at[Pos] = Entered(e.kind, at[Pos]) /\ Held(e) = {Pos}
  BY DEF Entered, Held
<1>6. \A x \in Held(e) : x \in 0..Pos /\ at[x] = at[Pos]
  BY <1>3, <1>5
<1> QED
  BY <1>1, <1>2, <1>3, <1>4, <1>5, <1>6, AnnotationPushed DEF Annotated

LEMMA OpeningsAnnotated ==
  ASSUME Typed, Typed', NEW at, Annotates(at),
         Opens \/ EnterTry \/ (\E f \in Funcs : EnterFunc(f))
  PROVE  Annotated'
<1>1. expr'.for = "nothing"
  BY BetweenExpressions
<1>2. Pos \in Nat /\ Pos \in 0..Pos
  BY LenProperties DEF Typed, CodeOK, Pos
<1>3. CASE EnterThen
  <2>1. PICK e : Enters(e, "JMP_IF") /\ e.kind = "then" /\ e.p = Pos
    BY <1>3, ThenEntered
  <2>2. Pos \in Holes(e) /\ Held(e) = {Pos}
    BY <2>1 DEF Holes, Held
  <2>3. UNCHANGED functions
    BY <1>3 DEF EnterThen, decls
  <2> QED
    BY <1>1, <1>2, <2>1, <2>2, <2>3, EntryAnnotated
<1>4. CASE EnterWhile
  <2>1. expr.for = "while" /\ expr.slot \in 0..Pos
    BY <1>4, WhileEntered
  <2>2. PICK e : Enters(e, "JMP_IF") /\ e.kind = "while" /\ e.p = expr.slot /\ e.q = Pos
    BY <1>4, WhileEntered
  <2>3. Pos \in Holes(e) /\ Held(e) = {expr.slot, Pos}
    BY <2>2 DEF Holes, Held
  <2>4. at[expr.slot] = at[Pos]
    BY <2>1 DEF Annotates
  <2>5. \A x \in Held(e) : x \in 0..Pos /\ at[x] = at[Pos]
    BY <1>2, <2>1, <2>3, <2>4
  <2>6. UNCHANGED functions
    BY <1>4 DEF EnterWhile, decls
  <2> QED
    BY <1>1, <2>2, <2>3, <2>5, <2>6, EntryAnnotated
<1>5. CASE EnterTry
  <2>1. PICK e : Enters(e, "TRY") /\ e.kind = "try" /\ e.p = Pos
    BY <1>5, TryEntered
  <2>2. Pos \in Holes(e) /\ Held(e) = {Pos}
    BY <2>1 DEF Holes, Held
  <2>3. UNCHANGED functions
    BY <1>5 DEF EnterTry, decls
  <2> QED
    BY <1>1, <1>2, <2>1, <2>2, <2>3, EntryAnnotated
<1>6. CASE \E f \in Funcs : EnterFunc(f)
  <2>1. PICK f \in Funcs : EnterFunc(f)
    BY <1>6
  <2>2. PICK e : Enters(e, "JMP") /\ e.kind = "func" /\ e.p = Pos
    BY <2>1, FuncEntered
  <2>3. functions' = Put(functions, f, FuncMeta(f))
    BY <2>1, FuncEntered
  <2>4. Pos \in Holes(e) /\ Held(e) = {Pos}
    BY <2>2 DEF Holes, Held
  <2> QED
    BY <1>1, <1>2, <2>2, <2>3, <2>4, EntryAnnotated
<1>7. CASE BeginFor
  <2>1. UNCHANGED functions
    BY <1>7 DEF BeginFor, decls
  <2> QED
    BY <1>1, <1>7, <2>1, ForBegun, ForBegunAnnotated
<1>8. CASE \E x \in Names : BeginObject(x)
  <2>1. PICK x \in Names : BeginObject(x)
    BY <1>8
  <2>2. UNCHANGED functions
    BY <2>1 DEF BeginObject, decls
  <2> QED
    BY <1>1, <2>1, <2>2, ObjectBegun, ForBegunAnnotated
<1> QED
  BY <1>3, <1>4, <1>5, <1>6, <1>7, <1>8 DEF Opens

\* The level at which the innermost statement stands.
LEMMA InnerLevel ==
  ASSUME Typed, NEW at, Annotates(at), open # <<>>
  PROVE  /\ Pos \in Nat /\ (Typed' => Pos' \in Nat)
         /\ Inner \in Statements /\ Inner.p \in Held(Inner) /\ Held(Inner) \subseteq 0..Pos
         /\ \A x \in Held(Inner) : at[x] = at[Inner.p]
         /\ at[Inner.p] \in Levels /\ at[Pos] = Entered(Inner.kind, at[Inner.p])
<1>1. Chained(at, open, Pos)
  BY DEF Annotates
<1>2. /\ Pos \in Nat /\ at \in [0..Pos -> Levels]
  BY <1>1, AroundIsLevel, LenProperties DEF Typed, CodeOK, Pos
<1>3. Typed' => Pos' \in Nat
  BY LenProperties DEF Typed, CodeOK, Pos
<1>4. Len(open) \in Nat \ {0} /\ Inner = open[Len(open)] /\ Inner \in Statements
  BY InnerIsPlaced DEF Typed
<1>5. Len(open) \in 1..Len(open) /\ Len(open) # 0
  BY <1>4
<1>6. Inner.p \in Held(Inner) /\ Held(Inner) \subseteq 0..Pos
  BY <1>4, <1>5, HeldPlaced
<1>7. \A x \in Held(Inner) : at[x] = Around(at, open, Len(open) - 1)
  BY <1>1, <1>4, <1>5 DEF Chained
<1>8. at[Pos] = Entered(Inner.kind, at[Inner.p])
  <2>1. at[Pos] = Around(at, open, Len(open))
    BY <1>1 DEF Chained
  <2> QED
    BY <1>4, <1>5, <2>1 DEF Around
<1>9. at[Inner.p] \in Levels
  BY <1>2, <1>6
<1> QED
  BY <1>2, <1>3, <1>4, <1>6, <1>7, <1>8, <1>9

\* A statement goes on at its own level.
LEMMA ContinuedAnnotated ==
  ASSUME Typed, Typed', NEW at, Annotates(at), NEW e, Continues(e), Holes(Inner) \subseteq Holes(e),
         Pos <= Pos', KeepsBut({}), UNCHANGED functions, expr'.for = "nothing",
         e.kind \notin {"func", "try"}, Pos' > Pos \/ at[Pos] = at[Inner.p],
         \A x \in Held(e) : \/ x \in 0..Pos /\ at[x] = at[Inner.p]
                            \/ x \in 0..Pos' /\ x > Pos,
         \A at2 : /\ \A x \in 0..Pos : at2[x] = at[x]
                  /\ \A x \in 0..Pos' : x > Pos => at2[x] = at[Inner.p]
                  => \A i \in 1..Pos' : i > Pos => Leads(at2, code', Waiting(open'), i)
  PROVE  Annotated'
<1>1. open # <<>>
  BY DEF Continues
<1>2. at[Inner.p] \in Levels /\ Pos \in Nat /\ Pos' \in Nat
  BY <1>1, InnerLevel
<1>3. at \in [0..Pos -> Levels]
  BY DEF Annotates, Chained
<1>4. PICK l \in Levels : l = at[Inner.p]
  BY <1>2
<1>5. PICK at2 : at2 = Extended(at, Pos', l)
  OBVIOUS
<1>6. /\ \A x \in 0..Pos : at2[x] = at[x]
      /\ \A x \in 0..Pos' : x > Pos => at2[x] = l
  BY ONLY Typed, Typed', Pos <= Pos', <1>3, <1>5, LevelsGrow
<1>7. at2[Pos'] = l
  <2>1. Pos' = Pos \/ Pos' > Pos
    BY <1>2
  <2>2. CASE Pos' > Pos
    BY <1>3, <1>5, <2>2, ExtendedEnd
  <2>3. CASE Pos' = Pos
    <3>1. at[Pos] = l
      BY <1>2, <1>4, <2>3
    <3> QED
      BY <1>3, <1>5, <2>3, <3>1, ExtendedEnd
  <2> QED
    BY <2>1, <2>2, <2>3
<1>8. \A x \in Held(e) : at2[x] = at[Inner.p]
  BY <1>4, <1>6
<1>9. at2[Pos'] = Entered(e.kind, at[Inner.p])
  BY <1>4, <1>7 DEF Entered
<1>10. \A i \in 1..Pos' : i > Pos => Leads(at2, code', Waiting(open'), i)
  BY <1>4, <1>6
<1> QED
  BY <1>5, <1>8, <1>9, <1>10, AnnotationContinued DEF Annotated

LEMMA PartsAnnotated ==
  ASSUME Typed, Typed', NEW at, Annotates(at), GoesOn \/ (\E x \in Names : EnterCatch(x))
  PROVE  Annotated'
<1>1. expr'.for = "nothing"
  BY BetweenExpressions
<1>2. Pos \in Nat /\ Pos' \in Nat /\ Pos \in 0..Pos
  BY LenProperties DEF Typed, CodeOK, Pos
<1>3. CASE EnterElse
  <2>1. Inner.kind = "then" /\ Pos' = Pos + 1 /\ KeepsBut({}) /\ code'[Pos + 1].op = "JMP"
        /\ UNCHANGED functions
    BY <1>3, ElseEntered DEF EnterElse, decls
  <2>2. PICK e : Continues(e) /\ e.kind = "else" /\ e.p = Inner.p /\ e.q = Pos /\ e.r = Pos + 1
    BY <1>3, ElseEntered
  <2>3. open # <<>> /\ Inner.p \in 0..Pos /\ at[Pos] = at[Inner.p]
    BY <2>1, <2>2, InnerLevel DEF Continues, Entered
  <2>4. Held(e) = {Inner.p, Pos, Pos + 1} /\ Holes(e) = {Inner.p, Pos} /\ Holes(Inner) = {Inner.p}
    BY <2>1, <2>2 DEF Held, Holes
  <2>5. Pos \in Waiting(open')
    BY <2>2, <2>4, WaitingChanged
  <2>6. \A x \in Held(e) : \/ x \in 0..Pos /\ at[x] = at[Inner.p]
                           \/ x \in 0..Pos' /\ x > Pos
    BY <1>2, <2>1, <2>3, <2>4
  <2>7. \A i \in 1..Pos' : i > Pos => i - 1 = Pos /\ code'[i].op = "JMP"
    BY <1>2, <2>1
  <2>8. \A at2 : \A i \in 1..Pos' : i > Pos => Leads(at2, code', Waiting(open'), i)
    BY <2>5, <2>7, HoleLeads
  <2>9. Pos <= Pos' /\ Pos' > Pos
    BY <1>2, <2>1
  <2> QED
    BY <1>1, <2>1, <2>2, <2>4, <2>6, <2>8, <2>9, ContinuedAnnotated
<1>4. CASE EnterFor
  <2>1. /\ expr.for = "for" /\ expr.slot \in 0..Pos
        /\ Inner.kind = "for_init" /\ Pos' = Pos + 1 /\ KeepsBut({})
        /\ code'[Pos + 1].op = "JMP_IF" /\ UNCHANGED functions
    BY <1>4, ForEntered DEF EnterFor, decls
  <2>2. PICK e : Continues(e) /\ e.kind = "for" /\ e.p = expr.slot /\ e.q = Pos
    BY <1>4, ForEntered
  <2>3. open # <<>> /\ at[Pos] = at[Inner.p]
    BY <2>1, <2>2, InnerLevel DEF Continues, Entered
  <2>4. at[expr.slot] = at[Inner.p]
    BY <2>1, <2>3 DEF Annotates
  <2>5. Held(e) = {expr.slot, Pos} /\ Holes(e) = {Pos} /\ Holes(Inner) = {}
    BY <2>1, <2>2 DEF Held, Holes
  <2>6. Pos \in Waiting(open')
    BY <2>2, <2>5, WaitingChanged
  <2>7. \A x \in Held(e) : \/ x \in 0..Pos /\ at[x] = at[Inner.p]
                           \/ x \in 0..Pos' /\ x > Pos
    BY <1>2, <2>1, <2>3, <2>4, <2>5
  <2>8. \A i \in 1..Pos' : i > Pos => i - 1 = Pos /\ i \in 0..Pos' /\ code'[i].op = "JMP_IF"
    BY <1>2, <2>1
  <2>9. ASSUME NEW at2, \A x \in 0..Pos : at2[x] = at[x],
               \A x \in 0..Pos' : x > Pos => at2[x] = at[Inner.p]
        PROVE  \A i \in 1..Pos' : i > Pos => Leads(at2, code', Waiting(open'), i)
    <3>1. \A i \in 1..Pos' : i > Pos => at2[i] = at2[i - 1]
      BY <1>2, <2>3, <2>8, <2>9
    <3> QED
      BY <2>6, <2>8, <3>1, HoleLeads
  <2>10. Pos <= Pos' /\ Pos' > Pos
    BY <1>2, <2>1
  <2> QED
    BY <1>1, <2>1, <2>2, <2>5, <2>7, <2>9, <2>10, ContinuedAnnotated
<1>5. CASE EnterForPost
  <2>1. Inner.kind = "for" /\ Straight /\ UNCHANGED <<code, functions>>
    BY <1>5, ForPostEntered DEF EnterForPost, decls
  <2>2. PICK e : Continues(e) /\ e.kind = "for_post" /\ e.p = Pos /\ e.q = Inner.q /\ e.r = Inner.p
    BY <1>5, ForPostEntered
  <2>3. /\ open # <<>> /\ at[Pos] = at[Inner.p] /\ Inner.p \in Held(Inner)
        /\ Held(Inner) \subseteq 0..Pos /\ \A x \in Held(Inner) : at[x] = at[Inner.p]
    BY <2>1, <2>2, InnerLevel DEF Continues, Entered
  <2>4. /\ Held(e) = {Pos, Inner.q, Inner.p} /\ Holes(e) = {Inner.q} /\ Holes(Inner) = {Inner.q}
        /\ Inner.q \in Held(Inner)
    BY <2>1, <2>2 DEF Held, Holes
  <2>5. \A x \in Held(e) : x \in 0..Pos /\ at[x] = at[Inner.p]
    BY <1>2, <2>3, <2>4
  <2>6. Pos <= Pos' /\ KeepsBut({}) /\ Pos' = Pos
    BY <1>2, <2>1 DEF Straight, Pos
  <2>7. \A i \in 1..Pos' : ~(i > Pos)
    BY <1>2, <2>6
  <2> QED
    BY <1>1, <2>1, <2>2, <2>3, <2>4, <2>5, <2>6, <2>7, ContinuedAnnotated
<1>6. CASE \E x \in Names : EnterCatch(x)
  <2>1. PICK x \in Names : EnterCatch(x)
    BY <1>6
  <2>2. /\ Inner.kind = "try" /\ Pos' = Pos + 2 /\ KeepsBut({})
        /\ code'[Pos + 1].op = "END_TRY" /\ code'[Pos + 2].op = "JMP" /\ UNCHANGED functions
    BY <2>1, CatchEntered DEF EnterCatch, decls
  <2>3. PICK e : Continues(e) /\ e.kind = "catch" /\ e.p = Inner.p /\ e.q = Pos + 1
                 /\ e.r = Pos + 2
    BY <2>1, CatchEntered
  <2>4. open # <<>> /\ Inner.p \in 0..Pos /\ at[Pos] = Deeper(at[Inner.p])
    BY <2>2, <2>3, InnerLevel DEF Continues, Entered
  <2>5. /\ Held(e) = {Inner.p, Pos + 1, Pos + 2} /\ Holes(e) = {Inner.p, Pos + 1}
        /\ Holes(Inner) = {Inner.p}
    BY <2>2, <2>3 DEF Held, Holes
  <2>6. Pos + 1 \in Waiting(open')
    BY <2>3, <2>5, WaitingChanged
  <2>7. \A y \in Held(e) : \/ y \in 0..Pos /\ at[y] = at[Inner.p]
                           \/ y \in 0..Pos' /\ y > Pos
    BY <1>2, <2>2, <2>4, <2>5
  <2>8. \A i \in 1..Pos' : i > Pos =>
          /\ i \in 0..Pos'
          /\ \/ i - 1 = Pos /\ code'[i].op = "END_TRY"
             \/ i - 1 = Pos + 1 /\ code'[i].op = "JMP"
    BY <1>2, <2>2
  <2>9. ASSUME NEW at2, \A y \in 0..Pos : at2[y] = at[y],
               \A y \in 0..Pos' : y > Pos => at2[y] = at[Inner.p],
               NEW i \in 1..Pos', i > Pos
        PROVE  Leads(at2, code', Waiting(open'), i)
    <3>1. CASE i - 1 = Pos /\ code'[i].op = "END_TRY"
      <4>1. at2[i - 1] = Deeper(at2[i]) /\ "END_TRY" \notin Jumps
        BY <1>2, <2>4, <2>8, <2>9, <3>1 DEF Jumps
      <4> QED
        BY <3>1, <4>1 DEF Leads
    <3>2. CASE i - 1 = Pos + 1 /\ code'[i].op = "JMP"
      BY <2>6, <3>2, HoleLeads
    <3> QED
      BY <2>8, <2>9, <3>1, <3>2
  <2>10. Pos <= Pos' /\ Pos' > Pos
    BY <1>2, <2>2
  <2> QED
    BY <1>1, <2>2, <2>3, <2>5, <2>7, <2>9, <2>10, ContinuedAnnotated
<1> QED
  BY <1>3, <1>4, <1>5, <1>6 DEF GoesOn

\* A statement is left: what follows stands at its level, and its jumps lead there.
LEMMA ClosedAnnotated ==
  ASSUME Typed, Typed', NEW at, Annotates(at), Leaves(Holes(Inner)), Pos <= Pos',
         UNCHANGED functions, expr'.for = "nothing",
         Pos' > Pos \/ Inner.kind \notin {"func", "try"},
         \A x \in Holes(Inner) :
           \/ code'[x + 1].a \in 0..Pos /\ at[code'[x + 1].a] = at[Inner.p]
           \/ code'[x + 1].a \in 0..Pos' /\ code'[x + 1].a > Pos,
         \A at2 : /\ \A x \in 0..Pos : at2[x] = at[x]
                  /\ \A x \in 0..Pos' : x > Pos => at2[x] = at[Inner.p]
                  => \A i \in 1..Pos' : i > Pos => Leads(at2, code', Waiting(open'), i)
  PROVE  Annotated'
<1>1. open # <<>>
  BY DEF Leaves
<1>2. at[Inner.p] \in Levels /\ Pos \in Nat /\ Pos' \in Nat
  BY <1>1, InnerLevel
<1>3. at \in [0..Pos -> Levels]
  BY DEF Annotates, Chained
<1>4. PICK l \in Levels : l = at[Inner.p]
  BY <1>2
<1>5. PICK at2 : at2 = Extended(at, Pos', l)
  OBVIOUS
<1>6. /\ \A x \in 0..Pos : at2[x] = at[x]
      /\ \A x \in 0..Pos' : x > Pos => at2[x] = l
  BY ONLY Typed, Typed', Pos <= Pos', <1>3, <1>5, LevelsGrow
<1>7. \A x \in Holes(Inner) : at2[code'[x + 1].a] = l
  BY <1>4, <1>6
<1>8. \A i \in 1..Pos' : i > Pos => Leads(at2, code', Waiting(open'), i)
  BY <1>4, <1>6
<1> QED
  BY <1>4, <1>5, <1>7, <1>8, AnnotationPopped DEF Annotated

LEMMA ClosingsAnnotated ==
  ASSUME Typed, Typed', NEW at, Annotates(at), Closes \/ LeaveFunc \/ LeaveCatch
  PROVE  Annotated'
<1>1. expr'.for = "nothing"
  BY BetweenExpressions
<1>2. Pos \in Nat /\ Pos' \in Nat /\ Pos \in 0..Pos
  BY LenProperties DEF Typed, CodeOK, Pos
<1>3. CASE LeaveFunc
  <2>1. /\ Leaves({Inner.p}) /\ Inner.kind = "func"
        /\ Pos' = Pos + 1 /\ code'[Pos + 1].op = "RET" /\ code'[Inner.p + 1].a = Pos + 1
        /\ UNCHANGED functions
    BY <1>3, FuncLeft
  <2>2. Holes(Inner) = {Inner.p}
    BY <2>1 DEF Holes
  <2>3. open # <<>> /\ at[Pos] = Body
    BY <2>1, InnerLevel DEF Leaves, Entered
  <2>4. \A x \in Holes(Inner) : code'[x + 1].a \in 0..Pos' /\ code'[x + 1].a > Pos
    BY <1>2, <2>1, <2>2
  <2>5. \A i \in 1..Pos' : i > Pos => i - 1 = Pos /\ code'[i].op = "RET"
    BY <1>2, <2>1
  <2>6. ASSUME NEW at2, \A x \in 0..Pos : at2[x] = at[x], NEW i \in 1..Pos', i > Pos
        PROVE  Leads(at2, code', Waiting(open'), i)
    <3>1. at2[i - 1] = Body /\ code'[i].op = "RET" /\ "RET" \notin Jumps
      BY <1>2, <2>3, <2>5, <2>6 DEF Jumps
    <3> QED
      BY <3>1 DEF Leads
  <2>7. Pos <= Pos' /\ Pos' > Pos /\ Leaves(Holes(Inner))
    BY <1>2, <2>1, <2>2
  <2> QED
    BY <1>1, <2>1, <2>4, <2>6, <2>7, ClosedAnnotated
<1>4. CASE LeaveIf /\ Inner.kind = "then"
  <2>1. /\ Leaves({Inner.p}) /\ Pos' = Pos /\ code'[Inner.p + 1].a = Pos
        /\ UNCHANGED functions
    BY <1>4, ThenLeft DEF LeaveIf, decls
  <2>2. Holes(Inner) = {Inner.p}
    BY <1>4 DEF Holes
  <2>3. open # <<>> /\ at[Pos] = at[Inner.p]
    BY <1>4, <2>1, InnerLevel DEF Leaves, Entered
  <2>4. \A x \in Holes(Inner) : code'[x + 1].a \in 0..Pos /\ at[code'[x + 1].a] = at[Inner.p]
    BY <1>2, <2>1, <2>2, <2>3
  <2>5. Pos <= Pos' /\ Leaves(Holes(Inner)) /\ \A i \in 1..Pos' : ~(i > Pos)
    BY <1>2, <2>1, <2>2
  <2> QED
    BY <1>1, <1>4, <2>1, <2>4, <2>5, ClosedAnnotated
<1>5. CASE LeaveCatch \/ (LeaveIf /\ Inner.kind # "then")
  <2>1. /\ Leaves({Inner.p, Inner.q}) /\ Inner.kind \in {"else", "catch"} /\ Pos' = Pos
        /\ code'[Inner.q + 1].a = Pos /\ code'[Inner.p + 1].a \in {Inner.r, Pos}
        /\ UNCHANGED functions
    BY <1>5, ElseOrCatchLeft DEF LeaveIf, LeaveCatch, decls
  <2>2. Holes(Inner) = {Inner.p, Inner.q} /\ Inner.r \in Held(Inner)
    BY <2>1 DEF Holes, Held
  <2>3. open # <<>> /\ at[Pos] = at[Inner.p] /\ Inner.r \in 0..Pos /\ at[Inner.r] = at[Inner.p]
    BY <2>1, <2>2, InnerLevel DEF Leaves, Entered
  <2>4. \A x \in Holes(Inner) : code'[x + 1].a \in 0..Pos /\ at[code'[x + 1].a] = at[Inner.p]
    BY <1>2, <2>1, <2>2, <2>3
  <2>5. Pos <= Pos' /\ Leaves(Holes(Inner)) /\ \A i \in 1..Pos' : ~(i > Pos)
    BY <1>2, <2>1, <2>2
  <2> QED
    BY <1>1, <2>1, <2>4, <2>5, ClosedAnnotated
<1>6. CASE LeaveWhile \/ LeaveFor
  <2>1. /\ Leaves({Inner.q}) /\ Inner.kind \in {"while", "for_post"}
        /\ Pos' = Pos + 1 /\ code'[Inner.q + 1].a = Pos + 1
        /\ UNCHANGED functions
    BY <1>6, LoopLeft DEF LeaveWhile, LeaveFor, decls
  <2>2. PICK t : /\ t = (IF Inner.kind = "while" THEN Inner.p ELSE Inner.r)
                 /\ code'[Pos + 1] = Instr("JMP", t, 0)
    BY <1>6, LoopLeft
  <2>3. Holes(Inner) = {Inner.q} /\ t \in Held(Inner)
    BY <2>1, <2>2 DEF Holes, Held
  <2>4. open # <<>> /\ at[Pos] = at[Inner.p] /\ t \in 0..Pos /\ at[t] = at[Inner.p]
    BY <2>1, <2>3, InnerLevel DEF Leaves, Entered
  <2>5. \A x \in Holes(Inner) : code'[x + 1].a \in 0..Pos' /\ code'[x + 1].a > Pos
    BY <1>2, <2>1, <2>3
  <2>6. \A i \in 1..Pos' : i > Pos => i - 1 = Pos /\ code'[i].op = "JMP" /\ code'[i].a = t
    BY <1>2, <2>1, <2>2 DEF Instr
  <2>7. ASSUME NEW at2, \A x \in 0..Pos : at2[x] = at[x], NEW i \in 1..Pos', i > Pos
        PROVE  Leads(at2, code', Waiting(open'), i)
    <3>1. code'[i].op = "JMP" /\ at2[code'[i].a] = at2[i - 1]
      BY <1>2, <2>4, <2>6, <2>7
    <3> QED
      BY <3>1 DEF Leads
  <2>8. Pos <= Pos' /\ Pos' > Pos /\ Leaves(Holes(Inner))
    BY <1>2, <2>1, <2>3
  <2> QED
    BY <1>1, <2>1, <2>5, <2>7, <2>8, ClosedAnnotated
<1>7. CASE EndObject
  <2>1. /\ Straight /\ open # <<>> /\ Inner.kind = "object" /\ open' = Front(open)
        /\ Inner \in Statements /\ Placed(code, Inner) /\ UNCHANGED functions
    BY <1>7, ObjectLeft DEF EndObject, decls
  <2>2. Pos <= Pos' /\ KeepsBut({}) /\ \A i \in 1..Pos' : i > Pos => code'[i].op \in StraightOps
    BY <2>1 DEF Straight
  <2>3. Holes(Inner) = {} /\ at[Pos] = at[Inner.p]
    BY <2>1, InnerLevel DEF Holes, Entered
  <2>4. Leaves(Holes(Inner))
    BY <1>2, <2>1, <2>2, <2>3 DEF Leaves, KeepsBut
  <2>5. \A i \in 1..Pos' : i > Pos =>
          i \in 0..Pos' /\ (i - 1 = Pos \/ (i - 1 \in 0..Pos' /\ i - 1 > Pos))
    BY <1>2
  <2>6. ASSUME NEW at2, \A x \in 0..Pos : at2[x] = at[x],
               \A x \in 0..Pos' : x > Pos => at2[x] = at[Inner.p], NEW i \in 1..Pos', i > Pos
        PROVE  Leads(at2, code', Waiting(open'), i)
    <3>1. at2[i] = at[Inner.p]
      BY <2>5, <2>6
    <3>2. at2[i - 1] = at[Inner.p]
      BY <1>2, <2>3, <2>5, <2>6
    <3> QED
      BY <2>2, <2>6, <3>1, <3>2, StraightLeads
  <2> QED
    BY <1>1, <2>1, <2>2, <2>3, <2>4, <2>6, ClosedAnnotated
<1> QED
  BY <1>3, <1>4, <1>5, <1>6, <1>7 DEF Closes

----------------------------------------------------------------------------
(* The annotation is an invariant of the compilation.                      *)

LEMMA InitAnnotated ==
  ASSUME Init
  PROVE  Annotated
<1> DEFINE at == [x \in 0..0 |-> Ground]
<1>1. open = <<>> /\ Len(open) = 0 /\ Pos = 0 /\ expr.for = "nothing" /\ DOMAIN functions = {}
  BY ExprFields DEF Init, Pos, NoEntries
<1>2. at \in [0..0 -> Levels] /\ at[0] = Ground
  BY LevelsClosed
<1> HIDE DEF at
<1>3. Chained(at, open, Pos)
  BY <1>1, <1>2 DEF Chained, Around
<1>4. Annotates(at)
  BY <1>1, <1>3 DEF Annotates
<1> QED
  BY <1>4 DEF Annotated

LEMMA NextAnnotated ==
  ASSUME StructuredClass, Typed, Typed', FuncNesting, Annotated, [Next]_cvars
  PROVE  Annotated'
<1>1. PICK at : Annotates(at)
  BY DEF Annotated
<1>2. \/ Plain \/ UserCall \/ EndReturn \/ EmptyReturn \/ EndRequire \/ Finish
      \/ Opens \/ EnterTry \/ (\E f \in Funcs : EnterFunc(f))
      \/ GoesOn \/ (\E x \in Names : EnterCatch(x))
      \/ Closes \/ LeaveFunc \/ LeaveCatch
  BY Steps DEF Simple, Plain, ExprStep, Computes
<1> QED
  BY <1>1, <1>2, PlainAnnotated, CallAnnotated, ReturnAnnotated, RequireAnnotated, HaltAnnotated,
     OpeningsAnnotated, PartsAnnotated, ClosingsAnnotated

LEMMA ClassKept ==
  ASSUME [Next]_cvars
  PROVE  class' = class
<1>1. CASE ExprStep
  BY <1>1 DEF ExprStep, Number, LargeNumber, Literal, Symbol, IncDec, Binary, Prefix, UserCall,
     PrintCall, Operation, WithConstant, ArrayLiteral, ErrorExpr
<1>2. CASE SimpleStmt
  BY <1>2 DEF SimpleStmt, BeginExpressionStmt, EndExpressionStmt, BeginVarDecl, EndVarDecl,
     AssignConstant, BeginAssign, BeginObject, EndAssign, BeginMemberAssign, BeginField,
     EndField, EndObject, BeginReturn, EndReturn, EmptyReturn, BeginEmit, EndEmit,
     BeginRequire, EndRequire
<1>3. CASE Construct
  BY <1>3 DEF Construct, EnterFunc, LeaveFunc, BeginIf, EnterThen, EnterElse, LeaveIf,
     BeginWhile, EnterWhile, LeaveWhile, BeginFor, BeginForCondition, EnterFor, EnterForPost,
     LeaveFor, EnterTry, EnterCatch, LeaveCatch
<1>4. CASE Finish \/ CompilerPanics \/ UNCHANGED cvars
  BY <1>4 DEF Finish, CompilerPanics, cvars
<1> QED
  BY <1>1, <1>2, <1>3, <1>4 DEF Next

LEMMA NextStructured ==
  ASSUME StructuredClass, [Next]_cvars
  PROVE  StructuredClass'
BY ClassKept DEF StructuredClass

(***************************************************************************)
(* In structured programs every address of the compiled code has a level:  *)
(* no branch, call, return or fall-through leads from one try depth to     *)
(* another except through TRY and END_TRY, nor from a declared function to *)
(* the contract's own code (stmt.go:103 to :600, all patches).             *)
(***************************************************************************)
THEOREM AlwaysAnnotated ==
  ASSUME StructuredPrograms
  PROVE  Spec => []Annotated
<1>1. Init => StructuredClass /\ Annotated
  BY InitAnnotated DEF Init, StructuredClass
<1>2. /\ StructuredClass /\ Annotated /\ Typed /\ Typed' /\ FuncNesting /\ [Next]_cvars
      => (StructuredClass /\ Annotated)'
  BY NextStructured, NextAnnotated
<1>3. Spec => [](Typed /\ FuncNesting /\ Slots)
  BY AlwaysScoped
<1> QED
  BY <1>1, <1>2, <1>3, PTL DEF Spec

\* The compilation is over when its HALT is emitted: nothing is open any more.
Finished == stage = "compiled" => open = <<>>

LEMMA NextFinished == Finished /\ [Next]_cvars => Finished'
<1> SUFFICES ASSUME Finished, [Next]_cvars, stage' = "compiled" PROVE open' = <<>>
  BY DEF Finished
<1>1. CASE UNCHANGED cvars
  BY <1>1 DEF Finished, cvars
<1>2. CASE Finish
  BY <1>2 DEF Finish
<1> QED
  BY <1>1, <1>2, Stages

----------------------------------------------------------------------------
(* Where jumps lead. Of the jumps that have their targets, those that      *)
(* lead backwards close loops, and those of try statements lead to their   *)
(* handlers; the ones without a target belong each to one open statement,  *)
(* which has the shape its closing code counts on.                         *)

Distinct(o) == \A j, k \in 1..Len(o) : j # k => Holes(o[j]) \cap Holes(o[k]) = {}

\* What stands at the addresses a statement holds.
Shaped(c, e) ==
  /\ e.kind = "func" => c[e.p + 1].op = "JMP"
  /\ e.kind \in {"then", "else"} => c[e.p + 1].op = "JMP_IF"
  /\ e.kind \in {"try", "catch"} => c[e.p + 1].op = "TRY"
  /\ e.kind \in {"else", "catch"} => c[e.q + 1].op = "JMP" /\ e.r = e.q + 1 /\ e.p < e.q
  /\ e.kind = "catch" => e.p + 1 < e.q /\ c[e.q].op = "END_TRY"
  /\ e.kind \in {"while", "for", "for_post"} => c[e.q + 1].op = "JMP_IF"
  /\ e.kind \in {"while", "for"} => e.p <= e.q
  /\ e.kind = "for_post" => e.r <= e.q

\* The i-th instruction, a jump, closes a loop: its exit test leads just past it.
Loops(c, w, i) ==
  /\ c[i].op = "JMP"
  /\ \E j \in (c[i].a + 1)..(i - 1) : c[j].op = "JMP_IF" /\ c[j].a = i /\ (j - 1) \notin w

\* The i-th instruction, a TRY, leads to its handler.
Guards(c, w, i) ==
  LET h == c[i].a
  IN  /\ i < h - 1 /\ h <= Len(c) /\ c[h - 1].op = "END_TRY" /\ c[h].op = "JMP"
      /\ (h - 1) \in w \/ c[h].a >= h

Laid(c, w, i) ==
  c[i].op \in Jumps /\ (i - 1) \notin w =>
    /\ c[i].a >= i \/ Loops(c, w, i)
    /\ c[i].op = "TRY" => Guards(c, w, i)

LaidOut ==
  /\ Distinct(open)
  /\ \A k \in 1..Len(open) : Shaped(code, open[k])
  /\ \A i \in 1..Pos : Laid(code, Waiting(open), i)

\* The code grows, and the jumps at the addresses in S get targets behind them.
Forwards(S) ==
  /\ Pos \in Nat /\ Pos' \in Nat /\ Pos <= Pos' /\ KeepsBut(S)
  /\ \A i \in 1..Pos : code'[i].op = code[i].op
  /\ S \subseteq Waiting(open)
  /\ \A x \in S : x \in Nat /\ code'[x + 1].a >= x + 1
  /\ \A x \in 0..(Pos - 1) : x \in Waiting(open) <=> x \in Waiting(open') \/ x \in S

\* What was laid out before stays so.
LEMMA LaidKept ==
  ASSUME NEW S, Forwards(S), Typed, NEW i \in 1..Pos,
         Laid(code, Waiting(open), i), (i - 1) \notin Waiting(open)
  PROVE  Laid(code', Waiting(open'), i)
<1> SUFFICES ASSUME code'[i].op \in Jumps
             PROVE  /\ code'[i].a >= i \/ Loops(code', Waiting(open'), i)
                    /\ code'[i].op = "TRY" => Guards(code', Waiting(open'), i)
  BY DEF Laid
<1>1. /\ Pos \in Nat /\ Pos' \in Nat /\ Pos <= Pos' /\ Pos = Len(code) /\ Pos' = Len(code')
      /\ \A j \in 1..Pos : code[j].a \in Nat
  <2>1. \A j \in 1..Len(code) : code[j] \in Emitted
    BY ElementOfSeq DEF Typed, CodeOK
  <2> QED
    BY <2>1 DEF Forwards, Pos, Emitted
<1>2. i - 1 \in 0..(Pos - 1) /\ (i - 1) \notin S /\ code'[i] = code[i]
  BY <1>1 DEF Forwards, KeepsBut
<1>3. code[i].op \in Jumps /\ code[i].a \in Nat
  BY <1>1, <1>2
<1>4. ASSUME Loops(code, Waiting(open), i)
      PROVE  Loops(code', Waiting(open'), i)
  <2>1. PICK j \in (code[i].a + 1)..(i - 1) :
          code[j].op = "JMP_IF" /\ code[j].a = i /\ (j - 1) \notin Waiting(open)
    BY <1>4 DEF Loops
  <2>2. j \in 1..Pos /\ j - 1 \in 0..(Pos - 1)
    BY <1>1, <1>3
  <2>3. (j - 1) \notin S /\ (j - 1) \notin Waiting(open') /\ code'[j] = code[j]
    BY <2>1, <2>2 DEF Forwards, KeepsBut
  <2> QED
    BY <1>2, <1>4, <2>1, <2>3 DEF Loops
<1>5. ASSUME Guards(code, Waiting(open), i)
      PROVE  Guards(code', Waiting(open'), i)
  <2>1. PICK h : h = code[i].a
    OBVIOUS
  <2>2. /\ h \in Nat /\ i < h - 1 /\ h <= Pos /\ code[h - 1].op = "END_TRY" /\ code[h].op = "JMP"
        /\ (h - 1) \in Waiting(open) \/ code[h].a >= h
    BY <1>1, <1>3, <1>5, <2>1 DEF Guards
  <2>3. /\ h \in 1..Pos /\ h - 1 \in 1..Pos /\ h - 1 \in 0..(Pos - 1) /\ h <= Pos'
        /\ h - 1 + 1 = h /\ h \in 1..Pos'
    BY <1>1, <2>2
  <2>4. code'[h - 1].op = "END_TRY" /\ code'[h].op = "JMP"
    BY <2>2, <2>3 DEF Forwards
  <2>5. (h - 1) \in Waiting(open') \/ code'[h].a >= h
    <3>1. CASE (h - 1) \in S
      BY <2>3, <3>1 DEF Forwards
    <3>2. CASE (h - 1) \notin S
      BY <2>2, <2>3, <3>2 DEF Forwards, KeepsBut
    <3> QED
      BY <3>1, <3>2
  <2> QED
    BY <1>1, <1>2, <2>1, <2>2, <2>3, <2>4, <2>5 DEF Guards
<1> QED
  BY <1>2, <1>3, <1>4, <1>5 DEF Laid

\* An open statement keeps its shape.
LEMMA ShapeKept ==
  ASSUME NEW S, Forwards(S), Typed, NEW k \in 1..Len(open), Shaped(code, open[k])
  PROVE  Shaped(code', open[k])
<1> DEFINE e == open[k]
<1>1. /\ Pos \in Nat /\ \A i \in 1..Pos : code'[i].op = code[i].op
      /\ e \in Statements /\ e.p \in Nat /\ e.q \in Nat
  <2>1. e \in Statements
    BY ElementOfSeq DEF Typed, OpenOK
  <2> HIDE DEF e
  <2> QED
    BY <2>1 DEF Forwards, Statements
<1>2. \A x \in Holes(e) : x + 1 \in 1..Pos
  BY HeldPlaced
<1> HIDE DEF e
<1>3. /\ e.kind \in {"func", "then", "else", "try", "catch"} => e.p + 1 \in 1..Pos
      /\ e.kind \in {"else", "catch", "while", "for", "for_post"} => e.q + 1 \in 1..Pos
  BY <1>2 DEF Holes
<1>4. e.kind = "catch" /\ e.p + 1 < e.q => e.q \in 1..Pos
  BY <1>1, <1>3
<1>5. Shaped(code, e)
  BY DEF e
<1>6. Shaped(code', e)
  BY <1>1, <1>3, <1>4, <1>5 DEF Shaped
<1> QED
  BY <1>6 DEF e

LEMMA LaidExtended ==
  ASSUME Typed, LaidOut, NEW S, Forwards(S), Distinct(open'),
         \A k \in 1..Len(open') :
           \/ k \in 1..Len(open) /\ open'[k] = open[k]
           \/ Shaped(code', open'[k]),
         \A i \in 1..Pos' : i > Pos \/ (i - 1) \in S => Laid(code', Waiting(open'), i)
  PROVE  LaidOut'
<1>1. \A k \in 1..Len(open') : Shaped(code', open'[k])
  BY ShapeKept DEF LaidOut
<1>2. ASSUME NEW i \in 1..Pos', ~(i > Pos), (i - 1) \notin S
      PROVE  Laid(code', Waiting(open'), i)
  <2>1. i \in 1..Pos /\ i - 1 \in 0..(Pos - 1)
    BY <1>2 DEF Forwards
  <2>2. CASE (i - 1) \in Waiting(open)
    BY <1>2, <2>1, <2>2 DEF Forwards, Laid
  <2>3. CASE (i - 1) \notin Waiting(open)
    BY <2>1, <2>3, LaidKept DEF LaidOut
  <2> QED
    BY <2>2, <2>3
<1> QED
  BY <1>1, <1>2 DEF LaidOut

\* A jump that has no target yet, and one that leads on.
LEMMA LaidForward ==
  ASSUME NEW c, NEW w, NEW i, (i - 1) \in w \/ c[i].op \notin Jumps
                              \/ (c[i].a >= i /\ c[i].op # "TRY")
  PROVE  Laid(c, w, i)
BY DEF Laid

LEMMA WaitingBefore ==
  ASSUME Typed
  PROVE  Pos \in Nat /\ \A x \in Waiting(open) : x \in 0..(Pos - 1)
<1>1. Pos \in Nat
  BY HeldPlaced
<1>2. ASSUME NEW x \in Waiting(open) PROVE x \in 0..(Pos - 1)
  <2>1. PICK k \in 1..Len(open) : x \in Holes(open[k])
    BY <1>2 DEF Waiting
  <2>2. x \in 0..Pos /\ x + 1 \in 1..Pos
    BY <2>1, HeldPlaced
  <2> QED
    BY <1>1, <2>2
<1> QED
  BY <1>1, <1>2

----------------------------------------------------------------------------
(* The layout is kept by steps that leave the open statements alone, and   *)
(* by those that enter, go on with or leave one.                           *)

LEMMA LaidFlat ==
  ASSUME Typed, Typed', LaidOut, UNCHANGED open, Pos <= Pos', KeepsBut({}),
         \A i \in 1..Pos' : i > Pos =>
           code'[i].op \notin Jumps \/ (code'[i].op # "TRY" /\ code'[i].a >= i)
  PROVE  LaidOut'
<1>1. Pos \in Nat /\ Pos' \in Nat
  BY LenProperties DEF Typed, CodeOK, Pos
<1>2. Forwards({})
  BY <1>1 DEF Forwards, KeepsBut
<1>3. \A i \in 1..Pos' : i > Pos => Laid(code', Waiting(open'), i)
  BY LaidForward
<1>4. Distinct(open')
  BY DEF LaidOut
<1> QED
  BY <1>2, <1>3, <1>4, LaidExtended

LEMMA LaidPushed ==
  ASSUME Typed, Typed', LaidOut, NEW e \in Statements, open' = Append(open, e),
         Pos <= Pos', KeepsBut({}), \A x \in Holes(e) : x >= Pos, Shaped(code', e),
         \A i \in 1..Pos' : i > Pos => code'[i].op \notin Jumps \/ (i - 1) \in Holes(e)
  PROVE  LaidOut'
<1>1. /\ Pos \in Nat /\ Pos' \in Nat /\ \A x \in Waiting(open) : x \in 0..(Pos - 1)
  BY WaitingBefore, LenProperties DEF Typed, CodeOK, Pos
<1>2. /\ Len(open) \in Nat /\ Len(open') = Len(open) + 1
      /\ \A i \in 1..Len(open) : open'[i] = open[i]
      /\ open'[Len(open) + 1] = e
      /\ \A i \in 1..Len(open') : i \in 1..Len(open) \/ i = Len(open) + 1
  BY Pushed DEF Typed
<1>3. /\ Waiting(open) \subseteq Waiting(open') /\ Holes(e) \subseteq Waiting(open')
      /\ \A x \in Waiting(open') : x \in Waiting(open) \/ x \in Holes(e)
  <2>1. \A x \in Waiting(open') : x \in Waiting(open) \/ x \in Holes(e)
    BY <1>2 DEF Waiting
  <2> QED
    BY <2>1, WaitingPushed
<1>4. Forwards({})
  BY <1>1, <1>3 DEF Forwards, KeepsBut
<1>5. \A i \in 1..Pos' : i > Pos => Laid(code', Waiting(open'), i)
  BY <1>3, LaidForward
<1>6. Distinct(open')
  <2>1. \A k \in 1..Len(open) : Holes(open[k]) \cap Holes(e) = {}
    <3>1. \A k \in 1..Len(open) : Holes(open[k]) \subseteq Waiting(open)
      BY DEF Waiting
    <3> QED
      BY <1>1, <3>1
  <2> QED
    BY <1>2, <2>1 DEF LaidOut, Distinct
<1>7. \A k \in 1..Len(open') : \/ k \in 1..Len(open) /\ open'[k] = open[k]
                               \/ Shaped(code', open'[k])
  BY <1>2
<1> QED
  BY <1>4, <1>5, <1>6, <1>7, LaidExtended

LEMMA LaidChanged ==
  ASSUME Typed, Typed', LaidOut, NEW e, Continues(e), Holes(Inner) \subseteq Holes(e),
         Pos <= Pos', KeepsBut({}), \A x \in Holes(e) : x >= Pos \/ x \in Holes(Inner),
         Shaped(code', e),
         \A i \in 1..Pos' : i > Pos => code'[i].op \notin Jumps \/ (i - 1) \in Holes(e)
  PROVE  LaidOut'
<1>1. /\ Pos \in Nat /\ Pos' \in Nat /\ \A x \in Waiting(open) : x \in 0..(Pos - 1)
  BY WaitingBefore, LenProperties DEF Typed, CodeOK, Pos
<1>2. /\ Len(open) \in Nat \ {0} /\ Len(open') = Len(open)
      /\ \A i \in 1..(Len(open) - 1) : open'[i] = open[i]
      /\ open'[Len(open)] = e /\ Inner = open[Len(open)]
      /\ \A i \in 1..Len(open') : i \in 1..(Len(open) - 1) \/ i = Len(open)
  BY Changed, InnerIsPlaced DEF Typed, Continues
<1>3. \A i \in 1..(Len(open) - 1) : i \in 1..Len(open) /\ i # Len(open)
  BY <1>2
<1>4. /\ Waiting(open) \subseteq Waiting(open') /\ Holes(e) \subseteq Waiting(open')
      /\ \A x \in Waiting(open') : x \in Waiting(open) \/ x \in Holes(e)
  <2>1. \A x \in Waiting(open') : x \in Waiting(open) \/ x \in Holes(e)
    BY <1>2, <1>3 DEF Waiting
  <2> QED
    BY <2>1, WaitingChanged
<1>5. Len(open) \in 1..Len(open)
  BY <1>2
<1>6. Holes(Inner) \subseteq Waiting(open)
  BY <1>2, <1>5 DEF Waiting
<1>7. Forwards({})
  BY <1>1, <1>4, <1>6 DEF Forwards, KeepsBut
<1>8. \A i \in 1..Pos' : i > Pos => Laid(code', Waiting(open'), i)
  BY <1>4, LaidForward
<1>9. Distinct(open')
  <2>1. ASSUME NEW k \in 1..(Len(open) - 1) PROVE Holes(open[k]) \cap Holes(e) = {}
    <3>1. Holes(open[k]) \subseteq Waiting(open) /\ Holes(open[k]) \cap Holes(Inner) = {}
      BY <1>2, <1>3, <1>5 DEF Waiting, LaidOut, Distinct
    <3> QED
      BY <1>1, <3>1
  <2> QED
    BY <1>2, <1>3, <2>1 DEF LaidOut, Distinct
<1>10. \A k \in 1..Len(open') : \/ k \in 1..Len(open) /\ open'[k] = open[k]
                                \/ Shaped(code', open'[k])
  BY <1>2, <1>3
<1> QED
  BY <1>7, <1>8, <1>9, <1>10, LaidExtended

LEMMA LaidPopped ==
  ASSUME Typed, Typed', LaidOut, Leaves(Holes(Inner)), Pos <= Pos',
         \A x \in Holes(Inner) : code'[x + 1].a >= x + 1,
         \A x \in Holes(Inner) : Laid(code', Waiting(open'), x + 1),
         \A i \in 1..Pos' : i > Pos => Laid(code', Waiting(open'), i)
  PROVE  LaidOut'
<1>1. /\ Pos \in Nat /\ Pos' \in Nat /\ \A x \in Waiting(open) : x \in 0..(Pos - 1)
  BY WaitingBefore, LenProperties DEF Typed, CodeOK, Pos
<1>2. /\ Len(open) \in Nat \ {0} /\ Len(open') = Len(open) - 1
      /\ \A i \in 1..(Len(open) - 1) : open'[i] = open[i]
      /\ Inner = open[Len(open)]
  BY Popped DEF Typed, Leaves
<1>3. \A i \in 1..Len(open') : i \in 1..Len(open) /\ i # Len(open) /\ open'[i] = open[i]
  BY <1>2
<1>4. Len(open) \in 1..Len(open) /\ \A i \in 1..Len(open) : i = Len(open) \/ i \in 1..Len(open')
  BY <1>2
<1>5. /\ Holes(Inner) \subseteq Waiting(open) /\ Waiting(open') \subseteq Waiting(open)
      /\ \A x \in Waiting(open) : x \in Waiting(open') \/ x \in Holes(Inner)
  BY <1>2, <1>3, <1>4 DEF Waiting
<1>6. Forwards(Holes(Inner))
  BY <1>1, <1>5 DEF Forwards, Leaves
<1>7. Distinct(open')
  BY <1>3 DEF LaidOut, Distinct
<1>8. ASSUME NEW i \in 1..Pos', (i - 1) \in Holes(Inner)
      PROVE  Laid(code', Waiting(open'), i)
  <2>1. i - 1 + 1 = i
    BY <1>1
  <2> QED
    BY <1>8, <2>1
<1> QED
  BY <1>3, <1>6, <1>7, <1>8, LaidExtended

----------------------------------------------------------------------------
(* Every step keeps the layout.                                            *)

LEMMA SimpleLaid ==
  ASSUME Typed, Typed', LaidOut, Plain \/ UserCall \/ EndReturn \/ EmptyReturn \/ EndRequire \/ Finish
  PROVE  LaidOut'
<1>1. Pos \in Nat /\ Pos' \in Nat
  BY LenProperties DEF Typed, CodeOK, Pos
<1>2. CASE Plain
  <2>1. Straight /\ UNCHANGED open
    BY <1>2, PlainIsStraight DEF Typed
  <2>2. Pos <= Pos' /\ KeepsBut({}) /\ \A i \in 1..Pos' : i > Pos => code'[i].op \notin Jumps
    BY <2>1, StraightNames DEF Straight, Jumps
  <2> QED
    BY <2>1, <2>2, LaidFlat
<1>3. CASE UserCall
  <2>1. /\ UNCHANGED open /\ Pos' = Pos + 1 /\ KeepsBut({}) /\ code'[Pos + 1].op = "CALL"
    BY <1>3, CallEmitted
  <2>2. Pos <= Pos' /\ \A i \in 1..Pos' : i > Pos => code'[i].op \notin Jumps
    BY <1>1, <2>1 DEF Jumps
  <2> QED
    BY <2>1, <2>2, LaidFlat
<1>4. CASE EndReturn \/ EmptyReturn
  <2>1. /\ UNCHANGED open /\ Pos' = Pos + 1 /\ KeepsBut({})
        /\ code'[Pos + 1].op = IF isInFunction THEN "RET" ELSE "PRINT"
    BY <1>4, ReturnEmitted
  <2>2. Pos <= Pos' /\ \A i \in 1..Pos' : i > Pos => code'[i].op \notin Jumps
    BY <1>1, <2>1 DEF Jumps
  <2> QED
    BY <2>1, <2>2, LaidFlat
<1>5. CASE EndRequire
  <2>1. /\ Pos' = Pos + 4 /\ KeepsBut({})
        /\ code'[Pos + 1].op = "JMP_IF" /\ code'[Pos + 1].a = Pos + 2
        /\ code'[Pos + 2].op = "JMP" /\ code'[Pos + 2].a = Pos + 4
        /\ code'[Pos + 3].op \notin Jumps /\ code'[Pos + 4].op \notin Jumps
        /\ UNCHANGED open
    BY <1>5, RequireEmitted, StraightNames DEF Jumps
  <2>2. \A i \in 1..Pos' : i > Pos => i \in {Pos + 1, Pos + 2, Pos + 3, Pos + 4}
    BY <1>1, <2>1
  <2>3. Pos <= Pos' /\ Pos + 2 >= Pos + 1 /\ Pos + 4 >= Pos + 2
    BY <1>1, <2>1
  <2>4. \A i \in 1..Pos' : i > Pos =>
          code'[i].op \notin Jumps \/ (code'[i].op # "TRY" /\ code'[i].a >= i)
    BY <2>1, <2>2, <2>3
  <2> QED
    BY <2>1, <2>3, <2>4, LaidFlat
<1>6. CASE Finish
  <2>1. Pos' = Pos + 1 /\ KeepsBut({}) /\ code'[Pos + 1].op = "HALT" /\ UNCHANGED open
    BY <1>6, HaltEmitted
  <2>2. Pos <= Pos' /\ \A i \in 1..Pos' : i > Pos => code'[i].op \notin Jumps
    BY <1>1, <2>1 DEF Jumps
  <2> QED
    BY <2>1, <2>2, LaidFlat
<1> QED
  BY <1>2, <1>3, <1>4, <1>5, <1>6

\* A construct entered begins with a jump that waits for its target.
LEMMA EntryLaid ==
  ASSUME Typed, Typed', LaidOut, NEW e, NEW op, Enters(e, op), Holes(e) = {Pos}, Shaped(code', e)
  PROVE  LaidOut'
<1>1. /\ e \in Statements /\ open' = Append(open, e) /\ Pos \in Nat /\ Pos' = Pos + 1 /\ KeepsBut({})
  BY DEF Enters
<1>2. Pos <= Pos' /\ (\A x \in Holes(e) : x >= Pos) /\ \A i \in 1..Pos' : i > Pos => i - 1 = Pos
  BY <1>1
<1> QED
  BY <1>1, <1>2, LaidPushed

LEMMA OpeningsLaid ==
  ASSUME Typed, Typed', LaidOut, Opens \/ EnterTry \/ (\E f \in Funcs : EnterFunc(f))
  PROVE  LaidOut'
<1>1. CASE EnterThen
  <2>1. PICK e : Enters(e, "JMP_IF") /\ e.kind = "then" /\ e.p = Pos
    BY <1>1, ThenEntered
  <2>2. Holes(e) = {Pos} /\ Shaped(code', e)
    BY <2>1 DEF Holes, Shaped, Enters
  <2> QED
    BY <2>1, <2>2, EntryLaid
<1>2. CASE EnterWhile
  <2>1. expr.slot \in 0..Pos
    BY <1>2, WhileEntered
  <2>2. PICK e : Enters(e, "JMP_IF") /\ e.kind = "while" /\ e.p = expr.slot /\ e.q = Pos
    BY <1>2, WhileEntered
  <2>3. e.p <= e.q
    BY <2>1, <2>2
  <2>4. Holes(e) = {Pos} /\ Shaped(code', e)
    BY <2>2, <2>3 DEF Holes, Shaped, Enters
  <2> QED
    BY <2>2, <2>4, EntryLaid
<1>3. CASE EnterTry
  <2>1. PICK e : Enters(e, "TRY") /\ e.kind = "try" /\ e.p = Pos
    BY <1>3, TryEntered
  <2>2. Holes(e) = {Pos} /\ Shaped(code', e)
    BY <2>1 DEF Holes, Shaped, Enters
  <2> QED
    BY <2>1, <2>2, EntryLaid
<1>4. CASE \E f \in Funcs : EnterFunc(f)
  <2>1. PICK e : Enters(e, "JMP") /\ e.kind = "func" /\ e.p = Pos
    BY <1>4, FuncEntered
  <2>2. Holes(e) = {Pos} /\ Shaped(code', e)
    BY <2>1 DEF Holes, Shaped, Enters
  <2> QED
    BY <2>1, <2>2, EntryLaid
<1>5. CASE BeginFor \/ (\E x \in Names : BeginObject(x))
  <2>1. PICK e \in Statements : /\ Straight /\ open' = Append(open, e)
                                /\ e.kind \in {"for_init", "object"}
    BY <1>5, ForBegun, ObjectBegun
  <2>2. Pos <= Pos' /\ KeepsBut({}) /\ \A i \in 1..Pos' : i > Pos => code'[i].op \notin Jumps
    BY <2>1, StraightNames DEF Straight, Jumps
  <2>3. Holes(e) = {} /\ Shaped(code', e)
    BY <2>1 DEF Holes, Shaped
  <2> QED
    BY <2>1, <2>2, <2>3, LaidPushed
<1> QED
  BY <1>1, <1>2, <1>3, <1>4, <1>5 DEF Opens

LEMMA InnerShape ==
  ASSUME Typed, LaidOut, open # <<>>
  PROVE  /\ Pos \in Nat /\ Pos = Len(code) /\ Inner \in Statements /\ Shaped(code, Inner)
         /\ \A x \in Held(Inner) : x \in 0..Pos
         /\ \A x \in Holes(Inner) : x \in Nat /\ x + 1 \in 1..Pos
<1>1. Len(open) \in Nat \ {0} /\ Inner = open[Len(open)] /\ Inner \in Statements
  BY InnerIsPlaced DEF Typed
<1>2. Len(open) \in 1..Len(open)
  BY <1>1
<1>3. /\ Pos \in Nat /\ Shaped(code, Inner) /\ Held(Inner) \subseteq 0..Pos
      /\ \A x \in Holes(Inner) : x \in Held(Inner) /\ x + 1 \in 1..Pos
  BY <1>1, <1>2, HeldPlaced DEF LaidOut
<1> QED
  BY <1>1, <1>3 DEF Pos

LEMMA PartsLaid ==
  ASSUME Typed, Typed', LaidOut, GoesOn \/ (\E x \in Names : EnterCatch(x))
  PROVE  LaidOut'
<1>1. CASE EnterElse
  <2>1. Inner.kind = "then" /\ Pos' = Pos + 1 /\ KeepsBut({}) /\ code'[Pos + 1].op = "JMP"
    BY <1>1, ElseEntered
  <2>2. PICK e : Continues(e) /\ e.kind = "else" /\ e.p = Inner.p /\ e.q = Pos /\ e.r = Pos + 1
    BY <1>1, ElseEntered
  <2>3. Holes(e) = {Inner.p, Pos} /\ Holes(Inner) = {Inner.p}
    BY <2>1, <2>2 DEF Holes
  <2>4. /\ Pos \in Nat /\ Inner.p \in Nat /\ Inner.p + 1 \in 1..Pos
        /\ code[Inner.p + 1].op = "JMP_IF"
    BY <2>1, <2>2, <2>3, InnerShape DEF Continues, Shaped
  <2>5. Shaped(code', e)
    <3>1. code'[Inner.p + 1] = code[Inner.p + 1] /\ Inner.p < Pos
      BY <2>1, <2>4 DEF KeepsBut
    <3> QED
      BY <2>1, <2>2, <2>4, <3>1 DEF Shaped
  <2>6. Pos <= Pos' /\ \A i \in 1..Pos' : i > Pos => i - 1 = Pos
    BY <2>1, <2>4
  <2>7. \A x \in Holes(e) : x >= Pos \/ x \in Holes(Inner)
    BY <2>3, <2>4
  <2> QED
    BY <2>1, <2>2, <2>3, <2>5, <2>6, <2>7, LaidChanged
<1>2. CASE EnterFor
  <2>1. /\ expr.slot \in 0..Pos
        /\ Inner.kind = "for_init" /\ Pos' = Pos + 1 /\ KeepsBut({})
        /\ code'[Pos + 1].op = "JMP_IF"
    BY <1>2, ForEntered
  <2>2. PICK e : Continues(e) /\ e.kind = "for" /\ e.p = expr.slot /\ e.q = Pos
    BY <1>2, ForEntered
  <2>3. Holes(e) = {Pos} /\ Holes(Inner) = {} /\ Pos \in Nat
    BY <2>1, <2>2 DEF Holes, Continues
  <2>4. e.p <= e.q
    BY <2>1, <2>2
  <2>5. Shaped(code', e)
    BY <2>1, <2>2, <2>4 DEF Shaped
  <2>6. /\ Pos <= Pos' /\ \A i \in 1..Pos' : i > Pos => i - 1 = Pos
        /\ \A x \in Holes(e) : x >= Pos
    BY <2>1, <2>3
  <2> QED
    BY <2>1, <2>2, <2>3, <2>5, <2>6, LaidChanged
<1>3. CASE EnterForPost
  <2>1. Inner.kind = "for" /\ Straight /\ UNCHANGED code
    BY <1>3, ForPostEntered
  <2>2. PICK e : Continues(e) /\ e.kind = "for_post" /\ e.q = Inner.q /\ e.r = Inner.p
    BY <1>3, ForPostEntered
  <2>3. Holes(e) = {Inner.q} /\ Holes(Inner) = {Inner.q}
    BY <2>1, <2>2 DEF Holes
  <2>4. Pos \in Nat /\ Shaped(code, Inner)
    BY <2>2, InnerShape DEF Continues
  <2>5. Shaped(code', e)
    BY <2>1, <2>2, <2>4 DEF Shaped
  <2>6. Pos <= Pos' /\ KeepsBut({}) /\ \A i \in 1..Pos' : i > Pos => code'[i].op \notin Jumps
    BY <2>1, StraightNames DEF Straight, Jumps
  <2> QED
    BY <2>2, <2>3, <2>5, <2>6, LaidChanged
<1>4. CASE \E x \in Names : EnterCatch(x)
  <2>1. PICK x \in Names : EnterCatch(x)
    BY <1>4
  <2>2. /\ Inner.kind = "try" /\ Pos' = Pos + 2 /\ KeepsBut({})
        /\ code'[Pos + 1].op = "END_TRY" /\ code'[Pos + 2].op = "JMP"
    BY <2>1, CatchEntered
  <2>3. PICK e : Continues(e) /\ e.kind = "catch" /\ e.p = Inner.p /\ e.q = Pos + 1
                 /\ e.r = Pos + 2
    BY <2>1, CatchEntered
  <2>4. Holes(e) = {Inner.p, Pos + 1} /\ Holes(Inner) = {Inner.p}
    BY <2>2, <2>3 DEF Holes
  <2>5. /\ Pos \in Nat /\ Inner.p \in Nat /\ Inner.p + 1 \in 1..Pos
        /\ code[Inner.p + 1].op = "TRY"
    BY <2>2, <2>3, <2>4, InnerShape DEF Continues, Shaped
  <2>6. Shaped(code', e)
    <3>1. code'[Inner.p + 1] = code[Inner.p + 1]
      BY <2>2, <2>5 DEF KeepsBut
    <3>2. e.r = e.q + 1 /\ e.p < e.q /\ e.p + 1 < e.q /\ e.q + 1 = Pos + 2
      BY <2>3, <2>5
    <3> QED
      BY <2>2, <2>3, <2>5, <3>1, <3>2 DEF Shaped
  <2>7. Pos <= Pos' /\ \A i \in 1..Pos' : i > Pos =>
                         i = Pos + 1 \/ (i = Pos + 2 /\ i - 1 = Pos + 1)
    BY <2>2, <2>5
  <2>8. \A i \in 1..Pos' : i > Pos => code'[i].op \notin Jumps \/ (i - 1) \in Holes(e)
    BY <2>2, <2>4, <2>7 DEF Jumps
  <2>9. \A y \in Holes(e) : y >= Pos \/ y \in Holes(Inner)
    BY <2>4, <2>5
  <2> QED
    BY <2>2, <2>3, <2>4, <2>6, <2>7, <2>8, <2>9, LaidChanged
<1> QED
  BY <1>1, <1>2, <1>3, <1>4 DEF GoesOn

LEMMA ClosingsLaid ==
  ASSUME Typed, Typed', LaidOut, Closes \/ LeaveFunc \/ LeaveCatch
  PROVE  LaidOut'
<1>1. CASE LeaveFunc
  <2>1. /\ Leaves({Inner.p}) /\ Inner.kind = "func"
        /\ Pos' = Pos + 1 /\ code'[Pos + 1].op = "RET" /\ code'[Inner.p + 1].a = Pos + 1
    BY <1>1, FuncLeft
  <2>2. Holes(Inner) = {Inner.p}
    BY <2>1 DEF Holes
  <2>3. Pos \in Nat /\ Inner.p \in Nat /\ Inner.p + 1 \in 1..Pos /\ code[Inner.p + 1].op = "JMP"
    BY <2>1, <2>2, InnerShape DEF Leaves, Shaped
  <2>4. code'[Inner.p + 1].op = "JMP" /\ Pos + 1 >= Inner.p + 1
    BY <2>1, <2>3 DEF Leaves
  <2>5. \A x \in Holes(Inner) : Laid(code', Waiting(open'), x + 1)
    BY <2>1, <2>2, <2>4, LaidForward
  <2>6. \A i \in 1..Pos' : i > Pos => code'[i].op \notin Jumps
    BY <2>1, <2>3 DEF Jumps
  <2>7. \A i \in 1..Pos' : i > Pos => Laid(code', Waiting(open'), i)
    BY <2>6, LaidForward
  <2>8. Pos <= Pos'
    BY <2>1, <2>3
  <2> QED
    BY <2>1, <2>2, <2>4, <2>5, <2>7, <2>8, LaidPopped
<1>2. CASE LeaveIf /\ Inner.kind = "then"
  <2>1. Leaves({Inner.p}) /\ Pos' = Pos /\ code'[Inner.p + 1].a = Pos
    BY <1>2, ThenLeft
  <2>2. Holes(Inner) = {Inner.p}
    BY <1>2 DEF Holes
  <2>3. Pos \in Nat /\ Inner.p \in Nat /\ Inner.p + 1 \in 1..Pos /\ code[Inner.p + 1].op = "JMP_IF"
    BY <1>2, <2>1, <2>2, InnerShape DEF Leaves, Shaped
  <2>4. code'[Inner.p + 1].op = "JMP_IF" /\ Pos >= Inner.p + 1
    BY <2>1, <2>3 DEF Leaves
  <2>5. \A x \in Holes(Inner) : Laid(code', Waiting(open'), x + 1)
    BY <2>1, <2>2, <2>4, LaidForward
  <2>6. Pos <= Pos' /\ \A i \in 1..Pos' : ~(i > Pos)
    BY <2>1, <2>3
  <2> QED
    BY <2>1, <2>2, <2>4, <2>5, <2>6, LaidPopped
<1>3. CASE LeaveCatch \/ (LeaveIf /\ Inner.kind # "then")
  <2>1. /\ Leaves({Inner.p, Inner.q}) /\ Inner.kind \in {"else", "catch"} /\ Pos' = Pos
        /\ code'[Inner.q + 1].a = Pos
        /\ Inner.p # Inner.q => code'[Inner.p + 1].a = Inner.r
    BY <1>3, ElseOrCatchLeft
  <2>2. Holes(Inner) = {Inner.p, Inner.q}
    BY <2>1 DEF Holes
  <2>3. PICK p \in Nat, q \in Nat : p = Inner.p /\ q = Inner.q
    BY <2>1, <2>2, InnerShape DEF Leaves
  <2>4. /\ Pos \in Nat /\ p + 1 \in 1..Pos /\ q + 1 \in 1..Pos /\ p < q /\ Inner.r = q + 1
        /\ code[q + 1].op = "JMP"
        /\ Inner.kind = "else" => code[p + 1].op = "JMP_IF"
        /\ Inner.kind = "catch" => code[p + 1].op = "TRY" /\ code[q].op = "END_TRY" /\ p + 1 < q
    BY <2>1, <2>2, <2>3, InnerShape DEF Leaves, Shaped
  <2>5. /\ \A i \in 1..Pos : code'[i].op = code[i].op
        /\ code'[q + 1].a = Pos /\ code'[p + 1].a = q + 1
    BY <2>1, <2>3, <2>4 DEF Leaves
  <2>6. \A x \in Holes(Inner) : code'[x + 1].a >= x + 1
    BY <2>2, <2>3, <2>4, <2>5
  <2>7. Laid(code', Waiting(open'), q + 1)
    BY <2>4, <2>5, LaidForward
  <2>8. Laid(code', Waiting(open'), p + 1)
    <3>1. CASE Inner.kind = "else"
      BY <2>4, <2>5, <3>1, LaidForward
    <3>2. CASE Inner.kind = "catch"
      <4>1. /\ q \in 1..Pos /\ q + 1 - 1 = q /\ p + 1 < q + 1 - 1 /\ q + 1 <= Pos
            /\ Pos = Len(code') /\ code'[q].op = "END_TRY" /\ code'[q + 1].op = "JMP"
        BY <2>1, <2>4, <2>5, <3>2 DEF Pos
      <4>2. Guards(code', Waiting(open'), p + 1)
        BY <2>5, <4>1 DEF Guards
      <4>3. code'[p + 1].a >= p + 1
        BY <2>4, <2>5
      <4> QED
        BY <4>2, <4>3 DEF Laid
    <3> QED
      BY <2>1, <3>1, <3>2
  <2>9. \A x \in Holes(Inner) : Laid(code', Waiting(open'), x + 1)
    BY <2>2, <2>3, <2>7, <2>8
  <2>10. Pos <= Pos' /\ \A i \in 1..Pos' : ~(i > Pos)
    BY <2>1, <2>4
  <2> QED
    BY <2>1, <2>2, <2>6, <2>9, <2>10, LaidPopped
<1>4. CASE LeaveWhile \/ LeaveFor
  <2>1. /\ Leaves({Inner.q}) /\ Inner.kind \in {"while", "for_post"}
        /\ Pos' = Pos + 1 /\ code'[Inner.q + 1].a = Pos + 1
    BY <1>4, LoopLeft
  <2>2. PICK t : /\ t = (IF Inner.kind = "while" THEN Inner.p ELSE Inner.r)
                 /\ code'[Pos + 1] = Instr("JMP", t, 0)
    BY <1>4, LoopLeft
  <2>3. Holes(Inner) = {Inner.q} /\ t \in Held(Inner)
    BY <2>1, <2>2 DEF Holes, Held
  <2>4. PICK q \in Nat : q = Inner.q
    BY <2>1, <2>3, InnerShape DEF Leaves
  <2>5. /\ Pos \in Nat /\ q + 1 \in 1..Pos /\ code[q + 1].op = "JMP_IF" /\ t \in 0..Pos /\ t <= q
    BY <2>1, <2>2, <2>3, <2>4, InnerShape DEF Leaves, Shaped
  <2>6. code'[q + 1].op = "JMP_IF" /\ code'[q + 1].a = Pos + 1 /\ code'[q + 1].a >= q + 1
    BY <2>1, <2>4, <2>5 DEF Leaves
  <2>7. \A x \in Holes(Inner) : Laid(code', Waiting(open'), x + 1) /\ code'[x + 1].a >= x + 1
    BY <2>3, <2>4, <2>6, LaidForward
  <2>8. q \notin Waiting(open')
    <3>1. /\ Len(open) \in Nat \ {0} /\ Len(open') = Len(open) - 1
          /\ \A i \in 1..(Len(open) - 1) : open'[i] = open[i]
          /\ Inner = open[Len(open)]
      BY <2>1, Popped DEF Typed, Leaves
    <3>2. Len(open) \in 1..Len(open) /\ \A i \in 1..Len(open') : i \in 1..Len(open)
            /\ i # Len(open) /\ open'[i] = open[i]
      BY <3>1
    <3>3. \A i \in 1..Len(open') : Holes(open'[i]) \cap Holes(Inner) = {}
      BY <3>1, <3>2 DEF LaidOut, Distinct
    <3> QED
      BY <2>3, <2>4, <3>3 DEF Waiting
  <2>9. Laid(code', Waiting(open'), Pos + 1)
    <3>1. code'[Pos + 1].op = "JMP" /\ code'[Pos + 1].a = t
      BY <2>2 DEF Instr
    <3>2. PICK c, w, n, j : c = code' /\ w = Waiting(open') /\ n = Pos + 1 /\ j = q + 1
      OBVIOUS
    <3>3. c[n].op = "JMP" /\ c[n].a = t /\ c[j].op = "JMP_IF" /\ c[j].a = n
      <4>1. c[n].op = "JMP" /\ c[n].a = t
        BY ONLY <3>1, <3>2
      <4>2. c[j].op = "JMP_IF"
        BY ONLY <2>6, <3>2
      <4>3. c[j].a = n
        BY ONLY <2>6, <3>2
      <4> QED
        BY ONLY <4>1, <4>2, <4>3
    <3>4. j \in (t + 1)..(n - 1) /\ j - 1 = q
      BY ONLY <2>5, <3>2
    <3>5. (j - 1) \notin w
      BY ONLY <2>8, <3>2, <3>4
    <3>6. Loops(c, w, n)
      BY ONLY <3>3, <3>4, <3>5 DEF Loops
    <3>7. Loops(code', Waiting(open'), Pos + 1)
      BY ONLY <3>2, <3>6
    <3> QED
      BY <3>1, <3>7 DEF Laid
  <2>10. Pos <= Pos' /\ \A i \in 1..Pos' : i > Pos => i = Pos + 1
    BY <2>1, <2>5
  <2> QED
    BY <2>1, <2>3, <2>4, <2>7, <2>9, <2>10, LaidPopped
<1>5. CASE EndObject
  <2>1. /\ Straight /\ open # <<>> /\ Inner.kind = "object" /\ open' = Front(open)
        /\ Inner \in Statements /\ Placed(code, Inner)
    BY <1>5, ObjectLeft
  <2>2. /\ Pos \in Nat /\ Pos' \in Nat
    BY LenProperties DEF Typed, CodeOK, Pos
  <2>3. Pos <= Pos' /\ KeepsBut({}) /\ \A i \in 1..Pos' : i > Pos => code'[i].op \notin Jumps
    BY <2>1, StraightNames DEF Straight, Jumps
  <2>4. Holes(Inner) = {}
    BY <2>1 DEF Holes
  <2>5. Leaves(Holes(Inner))
    BY <2>1, <2>2, <2>3, <2>4 DEF Leaves, KeepsBut
  <2>6. \A i \in 1..Pos' : i > Pos => Laid(code', Waiting(open'), i)
    BY <2>3, LaidForward
  <2> QED
    BY <2>3, <2>4, <2>5, <2>6, LaidPopped
<1> QED
  BY <1>1, <1>2, <1>3, <1>4, <1>5 DEF Closes

LEMMA InitLaid ==
  ASSUME Init
  PROVE  LaidOut
<1>1. open = <<>> /\ Len(open) = 0 /\ Pos = 0
  BY DEF Init, Pos
<1> QED
  BY <1>1 DEF LaidOut, Distinct

LEMMA NextLaid ==
  ASSUME Typed, Typed', LaidOut, [Next]_cvars
  PROVE  LaidOut'
<1>1. \/ Plain \/ UserCall \/ EndReturn \/ EmptyReturn \/ EndRequire \/ Finish
      \/ Opens \/ EnterTry \/ (\E f \in Funcs : EnterFunc(f))
      \/ GoesOn \/ (\E x \in Names : EnterCatch(x))
      \/ Closes \/ LeaveFunc \/ LeaveCatch
  BY Steps DEF Simple, Plain, ExprStep, Computes
<1> QED
  BY <1>1, SimpleLaid, OpeningsLaid, PartsLaid, ClosingsLaid

LEMMA AlwaysLaid == Spec => [](Typed /\ LaidOut /\ Finished)
<1>1. Init => LaidOut /\ Finished
  BY InitLaid DEF Init, Finished
<1>2. /\ LaidOut /\ Finished /\ Typed /\ Typed' /\ [Next]_cvars => (LaidOut /\ Finished)'
  BY NextLaid, NextFinished
<1>3. Spec => [](Typed /\ FuncNesting /\ Slots)
  BY AlwaysScoped
<1> QED
  BY <1>1, <1>2, <1>3, PTL DEF Spec

\* When the compilation is over, every jump has its target.
LEMMA NothingWaits ==
  ASSUME Typed, Finished, stage = "compiled"
  PROVE  Waiting(open) = {} /\ Pos \in Nat /\ DOMAIN code = 1..Pos /\ Len(open) = 0
<1>1. open = <<>> /\ Len(open) = 0
  BY DEF Finished
<1>2. DOMAIN code = 1..Len(code) /\ Len(code) \in Nat
  BY LenProperties DEF Typed, CodeOK
<1> QED
  BY <1>1, <1>2 DEF Waiting, Pos

(***************************************************************************)
(* Whatever is nested in whatever order, only loops branch backwards, each *)
(* with an exit test that leads past it, so no hole is left without its    *)
(* target (stmt.go:226 to :258, and every patchJump).                      *)
(***************************************************************************)
THEOREM OnlyLoopsGoBack == Spec => []BackwardJumpsAreLoops
<1>1. Typed /\ LaidOut /\ Finished => BackwardJumpsAreLoops
  <2> SUFFICES ASSUME Typed, LaidOut, Finished, stage = "compiled", NEW i \in DOMAIN code,
                      code[i].op \in Jumps, code[i].a < i
               PROVE  /\ code[i].op = "JMP"
                      /\ \E j \in (code[i].a + 1)..(i - 1) : code[j].op = "JMP_IF" /\ code[j].a = i
    BY DEF BackwardJumpsAreLoops, Jumps
  <2>1. Waiting(open) = {} /\ i \in 1..Pos /\ Pos \in Nat /\ Pos = Len(code)
    BY NothingWaits DEF Pos
  <2>2. code[i].a \in Nat
    <3>1. code[i] \in Emitted
      BY <2>1, ElementOfSeq DEF Typed, CodeOK
    <3> QED
      BY <3>1 DEF Emitted
  <2>3. Loops(code, Waiting(open), i)
    BY <2>1, <2>2 DEF LaidOut, Laid
  <2> QED
    BY <2>3 DEF Loops
<1> QED
  BY <1>1, AlwaysLaid, PTL

(***************************************************************************)
(* Whatever a try block and its handler contain, the handler begins after  *)
(* the END_TRY of its block and the jump over it (stmt.go:573 to :600).    *)
(***************************************************************************)
THEOREM HandlersFollow == Spec => []HandlersFollowTheirTry
<1>1. Typed /\ LaidOut /\ Finished => HandlersFollowTheirTry
  <2> SUFFICES ASSUME Typed, LaidOut, Finished, stage = "compiled", NEW i \in DOMAIN code,
                      code[i].op = "TRY", NEW h, h = code[i].a
               PROVE  /\ i < h - 1 /\ code[h - 1].op = "END_TRY"
                      /\ code[h].op = "JMP" /\ code[h].a >= h
    BY DEF HandlersFollowTheirTry
  <2>1. Waiting(open) = {} /\ i \in 1..Pos
    BY NothingWaits
  <2>2. Guards(code, Waiting(open), i)
    BY <2>1 DEF LaidOut, Laid, Jumps
  <2> QED
    BY <2>1, <2>2 DEF Guards
<1> QED
  BY <1>1, AlwaysLaid, PTL

----------------------------------------------------------------------------
(* Function bodies. The open ones lie one in the other: what the functions *)
(* around hold stands before a body begins, what the statements inside     *)
(* hold stands in it, and so do both ends of the jumps inside. A function  *)
(* that has been left keeps a body no jump leads into or out of.           *)

\* A jump that has its target.
Bound(c, w, i) == c[i].op \in Jumps /\ (i - 1) \notin w

Aimed(x) == expr.for \in {"while", "for"} /\ x = expr.slot

Apart(k) ==
  LET p == open[k].p
  IN  /\ \A j \in 1..(k - 1) : \A x \in Held(open[j]) : x <= p
      /\ \A j \in (k + 1)..Len(open) : \A x \in Held(open[j]) : x > p
      /\ \A x : Aimed(x) => x > p
      /\ \A i \in 1..Pos : Bound(code, Waiting(open), i) => (i - 1 > p <=> code[i].a > p)

ClosedTo(e, end) ==
  LET B == e..(end - 1)
  IN  /\ e < end /\ end <= Pos /\ Bound(code, Waiting(open), e)
      /\ code[e].op = "JMP" /\ code[end].op = "RET"
      /\ \A i \in 1..Pos : i # e /\ Bound(code, Waiting(open), i) => (i - 1 \in B <=> code[i].a \in B)
      /\ \A k \in 1..Len(open) : \A x \in Held(open[k]) : x \notin B
      /\ \A x : Aimed(x) => x \notin B

Left(e) == ClosedTo(e, code[e].a)
OpenAt(k, e) == open[k].kind = "func" /\ open[k].p = e - 1

Bodies ==
  /\ \A k \in 1..Len(open) : open[k].kind = "func" => Apart(k)
  /\ \A e \in DOMAIN functionName :
       /\ e \in 1..Pos
       /\ Left(e) \/ \E k \in 1..Len(open) : OpenAt(k, e)

\* Addresses in the innermost body, and in no body that has been left.
Near(x) ==
  /\ x \in Nat
  /\ x >= Pos \/ Aimed(x) \/ (open # <<>> /\ Inner.kind # "func" /\ x \in Held(Inner))

\* A step that keeps the code there is, and has all that it adds at addresses in S.
Adds(S) ==
  /\ Pos \in Nat /\ Pos' \in Nat /\ Pos <= Pos'
  /\ \A i \in 1..Pos :
       /\ code'[i].op = code[i].op
       /\ Bound(code, Waiting(open), i) => code'[i] = code[i] /\ (i - 1) \notin Waiting(open')
  /\ \A i \in 1..Pos' : Bound(code', Waiting(open'), i) =>
       \/ i \in 1..Pos /\ Bound(code, Waiting(open), i)
       \/ (i - 1) \in S /\ code'[i].a \in S
  /\ \A j \in 1..Len(open') :
       \/ j \in 1..Len(open) /\ open'[j] = open[j]
       \/ j = Len(open') /\ Held(open'[j]) \subseteq S
  /\ \A x : Aimed(x)' => x \in S

\* One that enters and leaves no function adds what is in the innermost body.
Moves ==
  /\ Adds({x \in Nat : Near(x)})
  /\ UNCHANGED functionName
  /\ \A k \in 1..Len(open') :
       open'[k].kind = "func" => k \in 1..Len(open) /\ open'[k] = open[k]
  /\ \A k \in 1..Len(open) :
       open[k].kind = "func" => k \in 1..Len(open') /\ open'[k] = open[k]

\* A body that has been left stays as it is, and one that is open stays open until
\* its function is left.
BodiesStay ==
  /\ \A e \in DOMAIN functionName : Left(e) => Left(e)' /\ code'[e] = code[e]
  /\ \A k \in 1..Len(open) : open[k].kind = "func" =>
       \/ k \in 1..Len(open') /\ open'[k] = open[k]
       \/ /\ LeaveFunc /\ k = Len(open)
          /\ \A e : e = open[k].p + 1 => Left(e)' /\ code'[e].a = Pos'

LEMMA CodeNumbers ==
  ASSUME Typed
  PROVE  /\ Pos \in Nat /\ Pos = Len(code) /\ Len(open) \in Nat
         /\ \A i \in 1..Pos : code[i].a \in Nat /\ (code[i].op \in Jumps => code[i].a <= Pos)
<1>1. Pos \in Nat /\ Pos = Len(code) /\ Len(open) \in Nat
  BY LenProperties DEF Typed, CodeOK, OpenOK, Pos
<1>2. \A i \in 1..Pos : code[i] \in Emitted /\ InRange(code[i], Pos, Len(pool))
  BY <1>1, ElementOfSeq DEF Typed, CodeOK
<1>3. Jumps \subseteq Branches
  BY DEF Jumps, Branches
<1> QED
  BY <1>1, <1>2, <1>3 DEF Emitted, InRange

LEMMA NextNumbers ==
  ASSUME Typed'
  PROVE  Pos' \in Nat /\ Pos' = Len(code') /\ \A i \in 1..Pos' : code'[i].a \in Nat
<1>1. Pos' \in Nat /\ Pos' = Len(code')
  BY LenProperties DEF Typed, CodeOK, Pos
<1>2. \A i \in 1..Pos' : code'[i] \in Emitted
  BY <1>1, ElementOfSeq DEF Typed, CodeOK
<1> QED
  BY <1>1, <1>2 DEF Emitted

LEMMA NearIsApart ==
  ASSUME Typed, NEW x, Near(x)
  PROVE  /\ \A k \in 1..Len(open) : open[k].kind = "func" /\ Apart(k) => x > open[k].p
         /\ \A e \in 1..Pos : \A end \in Nat : ClosedTo(e, end) => x \notin e..(end - 1)
<1>1. Pos \in Nat /\ Len(open) \in Nat /\ x \in Nat
  BY CodeNumbers DEF Near
<1>2. ASSUME NEW k \in 1..Len(open), open[k].kind = "func", Apart(k)
      PROVE  x > open[k].p
  <2>1. CASE x >= Pos
    <3>1. open[k].p \in Holes(open[k])
      BY <1>2 DEF Holes
    <3>2. open[k].p + 1 \in 1..Pos /\ open[k].p \in 0..Pos
      BY <3>1, HeldPlaced
    <3> QED
      BY <1>1, <2>1, <3>2
  <2>2. CASE Aimed(x)
    BY <1>2, <2>2 DEF Apart
  <2>3. CASE open # <<>> /\ Inner.kind # "func" /\ x \in Held(Inner)
    <3>1. Inner = open[Len(open)]
      BY <2>3, InnerIsPlaced DEF Typed
    <3>2. Len(open) \in (k + 1)..Len(open)
      BY <1>1, <1>2, <2>3, <3>1
    <3> QED
      BY <1>2, <2>3, <3>1, <3>2 DEF Apart
  <2> QED
    BY <2>1, <2>2, <2>3 DEF Near
<1>3. ASSUME NEW e \in 1..Pos, NEW end \in Nat, ClosedTo(e, end)
      PROVE  x \notin e..(end - 1)
  <2>1. CASE x >= Pos
    BY <1>1, <1>3, <2>1 DEF ClosedTo
  <2>2. CASE Aimed(x)
    BY <1>3, <2>2 DEF ClosedTo
  <2>3. CASE open # <<>> /\ Inner.kind # "func" /\ x \in Held(Inner)
    <3>1. Inner = open[Len(open)] /\ Len(open) \in 1..Len(open)
      BY <1>1, <2>3, InnerIsPlaced DEF Typed
    <3> QED
      BY <1>3, <2>3, <3>1 DEF ClosedTo
  <2> QED
    BY <2>1, <2>2, <2>3 DEF Near
<1> QED
  BY <1>2, <1>3

\* Bodies left and bodies open stay so when nothing is added on the wrong side of
\* their ends.
LEMMA ApartKept ==
  ASSUME Typed, Typed', NEW S, Adds(S), NEW k \in 1..Len(open), k \in 1..Len(open'),
         open'[k] = open[k], Apart(k), \A x \in S : x > open[k].p
  PROVE  Apart(k)'
<1>1. PICK p : p = open[k].p
  OBVIOUS
<1>2. Pos \in Nat /\ Pos' \in Nat /\ Len(open) \in Nat /\ Len(open') \in Nat
  BY CodeNumbers, NextNumbers, LenProperties DEF Typed, OpenOK
<1>3. ASSUME NEW j \in 1..(k - 1), NEW x \in Held(open'[j]) PROVE x <= p
  <2>1. j \in 1..Len(open') /\ j # Len(open')
    BY <1>2
  <2>2. open'[j] = open[j]
    BY <2>1 DEF Adds
  <2> QED
    BY <1>1, <1>3, <2>2 DEF Apart
<1>4. ASSUME NEW j \in (k + 1)..Len(open'), NEW x \in Held(open'[j]) PROVE x > p
  <2>1. j \in 1..Len(open')
    BY <1>2
  <2>2. CASE j \in 1..Len(open) /\ open'[j] = open[j]
    <3>1. j \in (k + 1)..Len(open)
      BY <1>2, <2>2
    <3> QED
      BY <1>1, <1>4, <2>2, <3>1 DEF Apart
  <2>3. CASE Held(open'[j]) \subseteq S
    BY <1>1, <1>4, <2>3
  <2> QED
    BY <2>1, <2>2, <2>3 DEF Adds
<1>5. \A x : Aimed(x)' => x > p
  BY <1>1 DEF Adds
<1>6. ASSUME NEW i \in 1..Pos', Bound(code', Waiting(open'), i) PROVE i - 1 > p <=> code'[i].a > p
  <2>1. CASE i \in 1..Pos /\ Bound(code, Waiting(open), i)
    <3>1. code'[i] = code[i]
      BY <2>1 DEF Adds
    <3> QED
      BY <1>1, <2>1, <3>1 DEF Apart
  <2>2. CASE (i - 1) \in S /\ code'[i].a \in S
    BY <1>1, <2>2
  <2> QED
    BY <1>6, <2>1, <2>2 DEF Adds
<1> QED
  BY <1>1, <1>3, <1>4, <1>5, <1>6 DEF Apart

LEMMA ClosedKept ==
  ASSUME Typed, Typed', NEW S, Adds(S), NEW e \in 1..Pos, Left(e),
         \A x \in S : x \notin e..(code[e].a - 1)
  PROVE  Left(e)' /\ code'[e] = code[e]
<1>1. PICK end \in Nat : end = code[e].a /\ ClosedTo(e, end)
  BY CodeNumbers DEF Left
<1>2. /\ e < end /\ end <= Pos /\ Bound(code, Waiting(open), e)
      /\ code[e].op = "JMP" /\ code[end].op = "RET"
  BY <1>1 DEF ClosedTo
<1>3. Pos \in Nat /\ Pos' \in Nat /\ Pos <= Pos' /\ end \in 1..Pos
  BY <1>2 DEF Adds
<1>4. /\ code'[e] = code[e] /\ (e - 1) \notin Waiting(open') /\ code'[end].op = "RET"
      /\ end <= Pos'
  BY <1>2, <1>3 DEF Adds
<1>5. \A x \in S : x \notin e..(end - 1)
  BY <1>1
<1>6. ASSUME NEW i \in 1..Pos', i # e, Bound(code', Waiting(open'), i)
      PROVE  i - 1 \in e..(end - 1) <=> code'[i].a \in e..(end - 1)
  <2>1. CASE i \in 1..Pos /\ Bound(code, Waiting(open), i)
    <3>1. code'[i] = code[i]
      BY <2>1 DEF Adds
    <3> QED
      BY <1>1, <1>6, <2>1, <3>1 DEF ClosedTo
  <2>2. CASE (i - 1) \in S /\ code'[i].a \in S
    BY <1>5, <2>2
  <2> QED
    BY <1>6, <2>1, <2>2 DEF Adds
<1>7. ASSUME NEW k \in 1..Len(open'), NEW x \in Held(open'[k]) PROVE x \notin e..(end - 1)
  <2>1. CASE k \in 1..Len(open) /\ open'[k] = open[k]
    BY <1>1, <1>7, <2>1 DEF ClosedTo
  <2>2. CASE Held(open'[k]) \subseteq S
    BY <1>5, <1>7, <2>2
  <2> QED
    BY <2>1, <2>2 DEF Adds
<1>8. \A x : Aimed(x)' => x \notin e..(end - 1)
  BY <1>5 DEF Adds
<1>9. Bound(code', Waiting(open'), e) /\ code'[e].op = "JMP" /\ code'[e].a = end
  BY <1>1, <1>2, <1>4 DEF Bound
<1>10. ClosedTo(e, end)'
  BY <1>2, <1>4, <1>6, <1>7, <1>8, <1>9 DEF ClosedTo
<1> QED
  BY <1>4, <1>9, <1>10 DEF Left

LEMMA MovesInBodies ==
  ASSUME Typed, Typed', Bodies, Moves
  PROVE  Bodies' /\ BodiesStay
<1> DEFINE S == {x \in Nat : Near(x)}
<1>1. Adds(S)
  BY DEF Moves
<1>2. ASSUME NEW k \in 1..Len(open'), open'[k].kind = "func" PROVE Apart(k)'
  <2>1. k \in 1..Len(open) /\ open'[k] = open[k] /\ open[k].kind = "func" /\ Apart(k)
    BY <1>2 DEF Moves, Bodies
  <2>2. \A x \in S : x > open[k].p
    BY <2>1, NearIsApart
  <2> HIDE DEF S
  <2> QED
    BY <1>1, <2>1, <2>2, ApartKept
<1>3. ASSUME NEW e \in DOMAIN functionName, Left(e)
      PROVE  Left(e)' /\ code'[e] = code[e]
  <2>1. e \in 1..Pos
    BY DEF Bodies
  <2>2. \A x \in S : x \notin e..(code[e].a - 1)
    BY <1>3, <2>1, NearIsApart, CodeNumbers DEF Left
  <2> HIDE DEF S
  <2> QED
    BY <1>1, <1>3, <2>1, <2>2, ClosedKept
<1>4. \A k \in 1..Len(open) : open[k].kind = "func" => k \in 1..Len(open') /\ open'[k] = open[k]
  BY DEF Moves
<1>5. ASSUME NEW e \in DOMAIN functionName'
      PROVE  /\ e \in 1..Pos'
             /\ Left(e)' \/ \E k \in 1..Len(open') : OpenAt(k, e)'
  <2>1. e \in DOMAIN functionName /\ e \in 1..Pos /\ Pos \in Nat /\ Pos' \in Nat /\ Pos <= Pos'
    BY <1>5 DEF Moves, Adds, Bodies
  <2>2. e \in 1..Pos'
    BY <2>1
  <2>3. CASE Left(e)
    BY <1>3, <2>1, <2>2, <2>3
  <2>4. CASE \E k \in 1..Len(open) : OpenAt(k, e)
    <3>1. PICK k \in 1..Len(open) : OpenAt(k, e)
      BY <2>4
    <3>2. k \in 1..Len(open') /\ OpenAt(k, e)'
      BY <3>1 DEF Moves, OpenAt
    <3> QED
      BY <2>2, <3>2
  <2> QED
    BY <2>1, <2>3, <2>4 DEF Bodies
<1> QED
  BY <1>2, <1>3, <1>4, <1>5 DEF Bodies, BodiesStay

----------------------------------------------------------------------------
(* Steps that enter and leave no function, one lemma for each way in which *)
(* the open statements change.                                             *)

LEMMA AimsNear ==
  ASSUME Typed, Typed', \/ expr'.for = expr.for /\ expr'.slot = expr.slot
                        \/ expr'.for \notin {"while", "for"}
                        \/ expr'.slot = Pos
  PROVE  \A x : Aimed(x)' => Near(x)
<1>1. Pos \in Nat /\ expr.slot \in Nat /\ expr'.slot \in Nat
  BY CodeNumbers DEF Typed, ExprOK, Exprs
<1> QED
  BY <1>1 DEF Aimed, Near

LEMMA BoundKept ==
  ASSUME Pos \in Nat, NEW S, KeepsBut(S), \A i \in 1..Pos : code'[i].op = code[i].op,
         S \subseteq Waiting(open), \A x \in 0..(Pos - 1) : x \in Waiting(open') => x \in Waiting(open)
  PROVE  \A i \in 1..Pos :
           /\ code'[i].op = code[i].op
           /\ Bound(code, Waiting(open), i) => code'[i] = code[i] /\ (i - 1) \notin Waiting(open')
<1> SUFFICES ASSUME NEW i \in 1..Pos, Bound(code, Waiting(open), i)
             PROVE  code'[i] = code[i] /\ (i - 1) \notin Waiting(open')
  OBVIOUS
<1>1. i - 1 \in 0..(Pos - 1) /\ (i - 1) \notin Waiting(open)
  BY DEF Bound
<1> QED
  BY <1>1 DEF KeepsBut

LEMMA FlatMoves ==
  ASSUME Typed, Typed', UNCHANGED <<open, functionName>>, Pos <= Pos', KeepsBut({}),
         \A i \in 1..Pos' : i > Pos /\ code'[i].op \in Jumps => code'[i].a >= Pos,
         \A x : Aimed(x)' => Near(x)
  PROVE  Moves
<1>1. /\ Pos \in Nat /\ Pos' \in Nat /\ Len(open) \in Nat
      /\ \A i \in 1..Pos' : code'[i].a \in Nat
  BY CodeNumbers, NextNumbers
<1>2. \A i \in 1..Pos :
        /\ code'[i].op = code[i].op
        /\ Bound(code, Waiting(open), i) => code'[i] = code[i] /\ (i - 1) \notin Waiting(open')
  BY DEF KeepsBut, Bound
<1>3. ASSUME NEW i \in 1..Pos', Bound(code', Waiting(open'), i)
      PROVE  \/ i \in 1..Pos /\ Bound(code, Waiting(open), i)
             \/ Near(i - 1) /\ Near(code'[i].a)
  <2>1. CASE i > Pos
    <3>1. i - 1 \in Nat /\ i - 1 >= Pos /\ code'[i].a \in Nat /\ code'[i].a >= Pos
      BY <1>1, <1>3, <2>1 DEF Bound
    <3> QED
      BY <3>1 DEF Near
  <2>2. CASE ~(i > Pos)
    <3>1. i \in 1..Pos
      BY <1>1, <2>2
    <3> QED
      BY <1>3, <3>1 DEF Bound, KeepsBut
  <2> QED
    BY <2>1, <2>2
<1> QED
  BY <1>1, <1>2, <1>3 DEF Moves, Adds, Near

LEMMA PushedMoves ==
  ASSUME Typed, Typed', NEW e \in Statements, open' = Append(open, e), e.kind # "func",
         UNCHANGED functionName, Pos <= Pos', KeepsBut({}), expr'.for = "nothing",
         \A x \in Held(e) : Near(x), \A x \in Holes(e) : x >= Pos,
         \A i \in 1..Pos' : i > Pos => code'[i].op \notin Jumps \/ (i - 1) \in Holes(e)
  PROVE  Moves
<1>1. Pos \in Nat /\ Pos' \in Nat /\ Pos = Len(code)
  BY CodeNumbers, LenProperties DEF Typed, CodeOK, Pos
<1>2. /\ Len(open) \in Nat /\ Len(open') = Len(open) + 1
      /\ \A i \in 1..Len(open) : open'[i] = open[i]
      /\ open'[Len(open) + 1] = e
      /\ \A i \in 1..Len(open') : i \in 1..Len(open) \/ i = Len(open) + 1
      /\ \A i \in 1..Len(open) : i \in 1..Len(open')
  BY Pushed DEF Typed
<1>3. /\ Waiting(open) \subseteq Waiting(open') /\ Holes(e) \subseteq Waiting(open')
      /\ \A x \in Waiting(open') : x \in Waiting(open) \/ x \in Holes(e)
  <2>1. \A x \in Waiting(open') : x \in Waiting(open) \/ x \in Holes(e)
    BY <1>2 DEF Waiting
  <2> QED
    BY <2>1, WaitingPushed
<1>4. \A x \in 0..(Pos - 1) : x \in Waiting(open') => x \in Waiting(open)
  BY <1>1, <1>3
<1>5. \A i \in 1..Pos :
        /\ code'[i].op = code[i].op
        /\ Bound(code, Waiting(open), i) => code'[i] = code[i] /\ (i - 1) \notin Waiting(open')
  <2>1. \A i \in 1..Pos : code'[i].op = code[i].op
    BY DEF KeepsBut
  <2> QED
    BY <1>1, <1>4, <2>1, BoundKept
<1>6. ASSUME NEW i \in 1..Pos', Bound(code', Waiting(open'), i)
      PROVE  i \in 1..Pos /\ Bound(code, Waiting(open), i)
  <2>1. i \in 1..Pos
    BY <1>1, <1>3, <1>6 DEF Bound
  <2> QED
    BY <1>3, <1>6, <2>1 DEF Bound, KeepsBut
<1>7. /\ \A k \in 1..Len(open') :
           open'[k].kind = "func" => k \in 1..Len(open) /\ open'[k] = open[k]
      /\ \A k \in 1..Len(open) :
           open[k].kind = "func" => k \in 1..Len(open') /\ open'[k] = open[k]
      /\ \A j \in 1..Len(open') :
           \/ j \in 1..Len(open) /\ open'[j] = open[j]
           \/ j = Len(open') /\ \A x \in Held(open'[j]) : Near(x)
  BY <1>2
<1>8. \A x : ~Aimed(x)'
  BY DEF Aimed
<1> QED
  BY <1>1, <1>5, <1>6, <1>7, <1>8 DEF Moves, Adds, Near

LEMMA ChangedMoves ==
  ASSUME Typed, Typed', NEW e, Continues(e), Holes(Inner) \subseteq Holes(e),
         Inner.kind # "func", e.kind # "func",
         UNCHANGED functionName, Pos <= Pos', KeepsBut({}), expr'.for = "nothing",
         \A x \in Held(e) : Near(x), \A x \in Holes(e) : x >= Pos \/ x \in Holes(Inner),
         \A i \in 1..Pos' : i > Pos => code'[i].op \notin Jumps \/ (i - 1) \in Holes(e)
  PROVE  Moves
<1>1. Pos \in Nat /\ Pos' \in Nat /\ Pos = Len(code)
  BY CodeNumbers, LenProperties DEF Typed, CodeOK, Pos
<1>2. /\ Len(open) \in Nat \ {0} /\ Len(open') = Len(open)
      /\ \A i \in 1..(Len(open) - 1) : open'[i] = open[i]
      /\ open'[Len(open)] = e /\ Inner = open[Len(open)]
      /\ \A i \in 1..Len(open') : i \in 1..(Len(open) - 1) \/ i = Len(open)
  BY Changed, InnerIsPlaced DEF Typed, Continues
<1>3. Len(open) \in 1..Len(open) /\ \A i \in 1..(Len(open) - 1) : i \in 1..Len(open) /\ i # Len(open)
  BY <1>2
<1>4. /\ Waiting(open) \subseteq Waiting(open') /\ Holes(e) \subseteq Waiting(open')
      /\ \A x \in Waiting(open') : x \in Waiting(open) \/ x \in Holes(e)
      /\ Holes(Inner) \subseteq Waiting(open)
  <2>1. \A x \in Waiting(open') : x \in Waiting(open) \/ x \in Holes(e)
    BY <1>2, <1>3 DEF Waiting
  <2>2. Holes(Inner) \subseteq Waiting(open)
    BY <1>2, <1>3 DEF Waiting
  <2> QED
    BY <2>1, <2>2, WaitingChanged
<1>5. \A x \in 0..(Pos - 1) : x \in Waiting(open') => x \in Waiting(open)
  BY <1>1, <1>4
<1>6. \A i \in 1..Pos :
        /\ code'[i].op = code[i].op
        /\ Bound(code, Waiting(open), i) => code'[i] = code[i] /\ (i - 1) \notin Waiting(open')
  <2>1. \A i \in 1..Pos : code'[i].op = code[i].op
    BY DEF KeepsBut
  <2> QED
    BY <1>1, <1>5, <2>1, BoundKept
<1>7. ASSUME NEW i \in 1..Pos', Bound(code', Waiting(open'), i)
      PROVE  i \in 1..Pos /\ Bound(code, Waiting(open), i)
  <2>1. i \in 1..Pos
    BY <1>1, <1>4, <1>7 DEF Bound
  <2> QED
    BY <1>4, <1>7, <2>1 DEF Bound, KeepsBut
<1>8. /\ \A k \in 1..Len(open') :
           open'[k].kind = "func" => k \in 1..Len(open) /\ open'[k] = open[k]
      /\ \A k \in 1..Len(open) :
           open[k].kind = "func" => k \in 1..Len(open') /\ open'[k] = open[k]
      /\ \A j \in 1..Len(open') :
           \/ j \in 1..Len(open) /\ open'[j] = open[j]
           \/ j = Len(open') /\ \A x \in Held(open'[j]) : Near(x)
  BY <1>2, <1>3
<1>9. \A x : ~Aimed(x)'
  BY DEF Aimed
<1> QED
  BY <1>1, <1>6, <1>7, <1>8, <1>9 DEF Moves, Adds, Near

LEMMA PoppedMoves ==
  ASSUME Typed, Typed', Leaves(Holes(Inner)), Inner.kind # "func",
         UNCHANGED functionName, Pos <= Pos', expr'.for = "nothing",
         \A x \in Holes(Inner) : Near(code'[x + 1].a),
         \A i \in 1..Pos' : i > Pos /\ code'[i].op \in Jumps => Near(code'[i].a)
  PROVE  Moves
<1>1. Pos \in Nat /\ Pos' \in Nat /\ Pos = Len(code)
  BY CodeNumbers, LenProperties DEF Typed, CodeOK, Pos
<1>2. /\ Len(open) \in Nat \ {0} /\ Len(open') = Len(open) - 1
      /\ \A i \in 1..(Len(open) - 1) : open'[i] = open[i]
      /\ Inner = open[Len(open)] /\ open # <<>>
  BY Popped DEF Typed, Leaves
<1>3. /\ \A i \in 1..Len(open') : i \in 1..Len(open) /\ i # Len(open) /\ open'[i] = open[i]
      /\ \A i \in 1..Len(open) : i = Len(open) \/ (i \in 1..Len(open') /\ open'[i] = open[i])
      /\ Len(open) \in 1..Len(open)
  BY <1>2
<1>4. /\ Holes(Inner) \subseteq Waiting(open) /\ Waiting(open') \subseteq Waiting(open)
      /\ \A x \in Waiting(open) : x \in Waiting(open') \/ x \in Holes(Inner)
  BY <1>2, <1>3 DEF Waiting
<1>5. /\ KeepsBut(Holes(Inner)) /\ \A i \in 1..Pos : code'[i].op = code[i].op
      /\ \A x \in 0..(Pos - 1) : x \in Waiting(open') => x \in Waiting(open)
  BY <1>4 DEF Leaves
<1>6. \A i \in 1..Pos :
        /\ code'[i].op = code[i].op
        /\ Bound(code, Waiting(open), i) => code'[i] = code[i] /\ (i - 1) \notin Waiting(open')
  BY <1>1, <1>4, <1>5, BoundKept
<1>7. ASSUME NEW i \in 1..Pos', Bound(code', Waiting(open'), i)
      PROVE  \/ i \in 1..Pos /\ Bound(code, Waiting(open), i)
             \/ Near(i - 1) /\ Near(code'[i].a)
  <2>1. i - 1 \in Nat /\ i - 1 + 1 = i
    BY <1>1
  <2>2. CASE i > Pos
    <3>1. i - 1 >= Pos
      BY <1>1, <2>2
    <3> QED
      BY <1>7, <2>1, <2>2, <3>1 DEF Near, Bound
  <2>3. CASE i \in 1..Pos /\ (i - 1) \in Waiting(open)
    <3>1. (i - 1) \in Holes(Inner)
      BY <1>4, <1>7, <2>3 DEF Bound
    <3>2. (i - 1) \in Held(Inner)
      BY <1>2, <1>3, <3>1, HeldPlaced
    <3> QED
      BY <1>2, <2>1, <3>1, <3>2 DEF Near
  <2>4. CASE i \in 1..Pos /\ (i - 1) \notin Waiting(open)
    BY <1>6, <1>7, <2>4 DEF Bound
  <2> QED
    BY <1>1, <2>2, <2>3, <2>4
<1>8. /\ \A k \in 1..Len(open') :
           open'[k].kind = "func" => k \in 1..Len(open) /\ open'[k] = open[k]
      /\ \A k \in 1..Len(open) :
           open[k].kind = "func" => k \in 1..Len(open') /\ open'[k] = open[k]
      /\ \A j \in 1..Len(open') : j \in 1..Len(open) /\ open'[j] = open[j]
  BY <1>2, <1>3
<1>9. \A x : ~Aimed(x)'
  BY DEF Aimed
<1> QED
  BY <1>1, <1>6, <1>7, <1>8, <1>9 DEF Moves, Adds, Near

----------------------------------------------------------------------------
(* Every step that enters and leaves no function.                          *)

LEMMA InnerNear ==
  ASSUME Typed, open # <<>>, Inner.kind # "func"
  PROVE  /\ \A x \in Held(Inner) : Near(x)
         /\ \A x \in Holes(Inner) : x \in Held(Inner)
         /\ Inner \in Statements
<1>1. Len(open) \in Nat \ {0} /\ Inner = open[Len(open)] /\ Inner \in Statements
  BY InnerIsPlaced DEF Typed
<1>2. Len(open) \in 1..Len(open)
  BY <1>1
<1>3. Pos \in Nat /\ Held(Inner) \subseteq 0..Pos /\ \A x \in Holes(Inner) : x \in Held(Inner)
  BY <1>1, <1>2, HeldPlaced
<1> QED
  BY <1>1, <1>3 DEF Near

LEMMA SimpleMoves ==
  ASSUME Typed, Typed', Plain \/ UserCall \/ EndReturn \/ EmptyReturn \/ EndRequire \/ Finish
  PROVE  Moves
<1>1. Pos \in Nat /\ Pos' \in Nat
  BY CodeNumbers, NextNumbers
<1>2. CASE Plain
  <2>1. Straight /\ UNCHANGED <<open, functionName>>
    BY <1>2, PlainIsStraight DEF Typed
  <2>2. Pos <= Pos' /\ KeepsBut({}) /\ \A i \in 1..Pos' : i > Pos => code'[i].op \notin Jumps
    BY <2>1, StraightNames DEF Straight, Jumps
  <2>3. \A x : Aimed(x)' => Near(x)
    BY <1>2, PlainExpr, AimsNear DEF BeginReturn
  <2> QED
    BY <2>1, <2>2, <2>3, FlatMoves
<1>3. CASE UserCall
  <2>1. /\ UNCHANGED <<open, functionName>>
        /\ Pos' = Pos + 1 /\ KeepsBut({}) /\ code'[Pos + 1].op = "CALL"
    BY <1>3, CallEmitted
  <2>2. Pos <= Pos' /\ \A i \in 1..Pos' : i > Pos => code'[i].op \notin Jumps
    BY <1>1, <2>1 DEF Jumps
  <2>3. \A x : Aimed(x)' => Near(x)
    BY <1>3, PlainExpr, AimsNear
  <2> QED
    BY <2>1, <2>2, <2>3, FlatMoves
<1>4. CASE EndReturn \/ EmptyReturn
  <2>1. /\ UNCHANGED <<open, functionName>> /\ Pos' = Pos + 1 /\ KeepsBut({})
        /\ code'[Pos + 1].op = IF isInFunction THEN "RET" ELSE "PRINT"
    BY <1>4, ReturnEmitted
  <2>2. Pos <= Pos' /\ \A i \in 1..Pos' : i > Pos => code'[i].op \notin Jumps
    BY <1>1, <2>1 DEF Jumps
  <2>3. expr'.for = "nothing" \/ UNCHANGED expr
    <3>1. CASE EndReturn
      BY <3>1 DEF EndReturn, NoExpr
    <3>2. CASE EmptyReturn
      BY <3>2 DEF EmptyReturn
    <3> QED
      BY <1>4, <3>1, <3>2
  <2>4. \A x : Aimed(x)' => Near(x)
    BY <2>3, AimsNear
  <2> QED
    BY <2>1, <2>2, <2>4, FlatMoves
<1>5. CASE EndRequire
  <2>1. /\ Pos' = Pos + 4 /\ KeepsBut({})
        /\ code'[Pos + 1].a = Pos + 2 /\ code'[Pos + 2].a = Pos + 4
        /\ code'[Pos + 3].op \notin Jumps /\ code'[Pos + 4].op \notin Jumps
        /\ UNCHANGED <<open, functionName>>
    BY <1>5, RequireEmitted, StraightNames DEF Jumps
  <2>2. \A i \in 1..Pos' : i > Pos => i \in {Pos + 1, Pos + 2, Pos + 3, Pos + 4}
    BY <1>1, <2>1
  <2>3. Pos <= Pos' /\ Pos + 2 >= Pos /\ Pos + 4 >= Pos
    BY <1>1, <2>1
  <2>4. \A i \in 1..Pos' : i > Pos /\ code'[i].op \in Jumps => code'[i].a >= Pos
    BY <2>1, <2>2, <2>3
  <2>5. expr'.for = "nothing"
    BY <1>5 DEF EndRequire, NoExpr
  <2>6. \A x : Aimed(x)' => Near(x)
    BY <2>5 DEF Aimed
  <2> QED
    BY <2>1, <2>3, <2>4, <2>6, FlatMoves
<1>6. CASE Finish
  <2>1. /\ Pos' = Pos + 1 /\ KeepsBut({}) /\ code'[Pos + 1].op = "HALT"
        /\ UNCHANGED <<open, functionName>>
    BY <1>6, HaltEmitted
  <2>2. Pos <= Pos' /\ \A i \in 1..Pos' : i > Pos => code'[i].op \notin Jumps
    BY <1>1, <2>1 DEF Jumps
  <2>3. UNCHANGED expr
    BY <1>6 DEF Finish
  <2>4. \A x : Aimed(x)' => Near(x)
    BY <2>3, AimsNear
  <2> QED
    BY <2>1, <2>2, <2>4, FlatMoves
<1> QED
  BY <1>2, <1>3, <1>4, <1>5, <1>6

LEMMA OpeningsMove ==
  ASSUME Typed, Typed', Opens \/ EnterTry
  PROVE  Moves
<1>1. Pos \in Nat /\ expr.slot \in Nat
  BY CodeNumbers DEF Typed, ExprOK, Exprs
<1>2. UNCHANGED functionName
  BY DEF Opens, EnterThen, EnterWhile, BeginFor, BeginObject, EnterTry, decls
<1>3. expr'.for = "nothing"
  BY BetweenExpressions
<1>4. ASSUME NEW e, NEW op, Enters(e, op), e.kind # "func", Holes(e) = {Pos}, \A x \in Held(e) : Near(x)
      PROVE  Moves
  <2>1. /\ e \in Statements /\ open' = Append(open, e) /\ Pos' = Pos + 1 /\ KeepsBut({})
    BY <1>4 DEF Enters
  <2>2. Pos <= Pos' /\ (\A x \in Holes(e) : x >= Pos) /\ \A i \in 1..Pos' : i > Pos => (i - 1) \in Holes(e)
    BY <1>1, <1>4, <2>1
  <2> QED
    BY <1>2, <1>3, <1>4, <2>1, <2>2, PushedMoves
<1>5. CASE EnterThen
  <2>1. PICK e : Enters(e, "JMP_IF") /\ e.kind = "then" /\ e.p = Pos
    BY <1>5, ThenEntered
  <2>2. Holes(e) = {Pos} /\ \A x \in Held(e) : Near(x)
    BY <1>1, <2>1 DEF Holes, Held, Near
  <2> QED
    BY <1>4, <2>1, <2>2
<1>6. CASE EnterWhile
  <2>1. PICK e : Enters(e, "JMP_IF") /\ e.kind = "while" /\ e.p = expr.slot /\ e.q = Pos
    BY <1>6, WhileEntered
  <2>2. expr.for = "while"
    BY <1>6, WhileEntered
  <2>3. Holes(e) = {Pos} /\ \A x \in Held(e) : Near(x)
    BY <1>1, <2>1, <2>2 DEF Holes, Held, Near, Aimed
  <2> QED
    BY <1>4, <2>1, <2>3
<1>7. CASE EnterTry
  <2>1. PICK e : Enters(e, "TRY") /\ e.kind = "try" /\ e.p = Pos
    BY <1>7, TryEntered
  <2>2. Holes(e) = {Pos} /\ \A x \in Held(e) : Near(x)
    BY <1>1, <2>1 DEF Holes, Held, Near
  <2> QED
    BY <1>4, <2>1, <2>2
<1>8. CASE BeginFor \/ (\E x \in Names : BeginObject(x))
  <2>1. PICK e \in Statements : /\ Straight /\ open' = Append(open, e) /\ e.p = Pos
                                /\ e.kind \in {"for_init", "object"}
    BY <1>8, ForBegun, ObjectBegun
  <2>2. Pos <= Pos' /\ KeepsBut({}) /\ \A i \in 1..Pos' : i > Pos => code'[i].op \notin Jumps
    BY <2>1, StraightNames DEF Straight, Jumps
  <2>3. Holes(e) = {} /\ \A x \in Held(e) : Near(x)
    BY <1>1, <2>1 DEF Holes, Held, Near
  <2> QED
    BY <1>2, <1>3, <2>1, <2>2, <2>3, PushedMoves
<1> QED
  BY <1>5, <1>6, <1>7, <1>8 DEF Opens

LEMMA PartsMove ==
  ASSUME Typed, Typed', GoesOn \/ (\E x \in Names : EnterCatch(x))
  PROVE  Moves
<1>1. Pos \in Nat /\ expr.slot \in Nat
  BY CodeNumbers DEF Typed, ExprOK, Exprs
<1>2. UNCHANGED functionName
  BY DEF GoesOn, EnterElse, EnterFor, EnterForPost, EnterCatch, decls
<1>3. expr'.for = "nothing"
  BY BetweenExpressions
<1>4. CASE EnterElse
  <2>1. Inner.kind = "then" /\ Pos' = Pos + 1 /\ KeepsBut({}) /\ code'[Pos + 1].op = "JMP"
    BY <1>4, ElseEntered
  <2>2. PICK e : Continues(e) /\ e.kind = "else" /\ e.p = Inner.p /\ e.q = Pos /\ e.r = Pos + 1
    BY <1>4, ElseEntered
  <2>3. /\ Holes(e) = {Inner.p, Pos} /\ Held(e) = {Inner.p, Pos, Pos + 1}
        /\ Holes(Inner) = {Inner.p} /\ Held(Inner) = {Inner.p}
    BY <2>1, <2>2 DEF Holes, Held
  <2>4. Near(Inner.p) /\ Near(Pos) /\ Near(Pos + 1)
    BY <1>1, <2>1, <2>2, <2>3, InnerNear DEF Near, Continues
  <2>5. Pos <= Pos' /\ \A i \in 1..Pos' : i > Pos => i - 1 = Pos
    BY <1>1, <2>1
  <2>6. \A x \in Holes(e) : x >= Pos \/ x \in Holes(Inner)
    BY <1>1, <2>3
  <2> QED
    BY <1>2, <1>3, <2>1, <2>2, <2>3, <2>4, <2>5, <2>6, ChangedMoves
<1>5. CASE EnterFor
  <2>1. /\ expr.for = "for" /\ Inner.kind = "for_init" /\ Pos' = Pos + 1 /\ KeepsBut({})
        /\ code'[Pos + 1].op = "JMP_IF"
    BY <1>5, ForEntered
  <2>2. PICK e : Continues(e) /\ e.kind = "for" /\ e.p = expr.slot /\ e.q = Pos
    BY <1>5, ForEntered
  <2>3. Holes(e) = {Pos} /\ Held(e) = {expr.slot, Pos} /\ Holes(Inner) = {}
    BY <2>1, <2>2 DEF Holes, Held
  <2>4. Near(expr.slot) /\ Near(Pos)
    BY <1>1, <2>1 DEF Near, Aimed
  <2>5. /\ Pos <= Pos' /\ \A i \in 1..Pos' : i > Pos => i - 1 = Pos
        /\ \A x \in Holes(e) : x >= Pos
    BY <1>1, <2>1, <2>3
  <2> QED
    BY <1>2, <1>3, <2>1, <2>2, <2>3, <2>4, <2>5, ChangedMoves
<1>6. CASE EnterForPost
  <2>1. Inner.kind = "for" /\ Straight
    BY <1>6, ForPostEntered
  <2>2. PICK e : Continues(e) /\ e.kind = "for_post" /\ e.p = Pos /\ e.q = Inner.q /\ e.r = Inner.p
    BY <1>6, ForPostEntered
  <2>3. /\ Holes(e) = {Inner.q} /\ Held(e) = {Pos, Inner.q, Inner.p}
        /\ Holes(Inner) = {Inner.q} /\ Held(Inner) = {Inner.p, Inner.q}
    BY <2>1, <2>2 DEF Holes, Held
  <2>4. Near(Inner.p) /\ Near(Inner.q) /\ Near(Pos)
    BY <1>1, <2>1, <2>2, <2>3, InnerNear DEF Near, Continues
  <2>5. Pos <= Pos' /\ KeepsBut({}) /\ \A i \in 1..Pos' : i > Pos => code'[i].op \notin Jumps
    BY <2>1, StraightNames DEF Straight, Jumps
  <2> QED
    BY <1>2, <1>3, <2>1, <2>2, <2>3, <2>4, <2>5, ChangedMoves
<1>7. CASE \E x \in Names : EnterCatch(x)
  <2>1. PICK x \in Names : EnterCatch(x)
    BY <1>7
  <2>2. /\ Inner.kind = "try" /\ Pos' = Pos + 2 /\ KeepsBut({}) /\ code'[Pos + 1].op = "END_TRY"
    BY <2>1, CatchEntered
  <2>3. PICK e : Continues(e) /\ e.kind = "catch" /\ e.p = Inner.p /\ e.q = Pos + 1
                 /\ e.r = Pos + 2
    BY <2>1, CatchEntered
  <2>4. /\ Holes(e) = {Inner.p, Pos + 1} /\ Held(e) = {Inner.p, Pos + 1, Pos + 2}
        /\ Holes(Inner) = {Inner.p} /\ Held(Inner) = {Inner.p}
    BY <2>2, <2>3 DEF Holes, Held
  <2>5. Near(Inner.p) /\ Near(Pos + 1) /\ Near(Pos + 2)
    BY <1>1, <2>2, <2>3, <2>4, InnerNear DEF Near, Continues
  <2>6. Pos <= Pos' /\ \A i \in 1..Pos' : i > Pos => i = Pos + 1 \/ (i = Pos + 2 /\ i - 1 = Pos + 1)
    BY <1>1, <2>2
  <2>7. \A i \in 1..Pos' : i > Pos => code'[i].op \notin Jumps \/ (i - 1) \in Holes(e)
    BY <2>2, <2>4, <2>6 DEF Jumps
  <2>8. \A y \in Holes(e) : y >= Pos \/ y \in Holes(Inner)
    BY <1>1, <2>4
  <2> QED
    BY <1>2, <1>3, <2>2, <2>3, <2>4, <2>5, <2>6, <2>7, <2>8, ChangedMoves
<1> QED
  BY <1>4, <1>5, <1>6, <1>7 DEF GoesOn

LEMMA ClosingsMove ==
  ASSUME Typed, Typed', Closes \/ LeaveCatch
  PROVE  Moves
<1>1. Pos \in Nat
  BY CodeNumbers
<1>2. UNCHANGED functionName
  BY DEF Closes, LeaveIf, LeaveWhile, LeaveFor, EndObject, LeaveCatch, decls
<1>3. expr'.for = "nothing"
  BY BetweenExpressions
<1>4. CASE LeaveIf /\ Inner.kind = "then"
  <2>1. Leaves({Inner.p}) /\ Pos' = Pos /\ code'[Inner.p + 1].a = Pos
    BY <1>4, ThenLeft
  <2>2. Holes(Inner) = {Inner.p}
    BY <1>4 DEF Holes
  <2>3. Near(Pos) /\ Pos <= Pos' /\ \A i \in 1..Pos' : ~(i > Pos)
    BY <1>1, <2>1 DEF Near
  <2> QED
    BY <1>2, <1>3, <1>4, <2>1, <2>2, <2>3, PoppedMoves
<1>5. CASE LeaveCatch \/ (LeaveIf /\ Inner.kind # "then")
  <2>1. /\ Leaves({Inner.p, Inner.q}) /\ Inner.kind \in {"else", "catch"} /\ Pos' = Pos
        /\ code'[Inner.q + 1].a = Pos /\ code'[Inner.p + 1].a \in {Inner.r, Pos}
    BY <1>5, ElseOrCatchLeft
  <2>2. Holes(Inner) = {Inner.p, Inner.q} /\ Inner.r \in Held(Inner)
    BY <2>1 DEF Holes, Held
  <2>3. Near(Pos) /\ Near(Inner.r) /\ Pos <= Pos' /\ \A i \in 1..Pos' : ~(i > Pos)
    BY <1>1, <2>1, <2>2, InnerNear DEF Near, Leaves
  <2>4. \A x \in Holes(Inner) : Near(code'[x + 1].a)
    BY <2>1, <2>2, <2>3
  <2> QED
    BY <1>2, <1>3, <2>1, <2>2, <2>3, <2>4, PoppedMoves
<1>6. CASE LeaveWhile \/ LeaveFor
  <2>1. /\ Leaves({Inner.q}) /\ Inner.kind \in {"while", "for_post"}
        /\ Pos' = Pos + 1 /\ code'[Inner.q + 1].a = Pos + 1
    BY <1>6, LoopLeft
  <2>2. PICK t : /\ t = (IF Inner.kind = "while" THEN Inner.p ELSE Inner.r)
                 /\ code'[Pos + 1] = Instr("JMP", t, 0)
    BY <1>6, LoopLeft
  <2>3. Holes(Inner) = {Inner.q} /\ t \in Held(Inner)
    BY <2>1, <2>2 DEF Holes, Held
  <2>4. Near(t) /\ Near(Pos + 1)
    BY <1>1, <2>1, <2>3, InnerNear DEF Near, Leaves
  <2>5. code'[Pos + 1].a = t
    BY <2>2 DEF Instr
  <2>6. Pos <= Pos' /\ \A i \in 1..Pos' : i > Pos => i = Pos + 1
    BY <1>1, <2>1
  <2>7. /\ \A x \in Holes(Inner) : Near(code'[x + 1].a)
        /\ \A i \in 1..Pos' : i > Pos /\ code'[i].op \in Jumps => Near(code'[i].a)
    BY <2>1, <2>3, <2>4, <2>5, <2>6
  <2> QED
    BY <1>2, <1>3, <2>1, <2>3, <2>6, <2>7, PoppedMoves
<1>7. CASE EndObject
  <2>1. /\ Straight /\ open # <<>> /\ Inner.kind = "object" /\ open' = Front(open)
        /\ Inner \in Statements /\ Placed(code, Inner)
    BY <1>7, ObjectLeft
  <2>2. Pos <= Pos' /\ KeepsBut({}) /\ \A i \in 1..Pos' : i > Pos => code'[i].op \notin Jumps
    BY <2>1, StraightNames DEF Straight, Jumps
  <2>3. Holes(Inner) = {}
    BY <2>1 DEF Holes
  <2>4. Leaves(Holes(Inner))
    BY <1>1, <2>1, <2>2, <2>3 DEF Leaves, KeepsBut
  <2> QED
    BY <1>2, <1>3, <2>1, <2>2, <2>3, <2>4, PoppedMoves
<1> QED
  BY <1>4, <1>5, <1>6, <1>7 DEF Closes

----------------------------------------------------------------------------
(* Functions entered and left.                                             *)

LEMMA FuncEnteredBodies ==
  ASSUME Typed, Typed', Bodies, NEW f \in Funcs, EnterFunc(f)
  PROVE  Bodies' /\ BodiesStay
<1> DEFINE S == {x \in Nat : x >= Pos}
<1>0. PICK n : n = Len(open) + 1
  OBVIOUS
<1>1. PICK e : Enters(e, "JMP") /\ e.kind = "func" /\ e.p = Pos
  BY FuncEntered
<1>2. /\ e \in Statements /\ open' = Append(open, e) /\ Pos \in Nat /\ Pos' = Pos + 1
      /\ KeepsBut({}) /\ functionName' = Put(functionName, Pos + 1, f)
      /\ Holes(e) = {Pos} /\ Held(e) = {Pos}
  BY <1>1, FuncEntered DEF Enters, Holes, Held
<1>3. /\ Len(open) \in Nat /\ Len(open') = n
      /\ \A i \in 1..Len(open) : open'[i] = open[i] /\ i \in 1..Len(open')
      /\ open'[n] = e
      /\ \A i \in 1..Len(open') : i \in 1..Len(open) \/ i = n
  BY <1>0, <1>2, Pushed DEF Typed
<1>4. /\ Waiting(open) \subseteq Waiting(open') /\ Pos \in Waiting(open')
      /\ \A x \in Waiting(open') : x \in Waiting(open) \/ x = Pos
  <2>1. \A x \in Waiting(open') : x \in Waiting(open) \/ x = Pos
    BY <1>2, <1>3 DEF Waiting
  <2> QED
    BY <1>2, <2>1, WaitingPushed
<1>5. \A i \in 1..Pos :
        /\ code'[i].op = code[i].op
        /\ Bound(code, Waiting(open), i) => code'[i] = code[i] /\ (i - 1) \notin Waiting(open')
  <2>1. \A i \in 1..Pos : code'[i].op = code[i].op
    BY <1>2 DEF KeepsBut
  <2>2. \A x \in 0..(Pos - 1) : x \in Waiting(open') => x \in Waiting(open)
    BY <1>2, <1>4
  <2> QED
    BY <1>2, <2>1, <2>2, BoundKept
<1>6. ASSUME NEW i \in 1..Pos', Bound(code', Waiting(open'), i)
      PROVE  i \in 1..Pos /\ Bound(code, Waiting(open), i) /\ code'[i] = code[i]
  <2>1. i \in 1..Pos
    BY <1>2, <1>4, <1>6 DEF Bound
  <2> QED
    BY <1>2, <1>4, <1>6, <2>1 DEF Bound, KeepsBut
<1>7. \A x : ~Aimed(x)'
  <2>1. expr'.for = "nothing"
    BY BetweenExpressions
  <2> QED
    BY <2>1 DEF Aimed
<1>8. Adds(S)
  BY <1>0, <1>2, <1>3, <1>5, <1>6, <1>7 DEF Adds
<1>9. \A k \in 1..Len(open) : \A x \in Held(open[k]) : x <= Pos
  BY <1>2, HeldPlaced
<1>10. Apart(n)'
  <2>1. \A j \in 1..(n - 1) : \A x \in Held(open'[j]) : x <= Pos
    BY <1>0, <1>3, <1>9
  <2>2. ~ \E j \in (n + 1)..Len(open') : TRUE
    BY <1>0, <1>3
  <2>3. \A i \in 1..Pos' : Bound(code', Waiting(open'), i) => ~(i - 1 > Pos) /\ ~(code'[i].a > Pos)
    BY <1>2, <1>6, CodeNumbers DEF Bound
  <2>4. open'[n].p = Pos
    BY <1>1, <1>3
  <2> QED
    BY <1>7, <2>1, <2>2, <2>3, <2>4 DEF Apart
<1>11. ASSUME NEW k \in 1..Len(open), open[k].kind = "func" PROVE Apart(k)'
  <2>1. open[k].p \in Holes(open[k])
    BY <1>11 DEF Holes
  <2>2. open[k].p + 1 \in 1..Pos /\ open[k].p \in 0..Pos
    BY <2>1, HeldPlaced
  <2>3. \A x \in S : x > open[k].p
    BY <1>2, <2>2
  <2>4. Apart(k) /\ k \in 1..Len(open') /\ open'[k] = open[k]
    BY <1>3, <1>11 DEF Bodies
  <2> HIDE DEF S
  <2> QED
    BY <1>8, <2>3, <2>4, ApartKept
<1>12. \A k \in 1..Len(open') : open'[k].kind = "func" => Apart(k)'
  BY <1>3, <1>10, <1>11
<1>13. ASSUME NEW x \in DOMAIN functionName, Left(x)
       PROVE  Left(x)' /\ code'[x] = code[x]
  <2>1. x \in 1..Pos
    BY DEF Bodies
  <2>2. \A y \in S : y \notin x..(code[x].a - 1)
    BY <1>2, <1>13, <2>1, CodeNumbers DEF Left, ClosedTo
  <2> HIDE DEF S
  <2> QED
    BY <1>8, <1>13, <2>1, <2>2, ClosedKept
<1>14. ASSUME NEW x \in DOMAIN functionName'
       PROVE  x \in 1..Pos' /\ (Left(x)' \/ \E k \in 1..Len(open') : OpenAt(k, x)')
  <2>1. x = Pos + 1 \/ x \in DOMAIN functionName
    BY <1>2, <1>14 DEF Put
  <2>2. CASE x = Pos + 1
    <3>1. x \in 1..Pos' /\ n \in 1..Len(open') /\ x - 1 = Pos
      BY <1>0, <1>2, <1>3, <2>2
    <3>2. OpenAt(n, x)'
      BY <1>1, <1>3, <3>1 DEF OpenAt
    <3> QED
      BY <3>1, <3>2
  <2>3. CASE x \in DOMAIN functionName /\ Left(x)
    <3>1. x \in 1..Pos'
      BY <1>2, <2>3 DEF Bodies
    <3> QED
      BY <1>13, <2>3, <3>1
  <2>4. CASE x \in DOMAIN functionName /\ \E k \in 1..Len(open) : OpenAt(k, x)
    <3>1. x \in 1..Pos'
      BY <1>2, <2>4 DEF Bodies
    <3>2. PICK k \in 1..Len(open) : OpenAt(k, x)
      BY <2>4
    <3>3. k \in 1..Len(open') /\ OpenAt(k, x)'
      BY <1>3, <3>2 DEF OpenAt
    <3> QED
      BY <3>1, <3>3
  <2> QED
    BY <2>1, <2>2, <2>3, <2>4 DEF Bodies
<1> QED
  BY <1>3, <1>12, <1>13, <1>14 DEF Bodies, BodiesStay

LEMMA FuncLeftBodies ==
  ASSUME Typed, Typed', LaidOut, Bodies, LeaveFunc
  PROVE  Bodies' /\ BodiesStay
<1>1. /\ Leaves({Inner.p}) /\ Inner.kind = "func"
      /\ Pos' = Pos + 1 /\ code'[Pos + 1].op = "RET" /\ code'[Inner.p + 1].a = Pos + 1
      /\ UNCHANGED functionName
  BY FuncLeft
<1>2. PICK p : p = Inner.p
  OBVIOUS
<1>3. Holes(Inner) = {p} /\ Held(Inner) = {p}
  BY <1>1, <1>2 DEF Holes, Held
<1>4. /\ p \in Nat /\ p + 1 \in 1..Pos /\ code[p + 1].op = "JMP" /\ Pos \in Nat /\ Pos = Len(code)
  BY <1>1, <1>2, <1>3, InnerShape DEF Leaves, Shaped
<1>5. /\ Len(open) \in Nat \ {0} /\ Len(open') = Len(open) - 1
      /\ Inner = open[Len(open)] /\ Len(open) \in 1..Len(open)
      /\ \A i \in 1..Len(open') : i \in 1..(Len(open) - 1) /\ i \in 1..Len(open)
                                  /\ i # Len(open) /\ open'[i] = open[i]
      /\ \A i \in 1..Len(open) : i = Len(open) \/ (i \in 1..Len(open') /\ open'[i] = open[i])
  BY <1>1, Popped DEF Typed, Leaves
<1>6. /\ Waiting(open') \subseteq Waiting(open) /\ p \in Waiting(open) /\ p \notin Waiting(open')
      /\ \A x \in Waiting(open) : x \in Waiting(open') \/ x = p
  <2>1. \A k \in 1..Len(open') : Holes(open'[k]) \cap Holes(Inner) = {}
    BY <1>5 DEF LaidOut, Distinct
  <2> QED
    BY <1>3, <1>5, <2>1 DEF Waiting
<1>7. /\ KeepsBut({p}) /\ \A i \in 1..Pos : code'[i].op = code[i].op
  BY <1>1, <1>2 DEF Leaves
<1>8. \A i \in 1..Pos :
        /\ code'[i].op = code[i].op
        /\ Bound(code, Waiting(open), i) => code'[i] = code[i] /\ (i - 1) \notin Waiting(open')
  BY <1>4, <1>6, <1>7, BoundKept
<1>9. ASSUME NEW i \in 1..Pos', Bound(code', Waiting(open'), i)
      PROVE  \/ i \in 1..Pos /\ Bound(code, Waiting(open), i) /\ code'[i] = code[i]
             \/ i = p + 1
  <2>1. i \in 1..Pos
    BY <1>1, <1>4, <1>9 DEF Bound, Jumps
  <2>2. CASE i - 1 = p
    BY <1>4, <2>1, <2>2
  <2>3. CASE i - 1 # p
    BY <1>6, <1>7, <1>9, <2>1, <2>3 DEF Bound, KeepsBut
  <2> QED
    BY <2>2, <2>3
<1>10. \A x : ~Aimed(x)'
  <2>1. expr'.for = "nothing"
    BY BetweenExpressions
  <2> QED
    BY <2>1 DEF Aimed
<1> DEFINE S == {x \in Nat : x = p \/ x >= Pos}
<1>11. Adds(S)
  <2>1. ASSUME NEW i \in 1..Pos', Bound(code', Waiting(open'), i)
        PROVE  \/ i \in 1..Pos /\ Bound(code, Waiting(open), i)
               \/ (i - 1) \in S /\ code'[i].a \in S
    <3>1. (p + 1) - 1 \in S /\ Pos + 1 \in S
      BY <1>4
    <3> HIDE DEF S
    <3> QED
      BY <1>1, <1>2, <1>9, <2>1, <3>1
  <2>2. Pos' \in Nat /\ Pos <= Pos'
    BY <1>1, <1>4
  <2> HIDE DEF S
  <2> QED
    BY <1>4, <1>5, <1>8, <1>10, <2>1, <2>2 DEF Adds
<1>12. Apart(Len(open))
  BY <1>1, <1>5 DEF Bodies
<1>13. ASSUME NEW k \in 1..Len(open'), open'[k].kind = "func" PROVE Apart(k)'
  <2>1. /\ k \in 1..Len(open) /\ open'[k] = open[k] /\ Apart(k)
        /\ Len(open) \in (k + 1)..Len(open)
    BY <1>5, <1>13 DEF Bodies
  <2>2. p > open[k].p
    BY <1>3, <1>5, <2>1 DEF Apart
  <2>3. open[k].p \in 0..Pos /\ open[k].p + 1 \in 1..Pos
    <3>1. open[k].p \in Holes(open[k])
      BY <1>13, <2>1 DEF Holes
    <3> QED
      BY <2>1, <3>1, HeldPlaced
  <2>4. \A x \in S : x > open[k].p
    BY <1>4, <2>2, <2>3
  <2> HIDE DEF S
  <2> QED
    BY <1>11, <2>1, <2>4, ApartKept
<1>14. Left(p + 1)'
  <2>1. /\ p + 1 < Pos + 1 /\ Pos + 1 <= Pos' /\ Pos + 1 - 1 = Pos /\ p + 1 - 1 = p
    BY <1>1, <1>4
  <2>2. /\ code'[p + 1].op = "JMP" /\ code'[p + 1].a = Pos + 1
        /\ Bound(code', Waiting(open'), p + 1)
    BY <1>1, <1>2, <1>4, <1>6, <1>7, <2>1 DEF Bound, Jumps
  <2>3. ASSUME NEW i \in 1..Pos', i # p + 1, Bound(code', Waiting(open'), i)
        PROVE  i - 1 \in (p + 1)..Pos <=> code'[i].a \in (p + 1)..Pos
    <3>1. i \in 1..Pos /\ Bound(code, Waiting(open), i) /\ code'[i] = code[i]
      BY <1>9, <2>3
    <3>2. i - 1 > p <=> code[i].a > p
      BY <1>2, <1>5, <1>12, <3>1 DEF Apart
    <3>3. code[i].a \in Nat /\ code[i].a <= Pos
      BY <3>1, CodeNumbers DEF Bound
    <3> QED
      BY <1>4, <3>1, <3>2, <3>3
  <2>4. ASSUME NEW k \in 1..Len(open'), NEW x \in Held(open'[k]) PROVE x \notin (p + 1)..Pos
    <3>1. x <= p
      BY <1>2, <1>5, <1>12, <2>4 DEF Apart
    <3>2. x \in Nat
      BY <1>5, <2>4, HeldPlaced
    <3> QED
      BY <1>4, <3>1, <3>2
  <2>5. PICK n \in Nat : n = Pos + 1 /\ n - 1 = Pos
    BY <1>4
  <2>6. ClosedTo(p + 1, n)'
    BY <1>1, <1>10, <2>1, <2>2, <2>3, <2>4, <2>5 DEF ClosedTo
  <2> QED
    BY <2>2, <2>5, <2>6 DEF Left
<1>15. ASSUME NEW x \in DOMAIN functionName, Left(x)
       PROVE  Left(x)' /\ code'[x] = code[x]
  <2>1. x \in 1..Pos
    BY DEF Bodies
  <2>2. ClosedTo(x, code[x].a) /\ code[x].a \in Nat /\ code[x].a <= Pos
    BY <1>15, <2>1, CodeNumbers DEF Left, ClosedTo
  <2>3. p \notin x..(code[x].a - 1)
    BY <1>3, <1>5, <2>2 DEF ClosedTo
  <2>4. \A y \in S : y \notin x..(code[x].a - 1)
    BY <1>4, <2>2, <2>3
  <2> HIDE DEF S
  <2> QED
    BY <1>11, <1>15, <2>1, <2>4, ClosedKept
<1>16. ASSUME NEW k \in 1..Len(open), open[k].kind = "func"
       PROVE  \/ k \in 1..Len(open') /\ open'[k] = open[k]
              \/ /\ LeaveFunc /\ k = Len(open)
                 /\ \A e : e = open[k].p + 1 => Left(e)' /\ code'[e].a = Pos'
  <2>1. CASE k = Len(open)
    BY <1>1, <1>2, <1>5, <1>14, <2>1
  <2> QED
    BY <1>5, <2>1
<1>17. ASSUME NEW x \in DOMAIN functionName'
       PROVE  x \in 1..Pos' /\ (Left(x)' \/ \E k \in 1..Len(open') : OpenAt(k, x)')
  <2>1. x \in DOMAIN functionName /\ x \in 1..Pos /\ x \in 1..Pos'
    BY <1>1, <1>4, <1>17 DEF Bodies
  <2>2. CASE Left(x)
    BY <1>15, <2>1, <2>2
  <2>3. CASE \E k \in 1..Len(open) : OpenAt(k, x)
    <3>1. PICK k \in 1..Len(open) : OpenAt(k, x)
      BY <2>3
    <3>2. CASE k = Len(open)
      <4>1. x = p + 1
        BY <1>2, <1>5, <2>1, <3>1, <3>2 DEF OpenAt
      <4> QED
        BY <1>14, <2>1, <4>1
    <3>3. CASE k # Len(open)
      <4>1. k \in 1..Len(open') /\ OpenAt(k, x)'
        BY <1>5, <3>1, <3>3 DEF OpenAt
      <4> QED
        BY <2>1, <4>1
    <3> QED
      BY <3>2, <3>3
  <2> QED
    BY <2>1, <2>2, <2>3 DEF Bodies
<1> QED
  BY <1>13, <1>15, <1>16, <1>17 DEF Bodies, BodiesStay

LEMMA InitBodies ==
  ASSUME Init
  PROVE  Bodies
<1>1. open = <<>> /\ Len(open) = 0 /\ DOMAIN functionName = {}
  BY DEF Init, NoEntries
<1> QED
  BY <1>1 DEF Bodies

LEMMA NextBodies ==
  ASSUME Typed, Typed', LaidOut, Bodies, [Next]_cvars
  PROVE  Bodies' /\ BodiesStay
<1>1. \/ Plain \/ UserCall \/ EndReturn \/ EmptyReturn \/ EndRequire \/ Finish
      \/ Opens \/ EnterTry \/ (\E f \in Funcs : EnterFunc(f))
      \/ GoesOn \/ (\E x \in Names : EnterCatch(x))
      \/ Closes \/ LeaveFunc \/ LeaveCatch
  BY Steps DEF Simple, Plain, ExprStep, Computes
<1>2. CASE \E f \in Funcs : EnterFunc(f)
  BY <1>2, FuncEnteredBodies
<1>3. CASE LeaveFunc
  BY <1>3, FuncLeftBodies
<1>4. CASE ~(\E f \in Funcs : EnterFunc(f)) /\ ~LeaveFunc
  BY <1>1, <1>4, SimpleMoves, OpeningsMove, PartsMove, ClosingsMove, MovesInBodies
<1> QED
  BY <1>2, <1>3, <1>4

LEMMA AlwaysBodies == Spec => [](Typed /\ Finished /\ Bodies)
<1>1. Init => Bodies
  BY InitBodies
<1>2. Bodies /\ LaidOut /\ Typed /\ Typed' /\ [Next]_cvars => Bodies'
  BY NextBodies
<1>3. Spec => [](Typed /\ LaidOut /\ Finished)
  BY AlwaysLaid
<1> QED
  BY <1>1, <1>2, <1>3, PTL DEF Spec

(***************************************************************************)
(* However functions and branches are nested in one another, in whatever   *)
(* order jumps get their targets, no branch leads into a function's body   *)
(* or out of it, and a RET stands before the target of the jump over it    *)
(* (stmt.go:115 and :135, and the patches of everything nested in it).     *)
(***************************************************************************)
THEOREM BodiesClosed == Spec => []FunctionBodiesClosed
<1>1. Typed /\ Finished /\ Bodies => FunctionBodiesClosed
  <2> SUFFICES ASSUME Typed, Finished, Bodies, stage = "compiled",
                      NEW entry \in DOMAIN functionName
               PROVE  LET end  == code[entry].a
                          B == entry..(end - 1)
                      IN  /\ code[entry].op = "JMP" /\ entry < end /\ code[end].op = "RET"
                          /\ \A i \in DOMAIN code \ {entry} :
                               code[i].op \in {"JMP", "JMP_IF", "TRY"}
                                 => ((i - 1) \in B <=> code[i].a \in B)
    BY DEF FunctionBodiesClosed
  <2>1. Waiting(open) = {} /\ Pos \in Nat /\ DOMAIN code = 1..Pos /\ Len(open) = 0
    BY NothingWaits
  <2>2. PICK end : end = code[entry].a
    OBVIOUS
  <2>3. ClosedTo(entry, end)
    BY <2>1, <2>2 DEF Bodies, Left
  <2>4. \A i \in DOMAIN code \ {entry} : code[i].op \in {"JMP", "JMP_IF", "TRY"} =>
          i \in 1..Pos /\ i # entry /\ Bound(code, Waiting(open), i)
    BY <2>1 DEF Bound, Jumps
  <2>5. \A i \in DOMAIN code \ {entry} : code[i].op \in {"JMP", "JMP_IF", "TRY"} =>
          ((i - 1) \in entry..(end - 1) <=> code[i].a \in entry..(end - 1))
    BY <2>3, <2>4 DEF ClosedTo
  <2>6. code[entry].op = "JMP" /\ entry < end /\ code[end].op = "RET"
    BY <2>3 DEF ClosedTo
  <2> QED
    BY <2>2, <2>5, <2>6
<1> QED
  BY <1>1, AlwaysBodies, PTL

----------------------------------------------------------------------------
(* Slots. What a step does to the slots in use: it writes code and keeps   *)
(* names for the slots at hand, and for new ones.                          *)

\* The slots the expression being compiled, the names in scope and an open
\* statement may yet be compiled to.
Named == Range(symbols) \cup (IF expr.for = "assignment" THEN {expr.slot} ELSE {})
Kept(e) == Range(e.symbols) \cup (IF e.kind \in {"try", "object"} THEN {e.slot} ELSE {})

AtHand ==
  {0} \cup Named \cup (nextSlot..(nextSlot' - 1)) \cup (IF open = <<>> THEN {} ELSE Kept(Inner))

\* The code added uses no slots but those in H.
Writes(H) ==
  /\ Pos \in Nat /\ Pos <= Pos'
  /\ \A i \in 1..Pos : SlotsOf(code'[i]) = SlotsOf(code[i])
  /\ \A i \in 1..Pos' : i > Pos => SlotsOf(code'[i]) \subseteq H

SlotStep ==
  /\ nextSlot <= nextSlot'
  /\ Writes(AtHand)
  /\ Named' \subseteq AtHand
  /\ \A j \in 1..Len(open') :
       \/ j \in 1..Len(open) /\ open'[j] = open[j]
       \/ j = Len(open') /\ Kept(open'[j]) \subseteq AtHand

LEMMA SlotFree ==
  /\ \A op : op \notin {"SLOAD", "STORE", "TRY"} =>
       SlotsOf(Op(op)) = {} /\ SlotsOf(Hole(op)) = {} /\ \A a, b : SlotsOf(Instr(op, a, b)) = {}
  /\ \A v : SlotsOf(Const(v)) = {}
  /\ \A op \in {"SLOAD", "STORE"} : \A a, b : SlotsOf(Instr(op, a, b)) = {a}
  /\ \A a, b : SlotsOf(Instr("TRY", a, b)) = {b}
BY DEF SlotsOf, Instr, Op, Hole, Const

LEMMA Writing ==
  ASSUME CodeOK, NEW H, NEW T, \A x \in T : SlotsOf(x) \subseteq H, NEW s \in Seq(T), Emit(s)
  PROVE  Writes(H)
<1>1. /\ Pos \in Nat /\ Len(s) \in Nat /\ Pos' = Pos + Len(s) /\ KeepsBut({})
      /\ \A i \in 1..Pos' : i > Pos => i - Pos \in 1..Len(s) /\ code'[i] = s[i - Pos]
  BY Emitting
<1>2. \A i \in 1..Len(s) : s[i] \in T
  BY ElementOfSeq
<1>3. \A i \in 1..Pos : code'[i] = code[i]
  BY <1>1 DEF KeepsBut
<1> QED
  BY <1>1, <1>2, <1>3 DEF Writes

LEMMA WritesNothing ==
  ASSUME CodeOK, NEW H, UNCHANGED code
  PROVE  Writes(H)
<1>1. Pos \in Nat /\ Pos' = Pos
  BY LenProperties DEF CodeOK, Pos
<1> QED
  BY <1>1 DEF Writes

LEMMA WritesOne ==
  ASSUME CodeOK, NEW H, NEW x, SlotsOf(x) \subseteq H, Emit(<<x>>)
  PROVE  Writes(H)
<1>1. <<x>> \in Seq({x}) /\ \A y \in {x} : SlotsOf(y) \subseteq H
  OBVIOUS
<1> QED
  BY <1>1, Writing

LEMMA WritesTwo ==
  ASSUME CodeOK, NEW H, NEW x, NEW y, Emit(<<x, y>>),
         SlotsOf(x) \subseteq H, SlotsOf(y) \subseteq H
  PROVE  Writes(H)
<1>1. <<x, y>> \in Seq({x, y}) /\ \A z \in {x, y} : SlotsOf(z) \subseteq H
  OBVIOUS
<1> QED
  BY <1>1, Writing

LEMMA WritesThree ==
  ASSUME CodeOK, NEW H, NEW x, NEW y, NEW z, Emit(<<x, y, z>>),
         SlotsOf(x) \subseteq H, SlotsOf(y) \subseteq H, SlotsOf(z) \subseteq H
  PROVE  Writes(H)
<1>1. <<x, y, z>> \in Seq({x, y, z}) /\ \A w \in {x, y, z} : SlotsOf(w) \subseteq H
  OBVIOUS
<1> QED
  BY <1>1, Writing

LEMMA WritesFour ==
  ASSUME CodeOK, NEW H, NEW x, NEW y, NEW z, NEW u, Emit(<<x, y, z, u>>),
         SlotsOf(x) \subseteq H, SlotsOf(y) \subseteq H, SlotsOf(z) \subseteq H,
         SlotsOf(u) \subseteq H
  PROVE  Writes(H)
<1>1. <<x, y, z, u>> \in Seq({x, y, z, u}) /\ \A w \in {x, y, z, u} : SlotsOf(w) \subseteq H
  OBVIOUS
<1> QED
  BY <1>1, Writing

\* A jump that is given its target uses the slots it did.
LEMMA PatchedSlots ==
  ASSUME NEW c \in Seq(Emitted), NEW p \in Nat, NEW t \in Nat, c[p + 1].op \in Jumps
  PROVE  \A i \in 1..Len(c) : SlotsOf(Patched(c, p, t)[i]) = SlotsOf(c[i])
<1>1. Len(c) \in Nat /\ DOMAIN c = 1..Len(c) /\ c \in [1..Len(c) -> Emitted]
  BY LenProperties
<1> SUFFICES ASSUME NEW i \in 1..Len(c) PROVE SlotsOf(Patched(c, p, t)[i]) = SlotsOf(c[i])
  OBVIOUS
<1>2. c[i] \in Emitted
  BY <1>1
<1>3. CASE i = p + 1
  <2>1. Patched(c, p, t)[i] = [c[i] EXCEPT !.a = t]
    BY <1>1, <1>3 DEF Patched
  <2>2. PICK e, d : e = c[i] /\ d = [e EXCEPT !.a = t]
    OBVIOUS
  <2>3. e.op \in Jumps /\ d.op = e.op /\ d.b = e.b
    BY <1>2, <1>3, <2>2 DEF Emitted
  <2>4. SlotsOf(d) = SlotsOf(e)
    BY <2>3 DEF SlotsOf, Jumps
  <2> QED
    BY <2>1, <2>2, <2>4
<1>4. CASE i # p + 1
  BY <1>4, Patching
<1> QED
  BY <1>3, <1>4

LEMMA LookedUp ==
  ASSUME Typed, Slots, nextSlot <= Byte
  PROVE  /\ \A x : Lookup(symbols, x, 0) % Byte \in {0} \cup Range(symbols)
         /\ \A s \in Range(symbols) : s \in 1..(nextSlot - 1) /\ s % Byte = s
         /\ \A k \in 1..Len(open) : \A s \in Range(open[k].symbols) : s \in 1..(nextSlot - 1)
<1>1. nextSlot \in Nat \ {0} /\ Byte \in Nat \ {0}
  BY Limits DEF Typed, ScopeTyped
<1>2. \A s \in 0..(nextSlot - 1) : s % Byte = s
  BY <1>1, Modulo
<1>3. \A s \in Range(symbols) : s \in 1..(nextSlot - 1)
  BY DEF Slots, BindsIn, Binds, Range
<1>4. \A k \in 1..Len(open) : \A s \in Range(open[k].symbols) : s \in 1..(nextSlot - 1)
  BY DEF Slots, BindsIn, OpenBinds, Binds, Range
<1>5. \A s \in 1..(nextSlot - 1) : s \in 0..(nextSlot - 1)
  BY <1>1
<1>6. \A x : Lookup(symbols, x, 0) \in {0} \cup Range(symbols)
  BY DEF Lookup, Range
<1>7. 0 \in 0..(nextSlot - 1)
  BY <1>1
<1> QED
  BY <1>2, <1>3, <1>4, <1>5, <1>6, <1>7

LEMMA ComputesWrites ==
  ASSUME CodeOK, Computes, NEW H, 0 \in H, \A x : Lookup(symbols, x, 0) % Byte \in H
  PROVE  Writes(H)
<1>1. CASE Number
  BY <1>1, WritesOne, SlotFree DEF Number
<1>2. CASE LargeNumber
  BY <1>2, WritesOne, SlotFree DEF LargeNumber
<1>3. CASE Literal
  <2>1. CASE \E op \in {"TRUE", "FALSE", "NULL", "PUSH_OBJECT"} : Emit(<<Op(op)>>)
    BY <2>1, WritesOne, SlotFree
  <2>2. CASE Emit(<<Instr("SLOAD", 0, 0)>>)
    BY <2>2, WritesOne, SlotFree
  <2> QED
    BY <1>3, <2>1, <2>2 DEF Literal
<1>4. CASE Symbol
  BY <1>4, WritesOne, SlotFree DEF Symbol
<1>5. CASE IncDec
  <2>1. PICK x \in Names, op \in {"ADD", "SUB"} :
          Emit(<<Instr("SLOAD", Lookup(symbols, x, 0) % Byte, 0), Instr("PUSH", 1, 0), Op(op),
                 Instr("STORE", Lookup(symbols, x, 0) % Byte, 0)>>)
    BY <1>5 DEF IncDec
  <2>2. /\ SlotsOf(Instr("SLOAD", Lookup(symbols, x, 0) % Byte, 0)) \subseteq H
        /\ SlotsOf(Instr("PUSH", 1, 0)) \subseteq H /\ SlotsOf(Op(op)) \subseteq H
        /\ SlotsOf(Instr("STORE", Lookup(symbols, x, 0) % Byte, 0)) \subseteq H
    BY SlotFree
  <2> QED
    BY <2>1, <2>2, WritesFour
<1>6. CASE Binary
  <2>1. PICK operator \in Operators : Emit(BinaryCode(operator))
    BY <1>6 DEF Binary
  <2>2. CASE operator = "+"
    <3>1. Emit(<<Op("SWAP"), Op("ADD")>>)
      BY <2>1, <2>2 DEF BinaryCode
    <3> QED
      BY <3>1, WritesTwo, SlotFree
  <2>3. CASE operator = "%"
    <3>1. code' = code \o <<>>
      BY <2>1, <2>3 DEF BinaryCode, Emit
    <3>2. code' = code
      BY <3>1, ConcatEmptySeq DEF CodeOK
    <3> QED
      BY <3>2, WritesNothing
  <2>4. CASE operator \notin {"+", "%"}
    <3>1. PICK op \in {"SUB", "MUL", "DIV", "GT", "LT", "EQ", "GT_EQ", "LT_EQ", "DIFF", "AND",
                       "OR"} : BinaryCode(operator) = <<Op(op)>>
      BY <2>4 DEF BinaryCode, Operators
    <3> QED
      BY <2>1, <3>1, WritesOne, SlotFree
  <2> QED
    BY <2>2, <2>3, <2>4
<1>7. CASE Prefix
  <2>1. CASE Emit(<<Op("NOT")>>)
    BY <2>1, WritesOne, SlotFree
  <2>2. CASE Emit(<<Instr("PUSH", 0, 0), Op("SWAP"), Op("SUB")>>)
    BY <2>2, WritesThree, SlotFree
  <2> QED
    BY <1>7, <2>1, <2>2 DEF Prefix
<1>8. CASE PrintCall
  BY <1>8, WritesOne, SlotFree DEF PrintCall
<1>9. CASE Operation
  <2>1. CASE \E op \in {"ACCESS", "LENGTH", "CONTAINS", "NONCE", "HASH"}, a \in Nat :
               Emit(<<Instr(op, a, 0)>>)
    BY <2>1, WritesOne, SlotFree
  <2>2. CASE UNCHANGED code
    BY <2>2, WritesNothing
  <2> QED
    BY <1>9, <2>1, <2>2 DEF Operation, Op
<1>10. CASE WithConstant
  <2>1. CASE Emit(<<Const(Key), Op("GET_PROPERTY")>>)
    BY <2>1, WritesTwo, SlotFree
  <2>2. CASE Emit(<<Instr("GET_ENV", Const(Tree).a, 0)>>)
    BY <2>2, WritesOne, SlotFree
  <2> QED
    BY <1>10, <2>1, <2>2 DEF WithConstant
<1>11. CASE ArrayLiteral
  BY <1>11, WritesOne, SlotFree DEF ArrayLiteral
<1>12. CASE ErrorExpr
  <2>1. PICK k, o, u, p : /\ k = Const(Key) /\ o = Op("PUSH_OBJECT") /\ u = Instr("PUSH", 1, 0)
                          /\ p = Op("SET_PROPERTY")
    OBVIOUS
  <2>2. Emit(<<o, k, u, p, k, k, p>>) \/ Emit(<<o, k, u, p>>)
    BY <1>12, <2>1 DEF ErrorExpr
  <2>3. \A i \in {k, o, u, p} : SlotsOf(i) \subseteq H
    BY <2>1, SlotFree
  <2>4. <<o, k, u, p, k, k, p>> \in Seq({k, o, u, p}) /\ <<o, k, u, p>> \in Seq({k, o, u, p})
    OBVIOUS
  <2> QED
    BY <2>2, <2>3, <2>4, Writing
<1> QED
  BY <1>1, <1>2, <1>3, <1>4, <1>5, <1>6, <1>7, <1>8, <1>9, <1>10, <1>11, <1>12 DEF Computes

LEMMA LabelWrites ==
  ASSUME NEW H, \A x : Lookup(symbols, x, 0) % Byte \in H, NEW v, NEW i \in Labels(v)
  PROVE  SlotsOf(i) \subseteq H
<1>1. CASE i = Const(v)
  BY <1>1, SlotFree
<1>2. CASE \E n \in Numbers : i = Instr("PUSH", n % Byte, 0)
  BY <1>2, SlotFree
<1>3. CASE \E x \in Names : i = Instr("SLOAD", Lookup(symbols, x, 0) % Byte, 0)
  BY <1>3, SlotFree
<1> QED
  BY <1>1, <1>2, <1>3 DEF Labels

LEMMA SimpleWrites ==
  ASSUME Typed, Simple, NEW H, 0 \in H, nextSlot % Byte \in H \/ nextSlot' = nextSlot,
         \A x : Lookup(symbols, x, 0) % Byte \in H,
         expr.for = "assignment" => expr.slot % Byte \in H
  PROVE  Writes(H)
<1>0. CodeOK /\ nextSlot \in Nat
  BY DEF Typed, ScopeTyped
<1>1. CASE Computes
  BY <1>0, <1>1, ComputesWrites
<1>2. CASE UserCall
  <2>1. PICK a : Emit(<<Instr("CALL", a, 0)>>)
    BY <1>2 DEF UserCall
  <2> QED
    BY <1>0, <2>1, WritesOne, SlotFree
<1>3. CASE \/ BeginExpressionStmt \/ EndExpressionStmt \/ (\E x \in Names : BeginAssign(x))
           \/ BeginReturn \/ BeginRequire \/ BeginIf \/ BeginWhile \/ BeginForCondition
           \/ CompilerPanics \/ UNCHANGED cvars
  <2>1. UNCHANGED code
    BY <1>3 DEF BeginExpressionStmt, EndExpressionStmt, BeginAssign, BeginReturn, BeginRequire,
                BeginIf, BeginWhile, BeginForCondition, CompilerPanics, cvars
  <2> QED
    BY <1>0, <2>1, WritesNothing
<1>4. ASSUME NEW x \in Names, NEW isConst \in BOOLEAN, BeginVarDecl(x, isConst)
      PROVE  Writes(H)
  <2>1. CASE UNCHANGED code
    BY <1>0, <2>1, WritesNothing
  <2>2. CASE Emit(<<Const(Message), Op("ERR")>>)
    BY <1>0, <2>2, WritesTwo, SlotFree
  <2> QED
    BY <1>4, <2>1, <2>2 DEF BeginVarDecl
<1>5. CASE EndVarDecl
  <2>1. Emit(<<Instr("STORE", nextSlot % Byte, 0)>>) /\ nextSlot' = nextSlot + 1
    BY <1>5 DEF EndVarDecl, AllocSlot
  <2>2. nextSlot % Byte \in H
    BY <1>0, <2>1
  <2> QED
    BY <1>0, <2>1, <2>2, WritesOne, SlotFree
<1>6. ASSUME NEW x \in Names, AssignConstant(x)
      PROVE  Writes(H)
  BY <1>0, <1>6, WritesTwo, SlotFree DEF AssignConstant
<1>7. CASE EndAssign
  BY <1>0, <1>7, WritesOne, SlotFree DEF EndAssign, Ends
<1>8. CASE BeginMemberAssign
  <2>1. ASSUME NEW a \in H, Emit(<<Instr("SLOAD", a, 0), Const(Key)>>)
        PROVE  Writes(H)
    BY <1>0, <2>1, WritesTwo, SlotFree
  <2>2. CASE Emit(<<Const(Key)>>)
    BY <1>0, <2>2, WritesOne, SlotFree
  <2> QED
    BY <1>8, <2>1, <2>2 DEF BeginMemberAssign
<1>9. CASE BeginField
  BY <1>0, <1>9, WritesOne, SlotFree DEF BeginField
<1>10. CASE EndField \/ EndEmit
  BY <1>0, <1>10, WritesOne, SlotFree DEF EndField, EndEmit
<1>11. CASE BeginEmit
  <2>1. PICK i \in Labels(EventName) : Emit(<<i>>)
    BY <1>11 DEF BeginEmit
  <2>2. SlotsOf(i) \subseteq H
    BY LabelWrites
  <2> QED
    BY <1>0, <2>1, <2>2, WritesOne
<1>12. CASE EndReturn \/ EmptyReturn
  <2>1. PICK op \in {"RET", "PRINT"} : Emit(<<Op(op)>>)
    BY <1>12 DEF EndReturn, EmptyReturn, ReturnCode
  <2> QED
    BY <1>0, <2>1, WritesOne, SlotFree
<1>13. CASE EndRequire
  <2> PICK k \in Labels(Message) : Emit(RequireEnd(k))
    BY <1>13 DEF EndRequire
  <2>1. PICK i, j, l : i = Instr("JMP_IF", Pos + 2, 0) /\ j = Instr("JMP", Pos + 4, 0) /\ l = Op("ERR")
    OBVIOUS
  <2>2. Emit(<<i, j, k, l>>)
    BY <2>1 DEF RequireEnd
  <2>3. SlotsOf(i) = {} /\ SlotsOf(j) = {} /\ SlotsOf(k) \subseteq H /\ SlotsOf(l) = {}
    <3>1. SlotsOf(k) \subseteq H
      BY LabelWrites
    <3> QED
      BY <2>1, <3>1, SlotFree
  <2> QED
    BY <1>0, <2>2, <2>3, WritesFour
<1>14. CASE Finish
  BY <1>0, <1>14, WritesOne, SlotFree DEF Finish
<1> QED
  BY <1>1, <1>2, <1>3, <1>4, <1>5, <1>6, <1>7, <1>8, <1>9, <1>10, <1>11, <1>12, <1>13, <1>14
     DEF Simple, ExprStep, Computes

\* The slots in use have been given out.
InUse ==
  /\ \A s \in Named : s \in 0..(nextSlot - 1)
  /\ \A k \in 1..Len(open) : \A s \in Kept(open[k]) : s \in 0..(nextSlot - 1)
  /\ \A i \in 1..Pos : \A s \in SlotsOf(code[i]) : s \in 0..(nextSlot - 1)

LEMMA NewSlots ==
  ASSUME nextSlot \in Nat \ {0}, NEW x, NewName(x) \/ AllocSlot(x)
  PROVE  /\ nextSlot' \in Nat /\ nextSlot <= nextSlot'
         /\ AllocSlot(x) => nextSlot \in nextSlot..(nextSlot' - 1)
         /\ Range(symbols') \subseteq Range(symbols) \cup (nextSlot..(nextSlot' - 1))
         /\ NewName(x) => GetSlot(x) \in Range(symbols')
<1>1. CASE AllocSlot(x)
  <2>1. symbols' = Put(symbols, x, nextSlot) /\ nextSlot' = nextSlot + 1
    BY <1>1 DEF AllocSlot
  <2>2. nextSlot \in nextSlot..(nextSlot' - 1) /\ nextSlot' \in Nat /\ nextSlot <= nextSlot'
    BY <2>1
  <2>3. Range(symbols') \subseteq Range(symbols) \cup {nextSlot} /\ nextSlot \in Range(symbols')
    BY <2>1 DEF Put, Range
  <2>4. NewName(x) => x \notin DOMAIN symbols
    <3>1. nextSlot' # nextSlot
      BY <2>1
    <3> QED
      BY <3>1 DEF NewName
  <2>5. x \notin DOMAIN symbols => GetSlot(x) = nextSlot
    BY DEF GetSlot, Lookup
  <2> QED
    BY <1>1, <2>2, <2>3, <2>4, <2>5
<1>2. CASE NewName(x) /\ ~AllocSlot(x)
  <2>1. x \in DOMAIN symbols /\ UNCHANGED <<symbols, nextSlot>>
    BY <1>2 DEF NewName
  <2>2. GetSlot(x) \in Range(symbols')
    BY <2>1 DEF GetSlot, Lookup, Range
  <2> QED
    BY <1>2, <2>1, <2>2
<1> QED
  BY <1>1, <1>2

\* What an assignment is compiled to.
LEMMA SimpleAssigns ==
  ASSUME Typed, Simple, expr'.for = "assignment"
  PROVE  \/ expr.for = "assignment" /\ expr'.slot = expr.slot
         \/ expr'.slot \in Range(symbols')
<1>1. CASE ExprStep
  <2>1. PICK n : Built(n)
    BY <1>1 DEF ExprStep, Number, LargeNumber, Literal, Symbol, IncDec, Binary, Prefix, UserCall,
       PrintCall, Operation, WithConstant, ArrayLiteral, ErrorExpr, Leaf
  <2>2. expr \in Exprs
    BY DEF Typed, ExprOK
  <2>3. PICK d : expr' = [expr EXCEPT !.depth = d]
    BY <2>1 DEF Built
  <2> QED
    BY <2>2, <2>3 DEF Exprs
<1>2. ASSUME NEW x \in Names, BeginAssign(x) PROVE expr'.slot \in Range(symbols')
  <2>1. NewName(x) /\ expr' = Expr("assignment", x, GetSlot(x)) /\ nextSlot \in Nat \ {0}
    BY <1>2 DEF BeginAssign, Typed, ScopeTyped
  <2>2. GetSlot(x) \in Range(symbols')
    BY <2>1, NewSlots
  <2> QED
    BY <2>1, <2>2 DEF Expr
<1>3. CASE \E x \in Names, isConst \in BOOLEAN : BeginVarDecl(x, isConst)
  BY <1>3, ExprFields DEF BeginVarDecl
<1>4. CASE \/ BeginMemberAssign \/ BeginField \/ BeginExpressionStmt \/ BeginReturn \/ BeginEmit
           \/ BeginRequire \/ BeginIf \/ BeginWhile \/ BeginForCondition
  <2>1. PICK for \in {"field", "statement", "return", "event", "condition", "if", "while", "for"},
             slot \in {0, Pos} : expr' = Expr(for, "", slot)
    BY <1>4 DEF BeginMemberAssign, BeginField, BeginExpressionStmt, BeginReturn, BeginEmit,
       BeginRequire, BeginIf, BeginWhile, BeginForCondition
  <2> QED
    BY <2>1, ExprFields
<1>5. CASE EndExpressionStmt \/ EndVarDecl \/ EndAssign \/ EndField \/ EndReturn \/ EndEmit
             \/ EndRequire
  BY <1>5, ExprFields DEF EndExpressionStmt, EndVarDecl, EndAssign, EndField, EndReturn, EndEmit,
       EndRequire
<1>6. CASE (\E x \in Names : AssignConstant(x)) \/ EmptyReturn \/ Finish \/ CompilerPanics
             \/ UNCHANGED cvars
  BY <1>6 DEF AssignConstant, EmptyReturn, Finish, CompilerPanics, cvars
<1> QED
  BY <1>1, <1>2, <1>3, <1>4, <1>5, <1>6 DEF Simple

LEMMA ByteSlots ==
  ASSUME NEW n \in Nat \ {0}, NEW m \in Nat, n <= m, m <= Byte
  PROVE  /\ n <= Byte
         /\ \A s \in 0..(n - 1) : s % Byte = s
         /\ \A s \in n..(m - 1) : s % Byte = s
<1>1. Byte \in Nat \ {0}
  BY Limits
<1>2. ASSUME NEW s \in 0..(m - 1) PROVE s % Byte = s
  <2>1. s \in Nat /\ s < Byte
    BY <1>1
  <2> QED
    BY <1>1, <2>1, Modulo
<1>3. /\ \A s \in 0..(n - 1) : s \in 0..(m - 1)
      /\ \A s \in n..(m - 1) : s \in 0..(m - 1)
  OBVIOUS
<1> QED
  BY <1>1, <1>2, <1>3

LEMMA HandFits ==
  ASSUME Typed, Typed', Slots, InUse, nextSlot <= nextSlot', nextSlot' <= Byte
  PROVE  /\ nextSlot \in Nat \ {0} /\ nextSlot <= Byte
         /\ 0 \in AtHand /\ \A x : Lookup(symbols, x, 0) % Byte \in AtHand
         /\ \A s \in Named : s % Byte \in AtHand
         /\ \A s \in Range(symbols) : s \in AtHand
         /\ \A s \in nextSlot..(nextSlot' - 1) : s \in AtHand /\ s % Byte \in AtHand
         /\ open # <<>> => \A s \in Kept(Inner) : s \in AtHand /\ s % Byte \in AtHand
<1>1. nextSlot \in Nat \ {0} /\ nextSlot' \in Nat /\ Byte \in Nat \ {0}
  BY Limits DEF Typed, ScopeTyped
<1>2. /\ nextSlot <= Byte
      /\ \A s \in 0..(nextSlot - 1) : s % Byte = s
      /\ \A s \in nextSlot..(nextSlot' - 1) : s % Byte = s
  BY <1>1, ByteSlots
<1>4. 0 \in AtHand /\ Named \subseteq AtHand /\ nextSlot..(nextSlot' - 1) \subseteq AtHand
      /\ (open # <<>> => Kept(Inner) \subseteq AtHand)
  BY DEF AtHand
<1>5. Range(symbols) \subseteq Named
  BY DEF Named
<1>6. \A x : Lookup(symbols, x, 0) % Byte \in AtHand
  BY <1>2, <1>4, <1>5, LookedUp
<1>7. \A s \in Named : s % Byte \in AtHand
  BY <1>2, <1>4 DEF InUse
<1>8. ASSUME open # <<>> PROVE \A s \in Kept(Inner) : s % Byte \in AtHand
  <2>1. Inner = open[Len(open)] /\ Len(open) \in 1..Len(open)
    BY <1>8, InnerIsPlaced DEF Typed
  <2> QED
    BY <1>2, <1>4, <1>8, <2>1 DEF InUse
<1> QED
  BY <1>1, <1>2, <1>4, <1>5, <1>6, <1>7, <1>8

LEMMA SimpleSlots ==
  ASSUME Typed, Typed', Slots, InUse, nextSlot' <= Byte, Simple
  PROVE  SlotStep
<1>1. UNCHANGED open /\ nextSlot \in Nat \ {0}
  BY SimpleSteps DEF Typed, ScopeTyped
<1>2. /\ nextSlot' \in Nat /\ nextSlot <= nextSlot'
      /\ Range(symbols') \subseteq Range(symbols) \cup (nextSlot..(nextSlot' - 1))
      /\ nextSlot' = nextSlot \/ nextSlot \in nextSlot..(nextSlot' - 1)
  <2>1. CASE UNCHANGED <<symbols, nextSlot>>
    BY <1>1, <2>1
  <2>2. CASE \E x : NewName(x) \/ AllocSlot(x)
    <3>1. PICK x : NewName(x) \/ AllocSlot(x)
      BY <2>2
    <3>2. CASE UNCHANGED <<symbols, nextSlot>>
      BY <1>1, <3>2
    <3>3. CASE AllocSlot(x)
      BY <1>1, <3>3, NewSlots
    <3> QED
      BY <3>1, <3>2, <3>3 DEF NewName
  <2> QED
    BY <2>1, <2>2, SimpleScope
<1>3. /\ 0 \in AtHand /\ \A x : Lookup(symbols, x, 0) % Byte \in AtHand
      /\ \A s \in Named : s % Byte \in AtHand
      /\ \A s \in Range(symbols) : s \in AtHand
      /\ \A s \in nextSlot..(nextSlot' - 1) : s \in AtHand /\ s % Byte \in AtHand
  BY <1>2, HandFits
<1>4. Writes(AtHand)
  <2>1. expr.for = "assignment" => expr.slot % Byte \in AtHand
    BY <1>3 DEF Named
  <2>2. nextSlot % Byte \in AtHand \/ nextSlot' = nextSlot
    BY <1>2, <1>3
  <2>3. PICK H : H = AtHand
    OBVIOUS
  <2> QED
    BY <1>3, <2>1, <2>2, <2>3, SimpleWrites
<1>5. Range(symbols') \subseteq AtHand
  BY <1>2, <1>3
<1>6. expr'.for = "assignment" => expr'.slot \in AtHand
  BY <1>5, SimpleAssigns DEF Named, AtHand
<1>7. Named' \subseteq AtHand
  BY <1>5, <1>6 DEF Named
<1> QED
  BY <1>1, <1>2, <1>4, <1>7 DEF SlotStep

\* The code while a construct is closed, as far as its slots go.
NoNewSlots(c) ==
  /\ c \in Seq(Emitted) /\ Pos <= Len(c)
  /\ \A i \in 1..Pos : c[i].op = code[i].op /\ SlotsOf(c[i]) = SlotsOf(code[i])
  /\ \A i \in 1..Len(c) : i > Pos => SlotsOf(c[i]) = {}

LEMMA NoSlotsYet ==
  ASSUME CodeOK
  PROVE  NoNewSlots(code)
<1>1. Pos \in Nat /\ Pos = Len(code) /\ code \in Seq(Emitted)
  BY LenProperties DEF CodeOK, Pos
<1> QED
  BY <1>1 DEF NoNewSlots

LEMMA NoSlotsAppended ==
  ASSUME Typed, NEW op \in {"RET", "JMP"}, NEW a \in Nat
  PROVE  NoNewSlots(Append(code, Instr(op, a, 0)))
<1>1. PICK c : c = Append(code, Instr(op, a, 0))
  OBVIOUS
<1>2. /\ c \in Seq(Emitted) /\ Pos \in Nat /\ Len(c) = Pos + 1
      /\ \A i \in 1..Pos : c[i] = code[i]
      /\ c[Pos + 1] = Instr(op, a, 0)
  BY <1>1, LeftAppended
<1>3. SlotsOf(c[Pos + 1]) = {}
  <2>1. op \notin {"SLOAD", "STORE", "TRY"}
    OBVIOUS
  <2>2. SlotsOf(Instr(op, a, 0)) = {}
    BY <2>1, SlotFree
  <2> QED
    BY <1>2, <2>2
<1>4. \A i \in 1..Len(c) : i > Pos => i = Pos + 1
  BY <1>2
<1>5. Pos <= Len(c)
  BY <1>2
<1>6. NoNewSlots(c)
  BY <1>2, <1>3, <1>4, <1>5 DEF NoNewSlots
<1> QED
  BY <1>1, <1>6

LEMMA NoSlotsPatched ==
  ASSUME CodeOK, NEW c, NoNewSlots(c), NEW p \in Nat, HoleAt(code, p), NEW t \in Nat
  PROVE  NoNewSlots(Patched(c, p, t))
<1>1. PICK d : d = Patched(c, p, t)
  OBVIOUS
<1>2. Pos \in Nat /\ Len(c) \in Nat /\ c \in Seq(Emitted) /\ Pos <= Len(c) /\ Pos = Len(code)
  BY LenProperties DEF CodeOK, NoNewSlots, Pos
<1>3. p + 1 \in 1..Pos /\ c[p + 1].op \in Jumps
  BY <1>2 DEF HoleAt, NoNewSlots
<1>4. d \in Seq(Emitted) /\ Len(d) = Len(c) /\ \A i \in 1..Len(c) : d[i].op = c[i].op
  BY <1>1, <1>2, Patching
<1>5. \A i \in 1..Len(c) : SlotsOf(d[i]) = SlotsOf(c[i])
  BY <1>1, <1>2, <1>3, PatchedSlots
<1>6. \A i \in 1..Pos : i \in 1..Len(c)
  BY <1>2
<1> QED
  BY <1>1, <1>2, <1>4, <1>5, <1>6 DEF NoNewSlots

LEMMA NoSlotsWritten ==
  ASSUME CodeOK, NoNewSlots(code'), NEW H
  PROVE  Writes(H)
<1>1. Pos \in Nat /\ Pos' = Len(code')
  BY LenProperties DEF CodeOK, Pos
<1> QED
  BY <1>1 DEF NoNewSlots, Writes

LEMMA ClosingWrites ==
  ASSUME Typed, Closes \/ LeaveFunc \/ LeaveCatch, NEW H,
         Inside("object") => Inner.slot % Byte \in H
  PROVE  Writes(H)
<1>1. CodeOK /\ open # <<>> /\ Pos \in Nat
  BY ClosingSteps, LenProperties DEF Typed, LeaveFunc, LeaveCatch, Inside, CodeOK, Pos
<1>2. PICK e : e = Inner /\ e \in Statements /\ Placed(code, e)
  BY <1>1, InnerIsPlaced DEF Typed
<1>3. e.p \in Nat /\ e.q \in Nat /\ e.r \in Nat /\ Pos + 1 \in Nat /\ 0 \in Nat
  BY <1>1, <1>2 DEF Statements
<1>4. CASE LeaveIf \/ LeaveCatch
  <2>1. CASE e.kind = "then"
    <3>1. code' = Patched(code, e.p, Pos) /\ HoleAt(code, e.p)
      BY <1>2, <1>4, <2>1 DEF LeaveIf, LeaveCatch, Inside, Placed
    <3> QED
      BY <1>1, <1>3, <3>1, NoSlotsYet, NoSlotsPatched, NoSlotsWritten
  <2>2. CASE e.kind \in {"else", "catch"}
    <3>1. /\ code' = Patched(Patched(code, e.p, e.r), e.q, Pos)
          /\ HoleAt(code, e.p) /\ HoleAt(code, e.q)
      BY <1>2, <1>4, <2>2 DEF LeaveIf, LeaveCatch, CatchEnd, Inside, Placed
    <3>2. NoNewSlots(Patched(code, e.p, e.r))
      BY <1>1, <1>3, <3>1, NoSlotsYet, NoSlotsPatched
    <3> QED
      BY <1>1, <1>3, <3>1, <3>2, NoSlotsPatched, NoSlotsWritten
  <2> QED
    BY <1>2, <1>4, <2>1, <2>2 DEF LeaveIf, LeaveCatch, Inside
<1>5. CASE LeaveWhile \/ LeaveFor
  <2>1. PICK t \in {e.p, e.r} : code' = Patched(Append(code, Instr("JMP", t, 0)), e.q, Pos + 1)
    BY <1>2, <1>5 DEF LeaveWhile, LeaveFor, LoopEnd
  <2>2. HoleAt(code, e.q)
    BY <1>2, <1>5 DEF LeaveWhile, LeaveFor, Inside, Placed
  <2>3. NoNewSlots(Append(code, Instr("JMP", t, 0)))
    BY <1>3, NoSlotsAppended
  <2> QED
    BY <1>1, <1>3, <2>1, <2>2, <2>3, NoSlotsPatched, NoSlotsWritten
<1>6. CASE LeaveFunc
  <2>1. code' = Patched(Append(code, Instr("RET", 0, 0)), e.p, Pos + 1) /\ HoleAt(code, e.p)
    BY <1>2, <1>6 DEF LeaveFunc, FuncEnd, Op, Inside, Placed
  <2>2. NoNewSlots(Append(code, Instr("RET", 0, 0)))
    BY <1>3, NoSlotsAppended
  <2> QED
    BY <1>1, <1>3, <2>1, <2>2, NoSlotsPatched, NoSlotsWritten
<1>7. CASE EndObject
  BY <1>1, <1>7, WritesTwo, SlotFree DEF EndObject
<1> QED
  BY <1>4, <1>5, <1>6, <1>7 DEF Closes

LEMMA OpeningWrites ==
  ASSUME Typed, NEW H,
         \/ Opens \/ GoesOn \/ (\E f \in Funcs : EnterFunc(f)) \/ (\E x \in Names : EnterCatch(x))
         \/ EnterTry /\ nextSlot % Byte \in H
  PROVE  Writes(H)
<1>1. CodeOK
  BY DEF Typed
<1>2. CASE EnterThen \/ EnterWhile \/ EnterElse \/ EnterFor \/ \E f \in Funcs : EnterFunc(f)
  <2>1. PICK op \in {"JMP", "JMP_IF"} : Emit(<<Hole(op)>>)
    BY <1>2 DEF EnterThen, EnterWhile, EnterElse, EnterFor, EnterFunc
  <2> QED
    BY <1>1, <2>1, WritesOne, SlotFree
<1>3. CASE BeginFor \/ EnterForPost
  BY <1>1, <1>3, WritesNothing DEF BeginFor, EnterForPost
<1>4. CASE \E x \in Names : BeginObject(x)
  BY <1>1, <1>4, WritesOne, SlotFree DEF BeginObject
<1>5. CASE \E x \in Names : EnterCatch(x)
  BY <1>1, <1>5, WritesTwo, SlotFree DEF EnterCatch, TryEnd
<1>6. CASE EnterTry /\ nextSlot % Byte \in H
  BY <1>1, <1>6, WritesOne, SlotFree DEF EnterTry
<1> QED
  BY <1>2, <1>3, <1>4, <1>5, <1>6 DEF Opens, GoesOn

\* A construct is entered, goes on or is left between two expressions, with the
\* slots at hand.
LEMMA StackSlots ==
  ASSUME Typed, expr'.for = "nothing", nextSlot <= nextSlot', Writes(AtHand),
         Range(symbols') \subseteq AtHand,
         \/ \E e \in Statements : open' = Append(open, e) /\ Kept(e) \subseteq AtHand
         \/ /\ open # <<>>
            /\ \/ open' = Front(open)
               \/ \E e \in Statements :
                    open' = [open EXCEPT ![Len(open)] = e] /\ Kept(e) \subseteq AtHand
  PROVE  SlotStep
<1>1. OpenOK
  BY DEF Typed
<1>2. Named' \subseteq AtHand
  BY DEF Named
<1>3. ASSUME NEW e \in Statements, open' = Append(open, e), Kept(e) \subseteq AtHand
      PROVE  SlotStep
  <2>1. /\ Len(open) \in Nat /\ Len(open') = Len(open) + 1
        /\ \A i \in 1..Len(open) : open'[i] = open[i]
        /\ open'[Len(open) + 1] = e
        /\ \A i \in 1..Len(open') : i \in 1..Len(open) \/ i = Len(open) + 1
    BY <1>1, <1>3, Pushed
  <2> QED
    BY <1>2, <1>3, <2>1 DEF SlotStep
<1>4. CASE open # <<>> /\ open' = Front(open)
  <2>1. /\ Len(open) \in Nat \ {0} /\ Len(open') = Len(open) - 1
        /\ \A i \in 1..(Len(open) - 1) : open'[i] = open[i]
    BY <1>1, <1>4, Popped
  <2>2. \A i \in 1..Len(open') : i \in 1..Len(open) /\ open'[i] = open[i]
    BY <2>1
  <2> QED
    BY <1>2, <2>2 DEF SlotStep
<1>5. ASSUME NEW e \in Statements, open # <<>>, open' = [open EXCEPT ![Len(open)] = e],
             Kept(e) \subseteq AtHand
      PROVE  SlotStep
  <2>1. /\ Len(open) \in Nat \ {0} /\ Len(open') = Len(open)
        /\ \A i \in 1..(Len(open) - 1) : open'[i] = open[i]
        /\ open'[Len(open)] = e
        /\ \A i \in 1..Len(open') : i \in 1..(Len(open) - 1) \/ i = Len(open)
    BY <1>1, <1>5, Changed
  <2>2. \A i \in 1..Len(open') :
          \/ i \in 1..Len(open) /\ open'[i] = open[i]
          \/ i = Len(open') /\ open'[i] = e
    BY <2>1
  <2> QED
    BY <1>2, <1>5, <2>2 DEF SlotStep
<1> QED
  BY <1>3, <1>4, <1>5

LEMMA KeptFields ==
  /\ Range(NoEntries) = {}
  /\ \A e : e.kind \notin {"try", "object"} => Kept(e) = Range(e.symbols)
  /\ \A e : e.kind \in {"try", "object"} => Kept(e) = Range(e.symbols) \cup {e.slot}
BY DEF Kept, Range, NoEntries

LEMMA OpeningSlots ==
  ASSUME Typed, Typed', Slots, InUse, nextSlot' <= Byte, Opens
  PROVE  SlotStep
<1>1. expr'.for = "nothing" /\ nextSlot \in Nat \ {0}
  BY BetweenExpressions DEF Typed, ScopeTyped
<1>2. /\ nextSlot <= nextSlot'
      /\ Range(symbols') \subseteq Range(symbols) \cup (nextSlot..(nextSlot' - 1))
  <2>1. CASE UNCHANGED <<symbols, nextSlot>>
    BY <1>1, <2>1
  <2>2. CASE \E x : NewName(x)
    BY <1>1, <2>2, NewSlots
  <2> QED
    BY <2>1, <2>2, OpeningScope
<1>3. Range(symbols') \subseteq AtHand /\ Writes(AtHand)
  BY <1>2, HandFits, OpeningWrites
<1>4. CASE EnterThen \/ EnterWhile \/ BeginFor
  <2>1. PICK e \in Statements :
          open' = Append(open, e) /\ e.kind \in {"then", "while", "for_init", "object"}
          /\ e.symbols = NoEntries /\ (e.kind = "object" => e.name \in DOMAIN symbols')
    BY OpeningSteps
  <2>2. \E d \in Statements : open' = Append(open, d) /\ d.kind # "object"
    <3>1. CASE EnterThen
      BY <3>1, ThenEntered DEF Enters
    <3>2. CASE EnterWhile
      BY <3>2, WhileEntered DEF Enters
    <3>3. CASE BeginFor
      BY <3>3, ForBegun
    <3> QED
      BY <1>4, <3>1, <3>2, <3>3
  <2>3. PICK d \in Statements : open' = Append(open, d) /\ d.kind # "object"
    BY <2>2
  <2>4. open'[Len(open) + 1] = d /\ open'[Len(open) + 1] = e
    BY <2>1, <2>3, Pushed DEF Typed
  <2>5. Kept(e) = {}
    BY <2>1, <2>3, <2>4, KeptFields
  <2> QED
    BY <1>1, <1>2, <1>3, <2>1, <2>5, StackSlots
<1>5. ASSUME NEW x \in Names, BeginObject(x) PROVE SlotStep
  <2>1. GetSlot(x) \in Range(symbols') /\ GetSlot(x) \in Nat /\ x \in NamesOrNone /\ Pos \in Nat
    BY <1>1, <1>5, NewSlots, SlotIsNat, LenProperties
       DEF BeginObject, Typed, CodeOK, NamesOrNone, Pos
  <2>2. PICK o : o = Open("object", Pos)
    OBVIOUS
  <2>3. PICK e : e = [o EXCEPT !.slot = GetSlot(x), !.name = x]
    OBVIOUS
  <2>4. o \in Statements /\ o.kind = "object" /\ o.symbols = NoEntries
    BY <2>1, <2>2, OpenIsTyped DEF OpenKinds
  <2>5. e \in Statements /\ e.kind = "object" /\ e.symbols = NoEntries /\ e.slot = GetSlot(x)
    BY <2>1, <2>3, <2>4 DEF Statements
  <2>6. open' = Append(open, e)
    BY <1>5, <2>2, <2>3 DEF BeginObject
  <2>7. Kept(e) = {GetSlot(x)}
    BY <2>5, KeptFields
  <2> QED
    BY <1>1, <1>2, <1>3, <2>1, <2>5, <2>6, <2>7, StackSlots
<1> QED
  BY <1>4, <1>5 DEF Opens

LEMMA PartsSlots ==
  ASSUME Typed, Typed', Slots, InUse, nextSlot' <= Byte,
         GoesOn \/ (\E x \in Names : EnterCatch(x))
  PROVE  SlotStep
<1>1. expr'.for = "nothing" /\ nextSlot' = nextSlot /\ nextSlot \in Nat \ {0}
  BY BetweenExpressions, GoingOnSteps DEF EnterCatch, scope, Typed, ScopeTyped
<1>2. nextSlot <= nextSlot'
  BY <1>1
<1>3. Writes(AtHand) /\ Range(symbols) \subseteq AtHand
      /\ (open # <<>> => Kept(Inner) \subseteq AtHand)
  BY <1>2, HandFits, OpeningWrites
<1>4. CASE GoesOn
  <2>1. /\ open # <<>> /\ Inner.kind \in {"then", "for_init", "for"} /\ UNCHANGED symbols
        /\ \E e \in Statements : /\ open' = [open EXCEPT ![Len(open)] = e]
                                 /\ e.kind \in {"else", "for", "for_post"}
                                 /\ e.symbols = Inner.symbols
    BY <1>4, GoingOnSteps DEF scope
  <2>2. PICK e \in Statements :
          /\ open' = [open EXCEPT ![Len(open)] = e]
          /\ e.kind \in {"else", "for", "for_post"} /\ e.symbols = Inner.symbols
    BY <2>1
  <2>3. Kept(e) = Kept(Inner)
    BY <2>1, <2>2, KeptFields
  <2> QED
    BY <1>1, <1>2, <1>3, <2>1, <2>2, <2>3, StackSlots
<1>5. ASSUME NEW x \in Names, EnterCatch(x) PROVE SlotStep
  <2>1. open # <<>> /\ Inner.kind = "try" /\ symbols' = Put(symbols, x, Inner.slot)
    BY <1>5, CatchRecord DEF EnterCatch
  <2>2. PICK e \in Statements :
          /\ open' = [open EXCEPT ![Len(open)] = e] /\ e.kind = "catch"
          /\ e.symbols = [y \in DOMAIN symbols \cap {x} |-> symbols[y]]
    BY <1>5, CatchRecord
  <2>3. Kept(e) \subseteq Range(symbols)
    <3>1. Kept(e) = Range(e.symbols)
      BY <2>2, KeptFields
    <3> QED
      BY <2>2, <3>1 DEF Range
  <2>4. Inner.slot \in AtHand
    BY <1>3, <2>1, KeptFields
  <2>5. Range(symbols') \subseteq Range(symbols) \cup {Inner.slot}
    BY <2>1 DEF Put, Range
  <2> QED
    BY <1>1, <1>2, <1>3, <2>1, <2>2, <2>3, <2>4, <2>5, StackSlots
<1> QED
  BY <1>4, <1>5

LEMMA ClosingSlots ==
  ASSUME Typed, Typed', Slots, InUse, nextSlot' <= Byte, Closes \/ LeaveFunc \/ LeaveCatch
  PROVE  SlotStep
<1>1. expr'.for = "nothing"
  BY BetweenExpressions
<1>2. open # <<>> /\ open' = Front(open) /\ nextSlot' = nextSlot /\ nextSlot \in Nat \ {0}
  BY ClosingSteps DEF LeaveFunc, LeaveCatch, Inside, scope, Typed, ScopeTyped
<1>3. nextSlot <= nextSlot'
  BY <1>2
<1>4. /\ Range(symbols) \subseteq AtHand
      /\ \A s \in Kept(Inner) : s \in AtHand /\ s % Byte \in AtHand
  BY <1>2, <1>3, HandFits
<1>5. Writes(AtHand)
  <2>1. Inside("object") => Inner.slot % Byte \in AtHand
    BY <1>4, KeptFields DEF Inside
  <2>2. PICK H : H = AtHand
    OBVIOUS
  <2> QED
    BY <2>1, <2>2, ClosingWrites
<1>6. Range(Inner.symbols) \subseteq AtHand
  BY <1>4 DEF Kept
<1>7. Range(symbols') \subseteq AtHand
  <2>1. CASE Closes
    BY <1>4, <2>1, ClosingSteps DEF scope
  <2>2. CASE LeaveFunc
    BY <1>6, <2>2 DEF LeaveFunc
  <2>3. CASE LeaveCatch
    <3>1. Range(symbols') \subseteq Range(symbols) \cup Range(Inner.symbols)
      BY <2>3 DEF LeaveCatch, WithoutCatchVar, Range
    <3> QED
      BY <1>4, <1>6, <3>1
  <2> QED
    BY <2>1, <2>2, <2>3
<1> QED
  BY <1>1, <1>2, <1>3, <1>5, <1>7, StackSlots

LEMMA TrySlots ==
  ASSUME Typed, Typed', Slots, InUse, nextSlot' <= Byte, EnterTry
  PROVE  SlotStep
<1>1. /\ expr'.for = "nothing" /\ nextSlot \in Nat \ {0}
      /\ symbols' = symbols /\ nextSlot' = nextSlot + 1
  BY BetweenExpressions DEF EnterTry, Typed, ScopeTyped
<1>2. nextSlot <= nextSlot' /\ nextSlot \in nextSlot..(nextSlot' - 1)
  BY <1>1
<1>3. /\ Range(symbols') \subseteq AtHand
      /\ nextSlot \in AtHand /\ nextSlot % Byte \in AtHand
  BY <1>1, <1>2, HandFits
<1>4. PICK H : H = AtHand
  OBVIOUS
<1>5. Writes(AtHand)
  BY <1>3, <1>4, OpeningWrites
<1>6. PICK e \in Statements :
        /\ open' = Append(open, e) /\ e.kind = "try" /\ e.slot = nextSlot
        /\ e.symbols = NoEntries
  BY TryRecord
<1>7. Kept(e) = {nextSlot}
  BY <1>6, KeptFields
<1> QED
  BY <1>1, <1>2, <1>3, <1>5, <1>6, <1>7, StackSlots

LEMMA FuncSlots ==
  ASSUME Typed, Typed', Slots, InUse, nextSlot' <= Byte, NEW f \in Funcs, EnterFunc(f)
  PROVE  SlotStep
<1>1. ScopeTyped /\ nextSlot \in Nat \ {0}
  BY DEF Typed, ScopeTyped
<1>2. PICK n \in Nat : n = Len(Params[f])
  BY <1>1, ParamsBound
<1>3. /\ expr'.for = "nothing" /\ symbols' = WithParams(f) /\ nextSlot' = nextSlot + n
  BY <1>2, BetweenExpressions DEF EnterFunc
<1>4. nextSlot <= nextSlot'
  BY <1>1, <1>3
<1>5. Writes(AtHand) /\ Range(symbols) \subseteq AtHand
      /\ nextSlot..(nextSlot' - 1) \subseteq AtHand
  BY <1>4, HandFits, OpeningWrites
<1>6. ASSUME NEW x \in DOMAIN symbols' PROVE symbols'[x] \in AtHand
  <2>1. CASE x \in Range(Params[f])
    <3>1. PICK i \in 1..n : symbols'[x] = nextSlot - 1 + i
      BY <1>1, <1>2, <1>3, <2>1, ParamsBound
    <3>2. nextSlot - 1 + i \in nextSlot..(nextSlot' - 1)
      BY <1>1, <1>3
    <3> QED
      BY <1>5, <3>1, <3>2
  <2>2. CASE x \notin Range(Params[f])
    <3>1. x \in DOMAIN symbols /\ symbols'[x] = symbols[x]
      BY <1>1, <1>3, <1>6, <2>2, ParamsBound
    <3> QED
      BY <1>5, <3>1 DEF Range
  <2> QED
    BY <2>1, <2>2
<1>7. Range(symbols') \subseteq AtHand
  BY <1>6 DEF Range
<1>8. PICK e \in Statements :
        open' = Append(open, e) /\ e.kind = "func" /\ e.symbols = symbols
  BY FuncRecord
<1>9. Kept(e) = Range(symbols)
  BY <1>8, KeptFields
<1> QED
  BY <1>3, <1>4, <1>5, <1>7, <1>8, <1>9, StackSlots

LEMMA NextSlotStep ==
  ASSUME Typed, Typed', Slots, InUse, nextSlot' <= Byte, [Next]_cvars
  PROVE  SlotStep
BY Steps, SimpleSlots, OpeningSlots, PartsSlots, ClosingSlots, TrySlots, FuncSlots

LEMMA SlotsGrow ==
  ASSUME NEW n \in Nat \ {0}, NEW m \in Nat, n <= m
  PROVE  /\ \A s \in 0..(n - 1) : s \in 0..(m - 1)
         /\ \A s \in 1..(n - 1) : s \in 1..(m - 1) /\ s \notin n..(m - 1)
         /\ \A s \in n..(m - 1) : s \in 0..(m - 1) /\ s \in 1..(m - 1) /\ s \notin 0..(n - 1)
         /\ 0 \in 0..(m - 1)
OBVIOUS

LEMMA InUseKept ==
  ASSUME Typed, Typed', InUse, SlotStep
  PROVE  InUse'
<1>1. nextSlot \in Nat \ {0} /\ nextSlot' \in Nat \ {0} /\ nextSlot <= nextSlot' /\ OpenOK
  BY DEF Typed, ScopeTyped, SlotStep
<1>2. /\ \A s \in 0..(nextSlot - 1) : s \in 0..(nextSlot' - 1)
      /\ \A s \in nextSlot..(nextSlot' - 1) : s \in 0..(nextSlot' - 1)
      /\ 0 \in 0..(nextSlot' - 1)
  BY <1>1, SlotsGrow
<1>3. open # <<>> => \A s \in Kept(Inner) : s \in 0..(nextSlot - 1)
  <2> SUFFICES ASSUME open # <<>> PROVE \A s \in Kept(Inner) : s \in 0..(nextSlot - 1)
    OBVIOUS
  <2>1. Inner = open[Len(open)] /\ Len(open) \in 1..Len(open)
    BY InnerIsPlaced DEF Typed
  <2> QED
    BY <2>1 DEF InUse
<1>4. \A s \in AtHand : s \in 0..(nextSlot' - 1)
  BY <1>2, <1>3 DEF AtHand, InUse
<1>5. \A s \in Named' : s \in 0..(nextSlot' - 1)
  BY <1>4 DEF SlotStep
<1>6. ASSUME NEW k \in 1..Len(open'), NEW s \in Kept(open'[k])
      PROVE  s \in 0..(nextSlot' - 1)
  BY <1>2, <1>4 DEF SlotStep, InUse
<1>7. ASSUME NEW i \in 1..Pos', NEW s \in SlotsOf(code'[i])
      PROVE  s \in 0..(nextSlot' - 1)
  <2>1. Pos \in Nat /\ Writes(AtHand)
    BY DEF SlotStep, Writes
  <2>2. CASE i \in 1..Pos
    BY <1>2, <1>7, <2>1, <2>2 DEF InUse, Writes
  <2>3. CASE i > Pos
    BY <1>4, <2>1, <2>3 DEF Writes
  <2>4. i \in 1..Pos \/ i > Pos
    BY <2>1, NextNumbers
  <2> QED
    BY <2>2, <2>3, <2>4
<1> QED
  BY <1>5, <1>6, <1>7 DEF InUse, Kept

\* The slots in A are used in the body at address e alone, which has been left,
LeftPrivate(A, e) ==
  /\ Left(e)
  /\ Named \cap A = {}
  /\ \A k \in 1..Len(open) : Kept(open[k]) \cap A = {}
  /\ \A i \in 1..Pos : SlotsOf(code[i]) \cap A # {} => (i - 1) \in e..(code[e].a - 1)

\* or is that of the k-th open statement.
OpenPrivate(A, e, k) ==
  /\ OpenAt(k, e)
  /\ \A j \in 1..k : Kept(open[j]) \cap A = {}
  /\ \A i \in 1..Pos : SlotsOf(code[i]) \cap A # {} => i - 1 >= e

Private(A, e) == LeftPrivate(A, e) \/ \E k \in 1..Len(open) : OpenPrivate(A, e, k)

Parameters ==
  \A f \in DOMAIN functions :
    /\ functions[f].addr \in DOMAIN functionName
    /\ \A s \in Range(functions[f].args) : s \in 1..(nextSlot - 1)
    /\ Private(Range(functions[f].args), functions[f].addr)

LEMMA LeftPrivateKept ==
  ASSUME Typed, Typed', BodiesStay, SlotStep, NEW A, NEW e \in DOMAIN functionName,
         \A s \in A : s \in 1..(nextSlot - 1), LeftPrivate(A, e)
  PROVE  LeftPrivate(A, e)'
<1>1. Left(e)' /\ code'[e] = code[e]
  BY DEF LeftPrivate, BodiesStay
<1>2. nextSlot \in Nat \ {0} /\ nextSlot' \in Nat /\ nextSlot <= nextSlot'
  BY DEF Typed, ScopeTyped, SlotStep
<1>3. \A s \in A : s # 0 /\ s \notin nextSlot..(nextSlot' - 1)
  BY <1>2, SlotsGrow
<1>4. open # <<>> => Kept(Inner) \cap A = {}
  <2> SUFFICES ASSUME open # <<>> PROVE Kept(Inner) \cap A = {}
    OBVIOUS
  <2>1. Inner = open[Len(open)] /\ Len(open) \in 1..Len(open)
    BY InnerIsPlaced DEF Typed
  <2> QED
    BY <2>1 DEF LeftPrivate
<1>5. AtHand \cap A = {}
  BY <1>3, <1>4 DEF AtHand, LeftPrivate
<1>6. Named' \cap A = {}
  BY <1>5 DEF SlotStep
<1>7. \A k \in 1..Len(open') : Kept(open'[k]) \cap A = {}
  BY <1>5 DEF SlotStep, LeftPrivate
<1>8. ASSUME NEW i \in 1..Pos', SlotsOf(code'[i]) \cap A # {}
      PROVE  (i - 1) \in e..(code'[e].a - 1)
  <2>1. Pos \in Nat /\ Writes(AtHand)
    BY DEF SlotStep, Writes
  <2>2. ~(i > Pos)
    BY <1>5, <1>8, <2>1 DEF Writes
  <2>3. i \in 1..Pos
    BY <2>1, <2>2, NextNumbers
  <2>4. SlotsOf(code'[i]) = SlotsOf(code[i])
    BY <2>1, <2>3 DEF Writes
  <2> QED
    BY <1>1, <1>8, <2>3, <2>4 DEF LeftPrivate
<1> QED
  BY <1>1, <1>6, <1>7, <1>8 DEF LeftPrivate, Kept, SlotsOf

LEMMA OpenPrivateKept ==
  ASSUME Typed, Typed', SlotStep, NEW A, NEW e \in 1..Pos,
         NEW k \in 1..Len(open), k \in 1..Len(open'), open'[k] = open[k], OpenPrivate(A, e, k)
  PROVE  OpenPrivate(A, e, k)'
<1>1. Len(open) \in Nat /\ Len(open') \in Nat /\ Pos \in Nat /\ Pos' \in Nat
  BY CodeNumbers, NextNumbers, LenProperties DEF Typed, OpenOK
<1>2. ASSUME NEW j \in 1..k PROVE Kept(open'[j]) \cap A = {}
  <2>1. j \in 1..Len(open') /\ (j = k \/ j # Len(open'))
    BY <1>1
  <2>2. open'[j] = open[j]
    BY <2>1 DEF SlotStep
  <2> QED
    BY <2>2 DEF OpenPrivate
<1>3. ASSUME NEW i \in 1..Pos', SlotsOf(code'[i]) \cap A # {}
      PROVE  i - 1 >= e
  <2>1. CASE i \in 1..Pos
    <3>1. SlotsOf(code'[i]) = SlotsOf(code[i])
      BY <2>1 DEF SlotStep, Writes
    <3> QED
      BY <1>3, <2>1, <3>1 DEF OpenPrivate
  <2>2. CASE i \notin 1..Pos
    BY <1>1, <2>2
  <2> QED
    BY <2>1, <2>2
<1>4. OpenAt(k, e)'
  BY DEF OpenAt, OpenPrivate
<1> QED
  BY <1>2, <1>3, <1>4 DEF OpenPrivate, Kept, SlotsOf

LEMMA LeftFuncPrivate ==
  ASSUME Typed, Typed', LeaveFunc, SlotStep, NEW A, NEW e \in 1..Pos, NEW k \in 1..Len(open),
         k = Len(open), OpenPrivate(A, e, k), Left(e)', code'[e].a = Pos'
  PROVE  LeftPrivate(A, e)'
<1>1. Len(open) \in Nat /\ Pos \in Nat /\ Pos' \in Nat
  BY CodeNumbers, NextNumbers, LenProperties DEF Typed, OpenOK
<1>2. /\ open # <<>> /\ open' = Front(open) /\ symbols' = Inner.symbols /\ expr'.for = "nothing"
  BY BetweenExpressions DEF LeaveFunc, Inside
<1>3. /\ Inner = open[Len(open)] /\ Len(open') = Len(open) - 1
      /\ \A i \in 1..(Len(open) - 1) : open'[i] = open[i]
  BY <1>2, Popped DEF Typed
<1>4. Named' \cap A = {}
  <2>1. Range(open[k].symbols) \subseteq Kept(open[k]) /\ Kept(open[k]) \cap A = {}
    BY DEF Kept, OpenPrivate
  <2> QED
    BY <1>2, <1>3, <2>1 DEF Named
<1>5. ASSUME NEW j \in 1..Len(open') PROVE Kept(open'[j]) \cap A = {}
  <2>1. j \in 1..k /\ open'[j] = open[j]
    BY <1>1, <1>3
  <2> QED
    BY <2>1 DEF OpenPrivate
<1>6. ASSUME NEW i \in 1..Pos', SlotsOf(code'[i]) \cap A # {}
      PROVE  (i - 1) \in e..(code'[e].a - 1)
  <2>1. i - 1 >= e
    <3>1. CASE i \in 1..Pos
      <4>1. SlotsOf(code'[i]) = SlotsOf(code[i])
        BY <3>1 DEF SlotStep, Writes
      <4> QED
        BY <1>6, <3>1, <4>1 DEF OpenPrivate
    <3>2. CASE i \notin 1..Pos
      BY <1>1, <3>2
    <3> QED
      BY <3>1, <3>2
  <2>2. PICK m \in Nat : m = Pos' /\ m = code'[e].a
    BY <1>1
  <2>3. i \in 1..m /\ e \in Nat
    BY <1>1, <2>2
  <2>4. (i - 1) \in e..(m - 1)
    BY ONLY <2>1, <2>2, <2>3, e \in Nat, i \in 1..m
  <2> QED
    BY <2>2, <2>4
<1> QED
  BY <1>4, <1>5, <1>6 DEF LeftPrivate, Kept, SlotsOf

LEMMA DeclsKept ==
  ASSUME [Next]_cvars, ~(\E f \in Funcs : EnterFunc(f))
  PROVE  UNCHANGED <<functions, functionName>>
<1>1. CASE Simple
  BY <1>1 DEF Simple, ExprStep, Number, LargeNumber, Literal, Symbol, IncDec, Binary, Prefix,
     UserCall, PrintCall, Operation, WithConstant, ArrayLiteral, ErrorExpr, BeginExpressionStmt,
     EndExpressionStmt, EndVarDecl, EndAssign, BeginVarDecl, AssignConstant, BeginAssign,
     BeginMemberAssign, BeginField, EndField, BeginReturn, EndReturn, EmptyReturn, BeginEmit,
     EndEmit, BeginRequire, EndRequire, BeginIf, BeginWhile, BeginForCondition, Finish,
     CompilerPanics, cvars, decls
<1>2. CASE Opens \/ GoesOn \/ Closes
  BY <1>2 DEF Opens, GoesOn, Closes, EnterThen, EnterWhile, BeginFor, BeginObject, EnterElse,
     EnterFor, EnterForPost, LeaveIf, LeaveWhile, LeaveFor, EndObject, decls
<1>3. CASE LeaveFunc \/ EnterTry \/ (\E x \in Names : EnterCatch(x)) \/ LeaveCatch
  BY <1>3 DEF LeaveFunc, EnterTry, EnterCatch, LeaveCatch, decls
<1> QED
  BY <1>1, <1>2, <1>3, Steps

\* The slots given to the parameters of a function that is entered are new.
LEMMA EnteredPrivate ==
  ASSUME Typed, Typed', InUse, NEW f \in Funcs, EnterFunc(f)
  PROVE  /\ \A s \in Range(ParamSlots(f)) : s \in 1..(nextSlot' - 1)
         /\ Len(open') = Len(open) + 1
         /\ \A A, a, k : A = Range(ParamSlots(f)) /\ a = Pos + 1 /\ k = Len(open) + 1
                         => OpenPrivate(A, a, k)'
<1>1. nextSlot \in Nat \ {0} /\ nextSlot' \in Nat /\ Pos \in Nat /\ ScopeTyped
  BY CodeNumbers DEF Typed, ScopeTyped
<1>2. PICK n \in Nat : n = Len(Params[f]) /\ DOMAIN Params[f] = 1..n /\ nextSlot' = nextSlot + n
  <2>1. Params[f] \in Seq(Names)
    BY CompilerAssumption
  <2> QED
    BY <2>1, LenProperties DEF EnterFunc
<1>3. nextSlot <= nextSlot'
  BY <1>1, <1>2
<1>4. PICK A : A = Range(ParamSlots(f))
  OBVIOUS
<1>5. ASSUME NEW s \in A PROVE s \in nextSlot..(nextSlot' - 1)
  <2>1. PICK i \in 1..n : s = nextSlot + i - 1
    BY <1>2, <1>4, <1>5 DEF ParamSlots, Range
  <2>2. PICK m \in Nat : m = nextSlot' /\ m = nextSlot + n
    BY <1>1, <1>2
  <2>3. s \in nextSlot..(m - 1)
    BY <1>1, <2>1, <2>2
  <2> QED
    BY <2>2, <2>3
<1>6. \A s \in A : s \in 1..(nextSlot' - 1) /\ s \notin 0..(nextSlot - 1)
  BY <1>1, <1>3, <1>5, SlotsGrow
<1>7. PICK e \in Statements :
        open' = Append(open, e) /\ e.kind = "func" /\ e.symbols = symbols
  BY FuncRecord
<1>8. PICK d : Enters(d, "JMP") /\ d.kind = "func" /\ d.p = Pos
  BY FuncEntered
<1>9. /\ Len(open) \in Nat /\ Len(open') = Len(open) + 1
      /\ \A i \in 1..Len(open) : open'[i] = open[i]
      /\ open'[Len(open) + 1] = e
      /\ \A i \in 1..Len(open') : i \in 1..Len(open) \/ i = Len(open) + 1
  BY <1>7, Pushed DEF Typed
<1>10. e = d /\ Pos' = Pos + 1 /\ Emit(<<Hole("JMP")>>)
  BY <1>7, <1>8, <1>9, Pushed DEF Typed, Enters, EnterFunc
<1>11. PICK a, k : a = Pos + 1 /\ k = Len(open) + 1
  OBVIOUS
<1>16. OpenAt(k, a)'
  BY <1>1, <1>7, <1>8, <1>9, <1>10, <1>11 DEF OpenAt
<1>12. ASSUME NEW j \in 1..(Len(open) + 1) PROVE Kept(open'[j]) \cap A = {}
  <2>1. CASE j \in 1..Len(open)
    BY <1>6, <1>9, <2>1 DEF InUse
  <2>2. CASE j = Len(open) + 1
    <3>1. Kept(e) = Range(symbols) /\ Range(symbols) \subseteq Named
      BY <1>7, KeptFields DEF Named
    <3> QED
      BY <1>6, <1>9, <2>2, <3>1 DEF InUse
  <2> QED
    BY <1>9, <2>1, <2>2
<1>13. Writes({})
  BY <1>10, WritesOne, SlotFree DEF Typed
<1>14. ASSUME NEW i \in 1..Pos', SlotsOf(code'[i]) \cap A # {} PROVE FALSE
  <2>1. CASE i \in 1..Pos
    <3>1. SlotsOf(code'[i]) = SlotsOf(code[i])
      BY <1>13, <2>1 DEF Writes
    <3> QED
      BY <1>6, <1>14, <2>1, <3>1 DEF InUse
  <2>2. CASE i > Pos
    BY <1>13, <1>14, <2>2 DEF Writes
  <2>3. i \in 1..Pos \/ i > Pos
    BY <1>1, NextNumbers
  <2> QED
    BY <2>1, <2>2, <2>3
<1>15. OpenPrivate(A, a, k)'
  BY <1>9, <1>11, <1>12, <1>14, <1>16 DEF OpenPrivate, Kept, SlotsOf
<1> QED
  BY <1>4, <1>6, <1>9, <1>11, <1>15

LEMMA PrivateKept ==
  ASSUME Typed, Typed', Bodies, BodiesStay, SlotStep, NEW A, NEW e \in DOMAIN functionName,
         \A s \in A : s \in 1..(nextSlot - 1), Private(A, e)
  PROVE  Private(A, e)'
<1>1. e \in 1..Pos
  BY DEF Bodies
<1>2. CASE LeftPrivate(A, e)
  BY <1>2, LeftPrivateKept DEF Private
<1>3. ASSUME NEW k \in 1..Len(open), OpenPrivate(A, e, k)
      PROVE  Private(A, e)'
  <2>1. open[k].kind = "func" /\ e = open[k].p + 1
    <3>1. open[k].kind = "func" /\ open[k].p = e - 1
      BY <1>3 DEF OpenPrivate, OpenAt
    <3> QED
      BY <1>1, <3>1
  <2>2. CASE k \in 1..Len(open') /\ open'[k] = open[k]
    <3>1. OpenPrivate(A, e, k)'
      BY <1>1, <1>3, <2>2, OpenPrivateKept
    <3> QED
      BY <2>2, <3>1 DEF Private
  <2>3. CASE LeaveFunc /\ k = Len(open) /\ Left(e)' /\ code'[e].a = Pos'
    BY <1>1, <1>3, <2>3, LeftFuncPrivate DEF Private
  <2> QED
    BY <2>1, <2>2, <2>3 DEF BodiesStay
<1> QED
  BY <1>2, <1>3 DEF Private

LEMMA NextParameters ==
  ASSUME Typed, Typed', Bodies, BodiesStay, InUse, SlotStep, Parameters, [Next]_cvars
  PROVE  Parameters'
<1>1. nextSlot \in Nat \ {0} /\ nextSlot' \in Nat /\ nextSlot <= nextSlot'
  BY DEF Typed, ScopeTyped, SlotStep
<1>2. ASSUME NEW f \in DOMAIN functions, functions[f].addr \in DOMAIN functionName',
             f \in DOMAIN functions', functions'[f] = functions[f]
      PROVE  /\ \A s \in Range(functions'[f].args) : s \in 1..(nextSlot' - 1)
             /\ \A A, e : A = Range(functions'[f].args) /\ e = functions'[f].addr => Private(A, e)'
  <2>1. PICK A, e : A = Range(functions[f].args) /\ e = functions[f].addr
    OBVIOUS
  <2>2. e \in DOMAIN functionName /\ (\A s \in A : s \in 1..(nextSlot - 1)) /\ Private(A, e)
    BY <2>1 DEF Parameters
  <2>3. Private(A, e)'
    BY <2>2, PrivateKept
  <2>4. \A s \in A : s \in 1..(nextSlot' - 1)
    BY <1>1, <2>2, SlotsGrow
  <2> QED
    BY <1>2, <2>1, <2>3, <2>4
<1>3. CASE ~(\E f \in Funcs : EnterFunc(f))
  <2>1. UNCHANGED <<functions, functionName>>
    BY <1>3, DeclsKept
  <2>2. \A f \in DOMAIN functions' : functions'[f].addr \in DOMAIN functionName'
    BY <2>1 DEF Parameters
  <2> QED
    BY <1>2, <2>1, <2>2 DEF Parameters
<1>4. ASSUME NEW g \in Funcs, EnterFunc(g)
      PROVE  Parameters'
  <2>1. /\ functions' = Put(functions, g, FuncMeta(g))
        /\ functionName' = Put(functionName, Pos + 1, g)
    BY <1>4, FuncEntered
  <2>2. /\ DOMAIN functions' = DOMAIN functions \cup {g} /\ functions'[g] = FuncMeta(g)
        /\ \A f \in DOMAIN functions : f # g => functions'[f] = functions[f]
        /\ DOMAIN functionName' = DOMAIN functionName \cup {Pos + 1}
    BY <2>1 DEF Put
  <2>3. functions'[g].addr = Pos + 1 /\ functions'[g].args = ParamSlots(g)
    BY <2>2 DEF FuncMeta
  <2>4. PICK A, a, k : A = Range(ParamSlots(g)) /\ a = Pos + 1 /\ k = Len(open) + 1
    OBVIOUS
  <2>5. /\ \A s \in A : s \in 1..(nextSlot' - 1)
        /\ Len(open') = k /\ OpenPrivate(A, a, k)'
    BY <1>4, <2>4, EnteredPrivate
  <2>6. k \in 1..Len(open')
    BY <2>4, <2>5, CodeNumbers
  <2>7. Private(A, a)'
    BY <2>5, <2>6 DEF Private
  <2>8. ASSUME NEW f \in DOMAIN functions'
        PROVE  /\ functions'[f].addr \in DOMAIN functionName'
               /\ \A s \in Range(functions'[f].args) : s \in 1..(nextSlot' - 1)
               /\ \A B, e : B = Range(functions'[f].args) /\ e = functions'[f].addr
                            => Private(B, e)'
    <3>1. CASE f = g
      BY <2>2, <2>3, <2>4, <2>5, <2>7, <3>1
    <3>2. CASE f # g
      BY <1>2, <2>2, <2>8, <3>2 DEF Parameters
    <3> QED
      BY <3>1, <3>2
  <2> QED
    BY <2>8 DEF Parameters
<1> QED
  BY <1>3, <1>4

\* No slot is given out twice.
LEMMA SlotsOnlyGrow ==
  ASSUME Typed, [Next]_cvars
  PROVE  nextSlot <= nextSlot'
<1>1. nextSlot \in Nat \ {0}
  BY DEF Typed, ScopeTyped
<1>2. ASSUME UNCHANGED nextSlot PROVE nextSlot <= nextSlot'
  BY <1>1, <1>2
<1>3. ASSUME NEW x, NewName(x) \/ AllocSlot(x) PROVE nextSlot <= nextSlot'
  BY <1>1, <1>3, NewSlots
<1>4. CASE Simple
  BY <1>2, <1>3, <1>4, SimpleScope
<1>5. CASE Opens
  BY <1>2, <1>3, <1>5, OpeningScope
<1>6. CASE GoesOn \/ Closes
  BY <1>2, <1>6, GoingOnSteps, ClosingSteps DEF scope
<1>7. CASE LeaveFunc \/ (\E x \in Names : EnterCatch(x)) \/ LeaveCatch
  BY <1>2, <1>7 DEF LeaveFunc, EnterCatch, LeaveCatch
<1>8. CASE EnterTry
  BY <1>1, <1>8 DEF EnterTry
<1>9. ASSUME NEW f \in Funcs, EnterFunc(f) PROVE nextSlot <= nextSlot'
  <2>1. Len(Params[f]) \in Nat
    BY ParamsBound DEF Typed
  <2> QED
    BY <1>1, <1>9, <2>1 DEF EnterFunc
<1> QED
  BY <1>4, <1>5, <1>6, <1>7, <1>8, <1>9, Steps

\* As long as the slots fit the operand byte.
KeptApart == nextSlot <= Byte => InUse /\ Parameters

LEMMA InitApart ==
  ASSUME Init
  PROVE  KeptApart
<1>1. /\ open = <<>> /\ Len(open) = 0 /\ code = <<>> /\ Len(code) = 0
      /\ symbols = NoEntries /\ expr.for = "nothing" /\ functions = NoEntries
  BY DEF Init, NoExpr
<1> QED
  BY <1>1 DEF KeptApart, InUse, Named, Parameters, Range, NoEntries, Pos

LEMMA NextApart ==
  ASSUME Typed, Typed', Slots, LaidOut, Bodies, KeptApart, [Next]_cvars
  PROVE  KeptApart'
<1> SUFFICES ASSUME nextSlot' <= Byte PROVE InUse' /\ Parameters'
  BY DEF KeptApart
<1>1. nextSlot <= nextSlot'
  <2>1. nextSlot \in Nat
    BY DEF Typed, ScopeTyped
  <2> QED
    BY <2>1, SlotsOnlyGrow
<1>2. InUse /\ Parameters
  <2>1. nextSlot \in Nat /\ nextSlot' \in Nat /\ Byte \in Nat
    BY Limits DEF Typed, ScopeTyped
  <2>2. nextSlot <= Byte
    BY <1>1, <2>1
  <2> QED
    BY <2>2 DEF KeptApart
<1>3. SlotStep
  BY <1>2, NextSlotStep
<1>4. BodiesStay
  BY NextBodies
<1> QED
  BY <1>2, <1>3, <1>4, InUseKept, NextParameters

LEMMA AlwaysApart == Spec => [](Typed /\ Finished /\ Bodies /\ KeptApart)
<1>1. Init => KeptApart
  BY InitApart
<1>2. KeptApart /\ Bodies /\ LaidOut /\ Slots /\ Typed /\ Typed' /\ [Next]_cvars => KeptApart'
  BY NextApart
<1>3. Spec => [](Typed /\ FuncNesting /\ Slots)
  BY AlwaysScoped
<1>4. Spec => [](Typed /\ LaidOut /\ Finished)
  BY AlwaysLaid
<1>5. Spec => [](Typed /\ Finished /\ Bodies)
  BY AlwaysBodies
<1> QED
  BY <1>1, <1>2, <1>3, <1>4, <1>5, PTL DEF Spec

(***************************************************************************)
(* Whatever is declared, caught or called inside or around a function, the *)
(* slots of its parameters are read and written in its body alone, so that *)
(* a call, which stores the arguments there (vm.go:630), changes no name   *)
(* and no caught error of anyone else, as long as the slots fit the        *)
(* operand byte (compiler.go:323, stmt.go:109 and :126).                   *)
(***************************************************************************)
THEOREM ParametersPrivate == Spec => []ParametersStayInside
<1>1. Typed /\ Finished /\ Bodies /\ KeptApart => ParametersStayInside
  <2> SUFFICES ASSUME Typed, Finished, KeptApart, stage = "compiled", nextSlot <= Byte,
                      NEW f \in DOMAIN functions, NEW i \in DOMAIN code,
                      SlotsOf(code[i]) \cap Range(functions[f].args) # {}
               PROVE  LET entry == functions[f].addr
                      IN  (i - 1) \in entry..(code[entry].a - 1)
    BY DEF ParametersStayInside
  <2>1. Pos \in Nat /\ DOMAIN code = 1..Pos /\ Len(open) = 0
    BY NothingWaits
  <2>2. PICK A, e : A = Range(functions[f].args) /\ e = functions[f].addr
    OBVIOUS
  <2>3. Private(A, e)
    BY <2>2 DEF KeptApart, Parameters
  <2>4. LeftPrivate(A, e)
    BY <2>1, <2>3 DEF Private
  <2> QED
    BY <2>1, <2>2, <2>4 DEF LeftPrivate
<1> QED
  BY <1>1, AlwaysApart, PTL

----------------------------------------------------------------------------
(* The height of the operand stack. Some words give an instruction fewer   *)
(* operands than it takes: print and ++ leave nothing, nor does the call   *)
(* of what is not a name, a call may leave nothing, x.y.z = v leaves the   *)
(* object out, an object given to a name is stored twice, and an empty     *)
(* return outside functions prints what is not there.                      *)

BalancedClass ==
  /\ class.exprs \cap {"call", "print", "incdec", "unnamed"} = {}
  /\ class.stmts \cap {"object", "empty_print"} = {}
  /\ "member_assign" \in class.stmts => "member" \notin class.exprs

\* What an emitted instruction takes from the operand stack, and what it leaves there.
Literals == {"CONST", "PUSH", "SLOAD", "TRUE", "FALSE", "NULL", "PUSH_OBJECT"}
OneTaken == {"NOT", "LENGTH", "NONCE", "GET_ENV"}
TwoTaken == {"ADD", "SUB", "MUL", "DIV", "GT", "LT", "EQ", "GT_EQ", "LT_EQ", "DIFF", "AND", "OR",
             "ACCESS", "CONTAINS", "GET_PROPERTY"}

Takes(i) ==
  CASE i.op \in OneTaken \cup {"STORE", "ERR", "PRINT", "JMP_IF"} -> 1
    [] i.op \in TwoTaken \cup {"SWAP", "EMIT"} -> 2
    [] i.op = "SET_PROPERTY" -> 3
    [] i.op = "HASH" -> i.a + 1
    [] OTHER -> 0
Gives(i) ==
  CASE i.op \in Literals \cup OneTaken \cup TwoTaken \cup {"SET_PROPERTY", "HASH"} -> 1
    [] i.op = "SWAP" -> 2
    [] OTHER -> 0

\* An instruction with m operands below it leaves n, if they are enough.
Flows(i, m, n) == i.op # "CALL" /\ Takes(i) <= m /\ n <= (m - Takes(i)) + Gives(i)

(***************************************************************************)
(* Every address has a height that the operand stack never falls below     *)
(* there; it is 0 at the addresses in Z, where all branches lead.          *)
(***************************************************************************)
Heights(h, Z) ==
  /\ h \in [0..Pos -> Nat]
  /\ 0 \in Z /\ Z \subseteq 0..Pos
  /\ \A z \in Z : h[z] = 0
  /\ \A i \in 1..Pos :
       /\ Flows(code[i], h[i - 1], h[i])
       /\ code[i].op \in Jumps => code[i].a \in Z

\* The addresses that an open statement will lead a branch to.
Marks(e) ==
  CASE e.kind \in {"while", "for"} -> {e.p}
    [] e.kind \in {"else", "catch", "for_post"} -> {e.r}
    [] OTHER -> {}

Marked(Z) ==
  /\ \A f \in DOMAIN functions : functions[f].addr \in Z
  /\ \A k \in 1..Len(open) : open[k].kind # "object" /\ Marks(open[k]) \subseteq Z
  /\ expr.for \in {"while", "for"} => expr.slot \in Z
  /\ stage = "compiled" => Pos - 1 \in Z

\* The operands of the expression under way, and what its statement put below them.
Standing ==
  CASE expr.for = "nothing" -> 0
    [] expr.for = "event" -> expr.depth + 1
    [] expr.for = "field" -> expr.depth + 2
    [] OTHER -> expr.depth

Balanced ==
  expr.depth \in Nat /\ \E h, Z : Heights(h, Z) /\ Marked(Z) /\ h[Pos] = Standing

LEMMA Counts ==
  ASSUME NEW i \in Emitted
  PROVE  Takes(i) \in Nat /\ Gives(i) \in Nat
<1>1. i.a \in Nat
  BY DEF Emitted
<1> QED
  BY <1>1 DEF Takes, Gives

\* The target of a jump makes no difference.
LEMMA JumpFlows ==
  ASSUME NEW i, NEW j, i.op \in Jumps, j.op = i.op, NEW m, NEW n, Flows(i, m, n)
  PROVE  Flows(j, m, n)
<1>1. Takes(i) = Takes(j) /\ Gives(i) = Gives(j)
  BY DEF Takes, Gives, Jumps, OneTaken, TwoTaken, Literals
<1> QED
  BY <1>1 DEF Flows

LEMMA LowerFlows ==
  ASSUME NEW i \in Emitted, NEW m \in Nat, NEW n \in Nat, NEW k \in Nat, k <= n, Flows(i, m, n)
  PROVE  Flows(i, m, k)
BY Counts DEF Flows

\* A step that adds n addresses of the heights t, and targets that make Z the set Y.
Raises(h, Z, n, t, Y) ==
  /\ Heights(h, Z)
  /\ n \in Nat /\ Pos' = Pos + n
  /\ t \in [0..n -> Nat] /\ t[0] <= h[Pos]
  /\ Z \subseteq Y
  /\ \A z \in Y : z \in Z \/ (z \in Pos..(Pos + n) /\ t[z - Pos] = 0)
  /\ \A i \in 1..Pos :
       \/ code'[i] = code[i]
       \/ code[i].op \in Jumps /\ code'[i].op = code[i].op /\ code'[i].a \in Y
  /\ \A k \in 1..n :
       /\ Flows(code'[Pos + k], t[k - 1], t[k])
       /\ code'[Pos + k].op \in Jumps => code'[Pos + k].a \in Y

LEMMA HeightsGrow ==
  ASSUME Typed, Typed', NEW h, NEW Z, NEW n, NEW t, NEW Y, Raises(h, Z, n, t, Y)
  PROVE  \E g : Heights(g, Y)' /\ g[Pos'] = t[n]
<1> USE DEF Raises
<1>0. PICK g : g = [i \in 0..Pos' |-> IF i < Pos THEN h[i] ELSE t[i - Pos]]
  OBVIOUS
<1>1. /\ Pos \in Nat /\ Pos' \in Nat /\ Pos <= Pos' /\ code \in Seq(Emitted)
      /\ h \in [0..Pos -> Nat] /\ 0 \in Z /\ Z \subseteq 0..Pos
  BY LenProperties DEF Typed, CodeOK, Pos, Heights
<1>2. g \in [0..Pos' -> Nat]
  <2>1. ASSUME NEW i \in 0..Pos', ~(i < Pos)
        PROVE  i - Pos \in 0..n
    BY <1>1, <2>1
  <2> QED
    BY <1>0, <1>1, <2>1
<1>3. \A i \in 0..Pos : i < Pos => g[i] = h[i]
  BY <1>0, <1>1
<1>4. \A k \in 0..n : g[Pos + k] = t[k]
  BY <1>0, <1>1
<1>5. 0 \in Y /\ Y \subseteq 0..Pos' /\ \A z \in Y : g[z] = 0
  <2>1. ASSUME NEW z \in Y
        PROVE  z \in 0..Pos' /\ g[z] = 0
    <3>1. CASE z \in Z
      <4>1. z \in 0..Pos /\ h[z] = 0
        BY <1>1, <3>1 DEF Heights
      <4>2. CASE z < Pos
        BY <1>1, <1>3, <4>1, <4>2
      <4>3. CASE z = Pos
        <5>1. t[0] = 0 /\ g[Pos + 0] = t[0] /\ Pos + 0 = z
          BY <1>1, <1>4, <4>1, <4>3
        <5> QED
          BY <1>1, <4>3, <5>1
      <4> QED
        BY <1>1, <4>1, <4>2, <4>3
    <3>2. CASE z \in Pos..(Pos + n) /\ t[z - Pos] = 0
      <4>1. z - Pos \in 0..n /\ Pos + (z - Pos) = z
        BY <1>1, <3>2
      <4> QED
        BY <1>1, <1>4, <3>2, <4>1
    <3> QED
      BY <3>1, <3>2
  <2> QED
    BY <1>1, <2>1
<1>6. ASSUME NEW i \in 1..Pos'
      PROVE  /\ Flows(code'[i], g[i - 1], g[i])
             /\ code'[i].op \in Jumps => code'[i].a \in Y
  <2>1. CASE i \in 1..Pos
    <3>1. Flows(code[i], h[i - 1], h[i]) /\ (code[i].op \in Jumps => code[i].a \in Y)
      BY <2>1 DEF Heights
    <3>2. code[i] \in Emitted /\ h[i - 1] \in Nat /\ h[i] \in Nat /\ g[i] \in Nat
      <4>1. i - 1 \in 0..Pos /\ i \in 0..Pos /\ i \in 0..Pos' /\ i \in 1..Len(code)
        BY <1>1, <2>1 DEF Pos
      <4>2. code[i] \in Emitted
        BY <1>1, <4>1, ElementOfSeq
      <4> QED
        BY <1>1, <1>2, <4>1, <4>2
    <3>3. g[i - 1] = h[i - 1] /\ g[i] <= h[i]
      <4>1. i - 1 \in 0..Pos /\ i - 1 < Pos
        BY <1>1, <2>1
      <4>2. CASE i < Pos
        BY <1>1, <1>3, <2>1, <3>2, <4>1, <4>2
      <4>3. CASE i = Pos
        <5>1. g[Pos + 0] = t[0] /\ Pos + 0 = i
          BY <1>1, <1>4, <4>3
        <5> QED
          BY <1>3, <4>1, <4>3, <5>1
      <4> QED
        BY <1>1, <2>1, <4>2, <4>3
    <3>4. Flows(code[i], g[i - 1], g[i])
      BY <3>1, <3>2, <3>3, LowerFlows
    <3>5. CASE code'[i] = code[i]
      BY <3>1, <3>4, <3>5
    <3>6. CASE code[i].op \in Jumps /\ code'[i].op = code[i].op /\ code'[i].a \in Y
      BY <3>4, <3>6, JumpFlows
    <3> QED
      BY <2>1, <3>5, <3>6
  <2>2. CASE i > Pos
    <3>1. PICK k \in 1..n : i = Pos + k /\ k - 1 \in 0..n /\ i - 1 = Pos + (k - 1)
      <4>1. i - Pos \in 1..n /\ i = Pos + (i - Pos) /\ (i - Pos) - 1 \in 0..n
            /\ i - 1 = Pos + ((i - Pos) - 1)
        BY <1>1, <2>2
      <4> QED
        BY <4>1
    <3>2. g[i] = t[k] /\ g[i - 1] = t[k - 1]
      BY <1>1, <1>4, <3>1
    <3> QED
      BY <3>1, <3>2
  <2> QED
    BY <1>1, <2>1, <2>2
<1>7. g[Pos'] = t[n]
  BY <1>1, <1>4
<1>8. Heights(g, Y)'
  BY <1>2, <1>5, <1>6 DEF Heights
<1> QED
  BY <1>7, <1>8

\* Straight code that takes the height from m to n.
Climbs(m, s, n) ==
  \E t \in [0..Len(s) -> Nat] :
    /\ t[0] <= m /\ t[Len(s)] = n
    /\ \A k \in 1..Len(s) : s[k].op \notin Jumps /\ Flows(s[k], t[k - 1], t[k])

LEMMA ClimbsNone ==
  ASSUME NEW m \in Nat, NEW n \in Nat, n <= m
  PROVE  Climbs(m, <<>>, n)
<1>1. PICK t : t = [k \in 0..0 |-> n]
  OBVIOUS
<1>2. Len(<<>>) = 0
  OBVIOUS
<1> QED
  BY <1>1, <1>2 DEF Climbs

LEMMA ClimbsOne ==
  ASSUME NEW x, NEW m \in Nat, NEW n \in Nat, x.op \notin Jumps, Flows(x, m, n)
  PROVE  Climbs(m, <<x>>, n)
<1>1. PICK t : t = [k \in 0..1 |-> IF k = 0 THEN m ELSE n]
  OBVIOUS
<1>2. Len(<<x>>) = 1 /\ <<x>>[1] = x /\ t \in [0..1 -> Nat] /\ t[0] = m /\ t[1] = n
  BY <1>1
<1>3. \A k \in 1..1 : k = 1 /\ k - 1 = 0
  OBVIOUS
<1>4. \A k \in 1..1 : <<x>>[k].op \notin Jumps /\ Flows(<<x>>[k], t[k - 1], t[k])
  BY <1>2, <1>3
<1> QED
  BY <1>2, <1>4 DEF Climbs

LEMMA ClimbsOn ==
  ASSUME NEW T, NEW s \in Seq(T), NEW x \in T, NEW m \in Nat, NEW n \in Nat, NEW l \in Nat,
         Climbs(m, s, n), x.op \notin Jumps, Flows(x, n, l)
  PROVE  Climbs(m, Append(s, x), l)
<1>1. /\ Len(s) \in Nat /\ Len(Append(s, x)) = Len(s) + 1
      /\ \A i \in 1..Len(s) : Append(s, x)[i] = s[i]
      /\ Append(s, x)[Len(s) + 1] = x
  BY AppendedProperties, LenProperties
<1>2. PICK t \in [0..Len(s) -> Nat] :
        /\ t[0] <= m /\ t[Len(s)] = n
        /\ \A k \in 1..Len(s) : s[k].op \notin Jumps /\ Flows(s[k], t[k - 1], t[k])
  BY DEF Climbs
<1>3. PICK g : g = [k \in 0..(Len(s) + 1) |-> IF k <= Len(s) THEN t[k] ELSE l]
  OBVIOUS
<1>4. /\ g \in [0..(Len(s) + 1) -> Nat] /\ g[0] = t[0] /\ g[Len(s) + 1] = l
      /\ \A k \in 0..Len(s) : g[k] = t[k]
  BY <1>1, <1>2, <1>3
<1>5. ASSUME NEW k \in 1..(Len(s) + 1)
      PROVE  Append(s, x)[k].op \notin Jumps /\ Flows(Append(s, x)[k], g[k - 1], g[k])
  <2>1. CASE k \in 1..Len(s)
    <3>1. k \in 0..Len(s) /\ k - 1 \in 0..Len(s)
      BY <1>1, <2>1
    <3> QED
      BY <1>1, <1>2, <1>4, <2>1, <3>1
  <2>2. CASE k = Len(s) + 1
    <3>1. k - 1 = Len(s) /\ Len(s) \in 0..Len(s)
      BY <1>1, <2>2
    <3> QED
      BY <1>1, <1>2, <1>4, <2>2, <3>1
  <2> QED
    BY <1>1, <2>1, <2>2
<1> QED
  BY <1>1, <1>2, <1>4, <1>5 DEF Climbs

LEMMA ClimbsTwo ==
  ASSUME NEW x, NEW y, NEW m \in Nat, NEW k \in Nat, NEW n \in Nat,
         x.op \notin Jumps, Flows(x, m, k), y.op \notin Jumps, Flows(y, k, n)
  PROVE  Climbs(m, <<x, y>>, n)
<1>1. <<x>> \in Seq({x, y}) /\ <<x, y>> = Append(<<x>>, y)
  OBVIOUS
<1>2. Climbs(m, Append(<<x>>, y), n)
  BY <1>1, ClimbsOne, ClimbsOn
<1> QED
  BY <1>1, <1>2

LEMMA ClimbsThree ==
  ASSUME NEW x, NEW y, NEW z, NEW m \in Nat, NEW k \in Nat, NEW l \in Nat, NEW n \in Nat,
         x.op \notin Jumps, Flows(x, m, k), y.op \notin Jumps, Flows(y, k, l),
         z.op \notin Jumps, Flows(z, l, n)
  PROVE  Climbs(m, <<x, y, z>>, n)
<1>1. <<x, y>> \in Seq({x, y, z}) /\ <<x, y, z>> = Append(<<x, y>>, z)
  OBVIOUS
<1>2. Climbs(m, Append(<<x, y>>, z), n)
  BY <1>1, ClimbsTwo, ClimbsOn
<1> QED
  BY <1>1, <1>2

\* What each kind of instruction does to the height.
LEMMA FlowOf ==
  ASSUME NEW op, NEW a \in Nat, NEW b, NEW m \in Nat
  PROVE  /\ op \in Literals => Flows(Instr(op, a, b), m, m + 1)
         /\ op \in OneTaken /\ m >= 1 => Flows(Instr(op, a, b), m, m)
         /\ op \in TwoTaken /\ m >= 2 => Flows(Instr(op, a, b), m, m - 1)
         /\ op = "SWAP" /\ m >= 2 => Flows(Instr(op, a, b), m, m)
         /\ op = "SET_PROPERTY" /\ m >= 3 => Flows(Instr(op, a, b), m, m - 2)
         /\ op \in {"STORE", "ERR", "PRINT", "JMP_IF"} /\ m >= 1 => Flows(Instr(op, a, b), m, m - 1)
         /\ op = "EMIT" /\ m >= 2 => Flows(Instr(op, a, b), m, m - 2)
         /\ op = "HASH" /\ a = 1 /\ m >= 2 => Flows(Instr(op, a, b), m, m - 1)
         /\ op \in {"JMP", "TRY", "RET", "END_TRY", "HALT"} => Flows(Instr(op, a, b), m, m)
<1>1. Instr(op, a, b).op = op /\ Instr(op, a, b).a = a
  BY DEF Instr
<1> QED
  BY <1>1 DEF Flows, Takes, Gives, Literals, OneTaken, TwoTaken

LEMMA NoJumps ==
  Jumps \cap (Literals \cup OneTaken \cup TwoTaken
              \cup {"SWAP", "SET_PROPERTY", "STORE", "ERR", "PRINT", "EMIT", "HASH", "RET",
                    "END_TRY", "HALT"}) = {}
BY DEF Jumps, Literals, OneTaken, TwoTaken

LEMMA ConstFlows ==
  ASSUME NEW v, NEW m \in Nat
  PROVE  Const(v).op \notin Jumps /\ Flows(Const(v), m, m + 1)
<1>1. Const(v).op = "CONST"
  BY DEF Const, Instr
<1> QED
  BY <1>1 DEF Flows, Takes, Gives, Literals, OneTaken, TwoTaken, Jumps

LEMMA BuiltStanding ==
  ASSUME Typed, expr.depth \in Nat, InExpr, NEW n \in Nat, Built(n)
  PROVE  /\ Standing \in Nat /\ Standing' \in Nat /\ Standing >= n
         /\ Standing' = (Standing - n) + 1
         /\ expr'.depth \in Nat /\ expr'.for = expr.for /\ expr'.slot = expr.slot
<1>1. expr \in Exprs /\ expr.for # "nothing"
  BY DEF Typed, ExprOK, InExpr
<1>2. /\ expr'.depth = (expr.depth - n) + 1 /\ expr'.for = expr.for /\ expr'.slot = expr.slot
      /\ expr.depth >= n
  BY <1>1 DEF Built, Exprs
<1> QED
  BY <1>1, <1>2 DEF Standing

\* A step emits straight code that takes the stack where the expression's operands say.
Climbing ==
  \E T : \E s \in Seq(T) : Emit(s) /\ Climbs(Standing, s, Standing')

LEMMA ClimbingNone ==
  ASSUME Typed, UNCHANGED code, Standing \in Nat, Standing' \in Nat, Standing' <= Standing
  PROVE  Climbing
<1>1. code' = code \o <<>>
  BY ConcatEmptySeq DEF Typed, CodeOK
<1>2. <<>> \in Seq({}) /\ Emit(<<>>)
  BY <1>1 DEF Emit
<1> QED
  BY <1>2, ClimbsNone DEF Climbing

LEMMA ClimbingOne ==
  ASSUME NEW x, Emit(<<x>>), Standing \in Nat, Standing' \in Nat,
         x.op \notin Jumps, Flows(x, Standing, Standing')
  PROVE  Climbing
<1>1. <<x>> \in Seq({x})
  OBVIOUS
<1> QED
  BY <1>1, ClimbsOne DEF Climbing

LEMMA ClimbingTwo ==
  ASSUME NEW x, NEW y, Emit(<<x, y>>), Standing \in Nat, Standing' \in Nat, NEW k \in Nat,
         x.op \notin Jumps, Flows(x, Standing, k), y.op \notin Jumps, Flows(y, k, Standing')
  PROVE  Climbing
<1>1. <<x, y>> \in Seq({x, y})
  OBVIOUS
<1> QED
  BY <1>1, ClimbsTwo DEF Climbing

LEMMA ComputesClimbing ==
  ASSUME Typed, BalancedClass, expr.depth \in Nat, Computes
  PROVE  /\ Climbing /\ expr'.depth \in Nat /\ Standing' \in Nat
         /\ expr'.for = expr.for /\ expr'.slot = expr.slot
<1> DEFINE m == Standing
<1>0. InExpr
  BY DEF Computes, Number, LargeNumber, Literal, Symbol, IncDec, Binary, Prefix, PrintCall,
         Operation, WithConstant, ArrayLiteral, ErrorExpr, Operand
<1>1. ASSUME NEW n \in {0, 1, 2}, Built(n)
      PROVE  /\ m \in Nat /\ Standing' \in Nat /\ m >= n /\ Standing' = (m - n) + 1
             /\ expr'.depth \in Nat /\ expr'.for = expr.for /\ expr'.slot = expr.slot
  BY <1>0, <1>1, BuiltStanding
<1>2. \E n \in {0, 1, 2} : Built(n)
  BY DEF Computes, Number, LargeNumber, Literal, Symbol, IncDec, Binary, Prefix, PrintCall,
         Operation, WithConstant, ArrayLiteral, ErrorExpr, Leaf
<1>3. /\ m \in Nat /\ Standing' \in Nat /\ expr'.depth \in Nat
      /\ expr'.for = expr.for /\ expr'.slot = expr.slot
  BY <1>1, <1>2
<1> HIDE DEF m
<1> SUFFICES Climbing
  BY <1>3
<1>4. ASSUME NEW op \in Literals, NEW a \in Nat, NEW b, Built(0), Emit(<<Instr(op, a, b)>>)
      PROVE  Climbing
  <2>1. Standing' = m + 1
    BY <1>1, <1>3, <1>4
  <2>2. Flows(Instr(op, a, b), m, m + 1) /\ Instr(op, a, b).op \notin Jumps
    BY <1>3, FlowOf, NoJumps, OpOf
  <2> QED
    BY <1>3, <1>4, <2>1, <2>2, ClimbingOne DEF m
<1>5. ASSUME NEW op \in OneTaken, NEW a \in Nat, NEW b, Built(1), Emit(<<Instr(op, a, b)>>)
      PROVE  Climbing
  <2>1. Standing' = m /\ m >= 1
    BY <1>1, <1>3, <1>5
  <2>2. Flows(Instr(op, a, b), m, m) /\ Instr(op, a, b).op \notin Jumps
    BY <1>3, <2>1, FlowOf, NoJumps, OpOf
  <2> QED
    BY <1>3, <1>5, <2>1, <2>2, ClimbingOne DEF m
<1>6. ASSUME NEW op, NEW a \in Nat, NEW b, op \in TwoTaken \/ (op = "HASH" /\ a = 1), Built(2),
             Emit(<<Instr(op, a, b)>>)
      PROVE  Climbing
  <2>1. Standing' = m - 1 /\ m >= 2
    BY <1>1, <1>3, <1>6
  <2>2. Flows(Instr(op, a, b), m, m - 1) /\ Instr(op, a, b).op \notin Jumps
    BY <1>3, <1>6, <2>1, FlowOf, NoJumps, OpOf
  <2> QED
    BY <1>3, <1>6, <2>1, <2>2, ClimbingOne DEF m
<1>7. CASE Number
  <2>1. PICK n \in Numbers : Emit(<<Instr("PUSH", n % Byte, 0)>>)
    BY <1>7 DEF Number
  <2>2. n % Byte \in Nat
    BY CompilerAssumption, Modulo, Limits
  <2> QED
    BY <1>4, <1>7, <2>1, <2>2 DEF Number, Leaf, Literals
<1>8. CASE LargeNumber
  <2>1. Standing' = m + 1
    BY <1>1, <1>3, <1>8 DEF LargeNumber, Leaf
  <2> QED
    BY <1>3, <1>8, <2>1, ConstFlows, ClimbingOne DEF LargeNumber, m
<1>9. CASE Literal
  <2>1. CASE \E op \in {"TRUE", "FALSE", "NULL", "PUSH_OBJECT"} : Emit(<<Op(op)>>)
    BY <1>4, <1>9, <2>1 DEF Literal, Leaf, Op, Literals
  <2>2. CASE Emit(<<Instr("SLOAD", 0, 0)>>)
    BY <1>4, <1>9, <2>2 DEF Literal, Leaf, Literals
  <2> QED
    BY <1>9, <2>1, <2>2 DEF Literal
<1>10. CASE Symbol
  <2>1. PICK x \in Names : Emit(<<Instr("SLOAD", Lookup(symbols, x, 0) % Byte, 0)>>)
    BY <1>10 DEF Symbol
  <2>2. Lookup(symbols, x, 0) % Byte \in Nat
    <3>1. Lookup(symbols, x, 0) \in Nat
      BY DEF Typed, ScopeTyped, Tables, Lookup
    <3> QED
      BY <3>1, Modulo, Limits
  <2> QED
    BY <1>4, <1>10, <2>1, <2>2 DEF Symbol, Leaf, Literals
<1>11. CASE IncDec \/ PrintCall
  BY <1>11 DEF IncDec, PrintCall, Operand, BalancedClass
<1>12. CASE Binary
  <2>1. PICK operator \in Operators : Emit(BinaryCode(operator)) /\ Built(2)
    BY <1>12 DEF Binary
  <2>2. Standing' = m - 1 /\ m >= 2
    BY <1>1, <1>3, <2>1
  <2>3. CASE operator = "+"
    <3>1. Emit(<<Op("SWAP"), Op("ADD")>>)
      BY <2>1, <2>3 DEF BinaryCode
    <3>2. /\ Flows(Op("SWAP"), m, m) /\ Op("SWAP").op \notin Jumps
          /\ Flows(Op("ADD"), m, m - 1) /\ Op("ADD").op \notin Jumps
      BY <1>3, <2>2, FlowOf, NoJumps, OpOf DEF Op, TwoTaken
    <3> QED
      BY <1>3, <2>2, <3>1, <3>2, ClimbingTwo DEF m
  <2>4. CASE operator = "%"
    <3>1. code' = code \o <<>>
      BY <2>1, <2>4 DEF BinaryCode, Emit
    <3>2. code' = code
      BY <3>1, ConcatEmptySeq DEF Typed, CodeOK
    <3> QED
      BY <1>3, <2>2, <3>2, ClimbingNone DEF m
  <2>5. CASE operator \notin {"+", "%"}
    <3>1. PICK op \in TwoTaken : BinaryCode(operator) = <<Op(op)>>
      BY <2>5 DEF BinaryCode, Operators, TwoTaken
    <3> QED
      BY <1>6, <2>1, <3>1 DEF Op
  <2> QED
    BY <2>3, <2>4, <2>5
<1>13. CASE Prefix
  <2>1. Built(1)
    BY <1>13 DEF Prefix
  <2>2. CASE Emit(<<Op("NOT")>>)
    BY <1>5, <2>1, <2>2 DEF Op, OneTaken
  <2>3. CASE Emit(<<Instr("PUSH", 0, 0), Op("SWAP"), Op("SUB")>>)
    <3> DEFINE x == Instr("PUSH", 0, 0)
               y == Op("SWAP")
               z == Op("SUB")
    <3>1. Standing' = m /\ m >= 1
      BY <1>1, <1>3, <2>1
    <3>2. m + 1 \in Nat /\ m + 1 >= 2 /\ (m + 1) - 1 = m
      BY <1>3, <3>1
    <3>3. /\ x.op \notin Jumps /\ Flows(x, m, m + 1)
          /\ y.op \notin Jumps /\ Flows(y, m + 1, m + 1)
          /\ z.op \notin Jumps /\ Flows(z, m + 1, m)
      <4>1. Flows(x, m, m + 1)
        BY <1>3, FlowOf DEF Literals
      <4>2. Flows(y, m + 1, m + 1)
        BY <3>2, FlowOf DEF Op
      <4>3. Flows(z, m + 1, m)
        <5>1. Flows(Instr("SUB", 0, 0), m + 1, (m + 1) - 1)
          BY <3>2, FlowOf DEF TwoTaken
        <5> QED
          BY <3>2, <5>1 DEF Op
      <4>4. x.op = "PUSH" /\ y.op = "SWAP" /\ z.op = "SUB"
        BY OpOf
      <4> QED
        BY <4>1, <4>2, <4>3, <4>4 DEF Jumps
    <3>4. Emit(<<x, y, z>>)
      BY <2>3
    <3> HIDE DEF x, y, z
    <3>5. <<x, y, z>> \in Seq({x, y, z})
      OBVIOUS
    <3>6. Climbs(m, <<x, y, z>>, Standing')
      BY <1>3, <3>1, <3>2, <3>3, ClimbsThree
    <3> QED
      BY <3>4, <3>5, <3>6 DEF Climbing, m
  <2> QED
    BY <1>13, <2>2, <2>3 DEF Prefix
<1>14. CASE Operation
  <2>1. CASE Built(2) /\ Emit(<<Op("ACCESS")>>)
    BY <1>6, <2>1 DEF Op, TwoTaken
  <2>2. CASE Built(1) /\ Emit(<<Op("LENGTH")>>)
    BY <1>5, <2>2 DEF Op, OneTaken
  <2>3. CASE Built(2) /\ Emit(<<Op("CONTAINS")>>)
    BY <1>6, <2>3 DEF Op, TwoTaken
  <2>4. CASE Built(1) /\ Emit(<<Op("NONCE")>>)
    BY <1>5, <2>4 DEF Op, OneTaken
  <2>5. CASE Built(2) /\ Emit(<<Instr("HASH", 1, 0)>>)
    BY <1>6, <2>5
  <2>6. "unnamed" \notin class.exprs
    BY DEF BalancedClass
  <2> QED
    BY <1>14, <2>1, <2>2, <2>3, <2>4, <2>5, <2>6 DEF Operation
<1>15. CASE WithConstant
  <2>1. Built(1)
    BY <1>15 DEF WithConstant
  <2>2. CASE Emit(<<Const(Key), Op("GET_PROPERTY")>>)
    <3>1. Standing' = m /\ m >= 1 /\ m + 1 \in Nat /\ m + 1 >= 2 /\ (m + 1) - 1 = m
      BY <1>1, <1>3, <2>1
    <3>2. Flows(Op("GET_PROPERTY"), m + 1, m) /\ Op("GET_PROPERTY").op \notin Jumps
      <4>1. Flows(Instr("GET_PROPERTY", 0, 0), m + 1, (m + 1) - 1)
        BY <3>1, FlowOf DEF TwoTaken
      <4> QED
        BY <3>1, <4>1, OpOf DEF Op, Jumps
    <3> QED
      BY <1>3, <2>2, <3>1, <3>2, ConstFlows, ClimbingTwo DEF m
  <2>3. CASE AddConst(Tree) /\ Emit(<<Instr("GET_ENV", Const(Tree).a, 0)>>)
    <3>1. Const(Tree).a \in Nat
      BY <2>3, PoolIndexInPool, ConstantsAreValues DEF Typed, Emitted
    <3> QED
      BY <1>5, <2>1, <2>3, <3>1 DEF OneTaken
  <2> QED
    BY <1>15, <2>2, <2>3 DEF WithConstant
<1>16. CASE ArrayLiteral
  <2>1. Len(pool) \in Nat
    BY LenProperties DEF Typed, CodeOK
  <2> QED
    BY <1>4, <1>16, <2>1 DEF ArrayLiteral, Leaf, Literals
<1>17. CASE ErrorExpr
  <2> DEFINE k == Const(Key)
             x == Op("PUSH_OBJECT")
             y == Instr("PUSH", 1, 0)
             z == Op("SET_PROPERTY")
             T == {x, k, y, z}
  <2>1. /\ Emit(<<x, k, y, z, k, k, z>>) \/ Emit(<<x, k, y, z>>)
        /\ Standing' = m + 1
    BY <1>1, <1>3, <1>17 DEF ErrorExpr, Leaf
  <2>2. x.op \notin Jumps /\ k.op \notin Jumps /\ y.op \notin Jumps /\ z.op \notin Jumps
    BY OpOf, ConstFlows, <1>3 DEF Jumps
  <2>3. m + 1 \in Nat /\ m + 2 \in Nat /\ m + 3 \in Nat /\ (m + 1) + 1 = m + 2
        /\ (m + 2) + 1 = m + 3 /\ (m + 3) - 2 = m + 1 /\ m + 3 >= 3
    BY <1>3
  <2>4. Flows(x, m, m + 1)
    BY <1>3, FlowOf DEF Op, Literals
  <2>5. Flows(k, m + 1, m + 2)
    BY <2>3, ConstFlows
  <2>6. Flows(y, m + 2, m + 3)
    <3>1. Flows(y, m + 2, (m + 2) + 1)
      BY <2>3, FlowOf DEF Literals
    <3> QED
      BY <2>3, <3>1
  <2>7. Flows(z, m + 3, m + 1)
    <3>1. Flows(Instr("SET_PROPERTY", 0, 0), m + 3, (m + 3) - 2)
      BY <2>3, FlowOf
    <3> QED
      BY <2>3, <3>1 DEF Op
  <2>8. Flows(k, m + 2, m + 3)
    <3>1. Flows(k, m + 2, (m + 2) + 1)
      BY <2>3, ConstFlows
    <3> QED
      BY <2>3, <3>1
  <2> HIDE DEF x, k, y, z
  <2>9. /\ <<x, k, y>> \in Seq(T) /\ <<x, k, y, z>> = Append(<<x, k, y>>, z)
        /\ <<x, k, y, z>> \in Seq(T) /\ <<x, k, y, z, k>> = Append(<<x, k, y, z>>, k)
        /\ <<x, k, y, z, k>> \in Seq(T) /\ <<x, k, y, z, k, k>> = Append(<<x, k, y, z, k>>, k)
        /\ <<x, k, y, z, k, k>> \in Seq(T)
        /\ <<x, k, y, z, k, k, z>> = Append(<<x, k, y, z, k, k>>, z)
        /\ <<x, k, y, z, k, k, z>> \in Seq(T)
    OBVIOUS
  <2>10. Climbs(m, <<x, k, y>>, m + 3)
    BY <1>3, <2>2, <2>3, <2>4, <2>5, <2>6, ClimbsThree
  <2>11. Climbs(m, <<x, k, y, z>>, m + 1)
    BY <1>3, <2>2, <2>3, <2>7, <2>9, <2>10, ClimbsOn
  <2>12. Climbs(m, <<x, k, y, z, k>>, m + 2)
    BY <1>3, <2>2, <2>3, <2>5, <2>9, <2>11, ClimbsOn
  <2>13. Climbs(m, <<x, k, y, z, k, k>>, m + 3)
    BY <1>3, <2>2, <2>3, <2>8, <2>9, <2>12, ClimbsOn
  <2>14. Climbs(m, <<x, k, y, z, k, k, z>>, m + 1)
    BY <1>3, <2>2, <2>3, <2>7, <2>9, <2>13, ClimbsOn
  <2> QED
    BY <2>1, <2>9, <2>11, <2>14 DEF Climbing, m
<1> QED
  BY <1>7, <1>8, <1>9, <1>10, <1>11, <1>12, <1>13, <1>14, <1>15, <1>16, <1>17 DEF Computes

\* The statements that change no height but that of the operands, and put nothing on the
\* stack that they do not need.
PlainStmt ==
  \/ BeginExpressionStmt \/ EndExpressionStmt \/ EndVarDecl \/ EndAssign
  \/ (\E x \in Names, isConst \in BOOLEAN : BeginVarDecl(x, isConst))
  \/ (\E x \in Names : AssignConstant(x) \/ BeginAssign(x))
  \/ BeginMemberAssign \/ EndField \/ BeginReturn \/ EndReturn \/ EmptyReturn
  \/ BeginEmit \/ EndEmit \/ BeginRequire \/ BeginIf

\* Between statements nothing is counted on.
LEMMA NothingStands ==
  /\ ~InExpr => Standing = 0
  /\ expr' = NoExpr => Standing' = 0 /\ expr'.depth = 0 /\ expr'.for = "nothing"
  /\ \A for, name, slot : expr' = Expr(for, name, slot) =>
       /\ expr'.depth = 0 /\ expr'.for = for /\ expr'.slot = slot
       /\ for \notin {"event", "field"} => Standing' = 0
  /\ expr' = Expr("event", "", 0) => Standing' = 1
  /\ expr' = Expr("field", "", 0) => Standing' = 2
<1>1. ~InExpr => Standing = 0
  BY DEF InExpr, Standing
<1>2. ASSUME expr' = NoExpr
      PROVE  Standing' = 0 /\ expr'.depth = 0 /\ expr'.for = "nothing"
  <2>1. NoExpr.for = "nothing" /\ NoExpr.depth = 0
    BY DEF NoExpr
  <2>2. expr'.for = "nothing" /\ expr'.depth = 0
    BY <1>2, <2>1
  <2> QED
    BY <2>2 DEF Standing
<1>3. ASSUME NEW for, NEW name, NEW slot, expr' = Expr(for, name, slot)
      PROVE  /\ expr'.depth = 0 /\ expr'.for = for /\ expr'.slot = slot
             /\ for \notin {"event", "field"} => Standing' = 0
             /\ for = "event" => Standing' = 1
             /\ for = "field" => Standing' = 2
  <2>1. /\ Expr(for, name, slot).for = for /\ Expr(for, name, slot).depth = 0
        /\ Expr(for, name, slot).slot = slot
    BY DEF Expr
  <2>2. expr'.for = for /\ expr'.depth = 0 /\ expr'.slot = slot
    BY <1>3, <2>1
  <2> QED
    BY <2>2 DEF Standing
<1> QED
  BY <1>1, <1>2, <1>3

LEMMA LabelFlows ==
  ASSUME ScopeTyped, NEW v, NEW i \in Labels(v)
  PROVE  i.op \notin Jumps /\ Flows(i, 0, 1)
<1>1. i.op \in {"CONST", "PUSH", "SLOAD"}
  BY LabelOp
<1> QED
  BY <1>1 DEF Flows, Takes, Gives, Literals, OneTaken, TwoTaken, Jumps

\* An error raised with a message of its own.
LEMMA Erring ==
  /\ Const(Message).op \notin Jumps /\ Flows(Const(Message), 0, 1)
  /\ Op("ERR").op \notin Jumps /\ Flows(Op("ERR"), 1, 0)
<1>1. Flows(Const(Message), 0, 0 + 1) /\ Const(Message).op \notin Jumps
  BY ConstFlows
<1>2. Op("ERR").op \notin Jumps /\ Flows(Op("ERR"), 1, 0)
  BY OpOf DEF Flows, Takes, Gives, Literals, OneTaken, TwoTaken, Jumps
<1> QED
  BY <1>1, <1>2

LEMMA StmtClimbing ==
  ASSUME Typed, BalancedClass, expr.depth \in Nat, PlainStmt
  PROVE  /\ Climbing /\ expr'.depth \in Nat /\ Standing' \in Nat
         /\ expr'.for \notin {"while", "for"}
<1>1. CASE \/ BeginExpressionStmt \/ BeginReturn \/ BeginRequire \/ BeginIf
           \/ \E x \in Names : BeginAssign(x)
  <2>1. PICK for, name, slot : /\ expr' = Expr(for, name, slot)
                               /\ for \in {"statement", "return", "condition", "if", "assignment"}
    BY <1>1 DEF BeginExpressionStmt, BeginReturn, BeginRequire, BeginIf, BeginAssign
  <2>2. Standing = 0 /\ UNCHANGED code
    BY <1>1, NothingStands
       DEF BeginExpressionStmt, BeginReturn, BeginRequire, BeginIf, BeginAssign, Begins
  <2>3. Standing' = 0 /\ expr'.depth = 0 /\ expr'.for = for
    BY <2>1, NothingStands
  <2> QED
    BY <2>1, <2>2, <2>3, ClimbingNone
<1>2. CASE EndExpressionStmt
  <2>1. Standing = 1 /\ UNCHANGED code /\ expr' = NoExpr
    BY <1>2 DEF EndExpressionStmt, Ends, Standing
  <2>2. Standing' = 0 /\ expr'.depth = 0 /\ expr'.for = "nothing"
    BY <2>1, NothingStands
  <2> QED
    BY <2>1, <2>2, ClimbingNone
<1>3. CASE EndVarDecl \/ EndAssign \/ EndReturn
  <2>1. Standing = 1 /\ expr' = NoExpr
    BY <1>3 DEF EndVarDecl, EndAssign, EndReturn, Ends, Standing
  <2>2. Standing' = 0 /\ expr'.depth = 0 /\ expr'.for = "nothing"
    BY <2>1, NothingStands
  <2>0. PICK op \in {"STORE", "RET", "PRINT"} : \E a : Emit(<<Instr(op, a, 0)>>)
    BY <1>3 DEF EndVarDecl, EndAssign, EndReturn, ReturnCode, Op
  <2>3. PICK a : Emit(<<Instr(op, a, 0)>>)
    BY <2>0
  <2>4. Instr(op, a, 0).op \notin Jumps /\ Flows(Instr(op, a, 0), 1, 0)
    BY OpOf DEF Flows, Takes, Gives, Literals, OneTaken, TwoTaken, Jumps
  <2> QED
    BY <2>1, <2>2, <2>3, <2>4, ClimbingOne
<1>4. CASE EmptyReturn
  <2>1. UNCHANGED expr /\ ~InExpr /\ Emit(<<Op(IF isInFunction THEN "RET" ELSE "PRINT")>>)
        /\ isInFunction
    BY <1>4 DEF EmptyReturn, Begins, ReturnCode, BalancedClass
  <2>2. Standing = 0 /\ Standing' = 0 /\ expr'.for = "nothing"
    BY <2>1, NothingStands DEF InExpr, Standing
  <2>3. Emit(<<Op("RET")>>)
    BY <2>1
  <2>4. Op("RET").op \notin Jumps /\ Flows(Op("RET"), 0, 0)
    BY OpOf DEF Flows, Takes, Gives, Literals, OneTaken, TwoTaken, Jumps
  <2>5. expr'.depth \in Nat
    BY <2>1
  <2> QED
    BY <2>2, <2>3, <2>4, <2>5, ClimbingOne
<1>5. ASSUME NEW x \in Names, NEW isConst \in BOOLEAN, BeginVarDecl(x, isConst)
      PROVE  /\ Climbing /\ expr'.depth \in Nat /\ Standing' \in Nat
             /\ expr'.for \notin {"while", "for"}
  <2>1. Standing = 0 /\ expr' = Expr("variable", x, 0)
    BY <1>5, NothingStands DEF BeginVarDecl, Begins
  <2>2. Standing' = 0 /\ expr'.depth = 0 /\ expr'.for = "variable"
    <3>1. expr'.depth = 0 /\ expr'.for = "variable"
      BY <2>1, NothingStands
    <3>2. "variable" \notin {"event", "field"}
      OBVIOUS
    <3> QED
      BY <2>1, <3>1, <3>2, NothingStands
  <2>3. UNCHANGED code \/ Emit(<<Const(Message), Op("ERR")>>)
    BY <1>5 DEF BeginVarDecl
  <2> QED
    BY <2>1, <2>2, <2>3, ClimbingNone, Erring, ClimbingTwo
<1>6. ASSUME NEW x \in Names, AssignConstant(x)
      PROVE  /\ Climbing /\ expr'.depth \in Nat /\ Standing' \in Nat
             /\ expr'.for \notin {"while", "for"}
  <2>1. UNCHANGED expr /\ ~InExpr /\ Emit(<<Const(Message), Op("ERR")>>)
    BY <1>6 DEF AssignConstant, Begins
  <2>2. Standing = 0 /\ Standing' = 0 /\ expr'.for = "nothing" /\ expr'.depth \in Nat
    BY <2>1, NothingStands DEF InExpr, Standing
  <2> QED
    BY <2>1, <2>2, Erring, ClimbingTwo
<1>7. CASE BeginMemberAssign
  <2>1. PICK a \in Nat : Emit(<<Instr("SLOAD", a, 0), Const(Key)>>)
    <3>1. \A x \in Names : Lookup(symbols, x, 0) % Byte \in Nat
      <4>1. \A x \in Names : Lookup(symbols, x, 0) \in Nat
        BY DEF Typed, ScopeTyped, Tables, Lookup
      <4> QED
        BY <4>1, Modulo, Limits
    <3>2. "member" \notin class.exprs
      BY <1>7 DEF BeginMemberAssign, Begins, BalancedClass
    <3> QED
      BY <1>7, <3>1, <3>2 DEF BeginMemberAssign
  <2>2. Standing = 0 /\ expr' = Expr("field", "", 0)
    BY <1>7, NothingStands DEF BeginMemberAssign, Begins
  <2>3. Standing' = 2 /\ expr'.depth = 0 /\ expr'.for = "field"
    <3>1. expr'.depth = 0 /\ expr'.for = "field"
      BY <2>2, NothingStands
    <3> QED
      BY <2>2, <3>1, NothingStands
  <2>4. Instr("SLOAD", a, 0).op \notin Jumps /\ Flows(Instr("SLOAD", a, 0), 0, 1)
    BY OpOf DEF Flows, Takes, Gives, Literals, OneTaken, TwoTaken, Jumps
  <2>5. Const(Key).op \notin Jumps /\ Flows(Const(Key), 1, 2)
    <3>1. Flows(Const(Key), 1, 1 + 1)
      BY ConstFlows
    <3> QED
      BY <3>1, ConstFlows
  <2>6. /\ Flows(Instr("SLOAD", a, 0), Standing, 1) /\ Flows(Const(Key), 1, Standing')
        /\ 1 \in Nat /\ Standing \in Nat /\ Standing' \in Nat
    BY <2>2, <2>3, <2>4, <2>5
  <2>7. Climbing
    BY <2>1, <2>4, <2>5, <2>6, ClimbingTwo
  <2> QED
    BY <2>3, <2>7
<1>8. CASE EndField \/ EndEmit
  <2>1. PICK m \in {2, 3}, op \in {"SET_PROPERTY", "EMIT"} :
          Standing = m /\ Emit(<<Op(op)>>) /\ (op = "SET_PROPERTY" => m = 3)
    BY <1>8 DEF EndField, EndEmit, Ends, Standing
  <2>2. expr' = NoExpr
    BY <1>8 DEF EndField, EndEmit
  <2>3. Standing' = 0 /\ expr'.depth = 0 /\ expr'.for = "nothing"
    BY <2>2, NothingStands
  <2>4. Op(op).op \notin Jumps /\ Flows(Op(op), m, 0)
    BY <2>1, OpOf DEF Flows, Takes, Gives, Literals, OneTaken, TwoTaken, Jumps
  <2> QED
    BY <2>1, <2>3, <2>4, ClimbingOne
<1>9. CASE BeginEmit
  <2> PICK i \in Labels(EventName) : Emit(<<i>>)
    BY <1>9 DEF BeginEmit
  <2>1. Standing = 0 /\ expr' = Expr("event", "", 0)
    BY <1>9, NothingStands DEF BeginEmit, Begins
  <2>2. Standing' = 1 /\ expr'.depth = 0 /\ expr'.for = "event"
    <3>1. expr'.depth = 0 /\ expr'.for = "event"
      BY <2>1, NothingStands
    <3> QED
      BY <2>1, <3>1, NothingStands
  <2>3. i.op \notin Jumps /\ Flows(i, 0, 1)
    BY LabelFlows DEF Typed
  <2>4. /\ Flows(i, Standing, Standing')
        /\ Standing \in Nat /\ Standing' \in Nat
    BY <2>1, <2>2, <2>3
  <2>5. Climbing
    BY <2>1, <2>3, <2>4, ClimbingOne
  <2> QED
    BY <2>2, <2>5
<1> QED
  BY <1>1, <1>2, <1>3, <1>4, <1>5, <1>6, <1>7, <1>8, <1>9 DEF PlainStmt

\* The stack of open statements gains, changes or loses its last one.
LEMMA OpenParts ==
  ASSUME Typed, NEW e \in Statements,
         \/ UNCHANGED open
         \/ open' = Append(open, e)
         \/ open # <<>> /\ open' = [open EXCEPT ![Len(open)] = e]
         \/ open # <<>> /\ open' = Front(open)
  PROVE  \A k \in 1..Len(open') : open'[k] = e \/ \E j \in 1..Len(open) : open'[k] = open[j]
<1>1. open \in Seq(Statements) /\ Len(open) \in Nat
  BY LenProperties DEF Typed, OpenOK
<1>2. CASE UNCHANGED open
  BY <1>2
<1>3. CASE open' = Append(open, e)
  <2>1. /\ Len(open') = Len(open) + 1 /\ \A i \in 1..Len(open) : open'[i] = open[i]
        /\ open'[Len(open) + 1] = e
    BY <1>1, <1>3, AppendedProperties
  <2>2. ASSUME NEW k \in 1..Len(open')
        PROVE  k \in 1..Len(open) \/ k = Len(open) + 1
    BY <1>1, <2>1
  <2> QED
    BY <2>1, <2>2
<1>4. CASE open # <<>> /\ open' = [open EXCEPT ![Len(open)] = e]
  <2>1. /\ Len(open') = Len(open)
        /\ \A i \in 1..Len(open) : open'[i] = IF i = Len(open) THEN e ELSE open[i]
    BY <1>1, <1>4
  <2> QED
    BY <2>1
<1>5. CASE open # <<>> /\ open' = Front(open)
  <2>1. Len(open') = Len(open) - 1 /\ \A i \in 1..Len(open') : open'[i] = open[i]
    BY <1>1, <1>5, FrontProperties
  <2>2. ASSUME NEW k \in 1..Len(open')
        PROVE  k \in 1..Len(open)
    BY <1>1, <2>1
  <2> QED
    BY <2>1, <2>2
<1> QED
  BY <1>2, <1>3, <1>4, <1>5

LEMMA MarkedNext ==
  ASSUME NEW Z, Marked(Z), NEW Y, Z \subseteq Y,
         \A k \in 1..Len(open') :
           \/ open'[k].kind # "object" /\ Marks(open'[k]) \subseteq Y
           \/ \E j \in 1..Len(open) : open'[k] = open[j],
         \A f \in DOMAIN functions' :
           \/ functions'[f].addr \in Y
           \/ f \in DOMAIN functions /\ functions'[f] = functions[f],
         expr'.for \in {"while", "for"} => expr'.slot \in Y,
         stage' = "compiled" => Pos' - 1 \in Y
  PROVE  Marked(Y)'
<1>1. \A k \in 1..Len(open') : open'[k].kind # "object" /\ Marks(open'[k]) \subseteq Y
  BY DEF Marked
<1>2. \A f \in DOMAIN functions' : functions'[f].addr \in Y
  BY DEF Marked
<1> QED
  BY <1>1, <1>2 DEF Marked

\* A step that emits straight code.
LEMMA FlatBalanced ==
  ASSUME Typed, Typed', Balanced, Climbing, UNCHANGED <<open, functions>>,
         expr'.depth \in Nat, Standing' \in Nat, stage' # "compiled",
         expr'.for \in {"while", "for"} => expr'.for = expr.for /\ expr'.slot = expr.slot
  PROVE  Balanced'
<1>1. PICK h, Z : Heights(h, Z) /\ Marked(Z) /\ h[Pos] = Standing
  BY DEF Balanced
<1>2. PICK T : \E s \in Seq(T) : Emit(s) /\ Climbs(Standing, s, Standing')
  BY DEF Climbing
<1>3. PICK s \in Seq(T) : Emit(s) /\ Climbs(Standing, s, Standing')
  BY <1>2
<1>4. PICK t \in [0..Len(s) -> Nat] :
        /\ t[0] <= Standing /\ t[Len(s)] = Standing'
        /\ \A k \in 1..Len(s) : s[k].op \notin Jumps /\ Flows(s[k], t[k - 1], t[k])
  BY <1>3 DEF Climbs
<1>5. /\ Pos \in Nat /\ Len(s) \in Nat /\ Pos' = Pos + Len(s) /\ KeepsBut({})
      /\ \A i \in 1..Pos' : i > Pos => i - Pos \in 1..Len(s) /\ code'[i] = s[i - Pos]
  BY <1>3, Emitting DEF Typed
<1>6. ASSUME NEW k \in 1..Len(s)
      PROVE  code'[Pos + k] = s[k]
  <2>1. Pos + k \in 1..Pos' /\ Pos + k > Pos /\ (Pos + k) - Pos = k
    BY <1>5
  <2> QED
    BY <1>5, <2>1
<1>7. \A k \in 1..Len(s) : Flows(code'[Pos + k], t[k - 1], t[k]) /\ code'[Pos + k].op \notin Jumps
  BY <1>4, <1>6
<1>8. \A i \in 1..Pos : code'[i] = code[i]
  BY <1>5 DEF KeepsBut
<1>9. t[0] <= h[Pos] /\ Z \subseteq Z
  BY <1>1, <1>4
<1>10. Raises(h, Z, Len(s), t, Z)
  BY <1>1, <1>5, <1>7, <1>8, <1>9 DEF Raises
<1>11. Marked(Z)'
  <2>1. expr'.for \in {"while", "for"} => expr'.slot \in Z
    BY <1>1 DEF Marked
  <2> QED
    BY <1>1, <2>1, MarkedNext
<1>12. \E g : Heights(g, Z)' /\ g[Pos'] = t[Len(s)]
  BY <1>10, HeightsGrow
<1> QED
  BY <1>4, <1>11, <1>12 DEF Balanced

\* A step between two statements: every address that it adds may be branched to.
Level(h, Z, n, Y) ==
  /\ Heights(h, Z) /\ Marked(Z) /\ h[Pos] = 0
  /\ Standing' = 0 /\ expr'.depth \in Nat
  /\ n \in Nat /\ Pos' = Pos + n /\ Y = Z \cup (Pos..Pos')
  /\ \A i \in 1..Pos :
       \/ code'[i] = code[i]
       \/ code[i].op \in Jumps /\ code'[i].op = code[i].op /\ code'[i].a \in Y
  /\ \A k \in 1..n :
       /\ Flows(code'[Pos + k], 0, 0)
       /\ code'[Pos + k].op \in Jumps => code'[Pos + k].a \in Y
  /\ \A k \in 1..Len(open') :
       \/ open'[k].kind # "object" /\ Marks(open'[k]) \subseteq Y
       \/ \E j \in 1..Len(open) : open'[k] = open[j]
  /\ \A f \in DOMAIN functions' :
       \/ functions'[f].addr \in Y
       \/ f \in DOMAIN functions /\ functions'[f] = functions[f]
  /\ expr'.for \in {"while", "for"} => expr'.slot \in Y
  /\ stage' = "compiled" => Pos' - 1 \in Y

LEMMA LevelBalanced ==
  ASSUME Typed, Typed', NEW h, NEW Z, NEW n, NEW Y, Level(h, Z, n, Y)
  PROVE  Balanced'
<1> USE DEF Level
<1>1. PICK t : t = [k \in 0..n |-> 0]
  OBVIOUS
<1>2. Pos \in Nat
  BY LenProperties DEF Typed, CodeOK, Pos
<1>3. t \in [0..n -> Nat] /\ t[0] <= h[Pos] /\ t[n] = 0
  BY <1>1
<1>4. \A z \in Y : z \in Z \/ (z \in Pos..(Pos + n) /\ t[z - Pos] = 0)
  <2>1. ASSUME NEW z \in Pos..(Pos + n)
        PROVE  z - Pos \in 0..n
    BY <1>2
  <2> QED
    BY <1>1, <2>1
<1>5. ASSUME NEW k \in 1..n
      PROVE  /\ Flows(code'[Pos + k], t[k - 1], t[k])
             /\ code'[Pos + k].op \in Jumps => code'[Pos + k].a \in Y
  <2>1. k \in 0..n /\ k - 1 \in 0..n
    OBVIOUS
  <2> QED
    BY <1>1, <2>1
<1>6. Z \subseteq Y
  OBVIOUS
<1>7. Raises(h, Z, n, t, Y)
  BY <1>3, <1>4, <1>5, <1>6 DEF Raises
<1>8. Marked(Y)'
  BY <1>6, MarkedNext
<1>9. \E g : Heights(g, Y)' /\ g[Pos'] = t[n]
  BY <1>7, HeightsGrow
<1> QED
  BY <1>3, <1>8, <1>9 DEF Balanced

\* The test of a branch is taken from the stack, and its jump has no target yet.
LEMMA TestBalanced ==
  ASSUME Typed, Typed', Balanced, Emit(<<Hole("JMP_IF")>>), Standing = 1, expr' = NoExpr,
         UNCHANGED <<functions, stage>>, stage # "compiled", NEW e \in Statements,
         open' = Append(open, e) \/ (open # <<>> /\ open' = [open EXCEPT ![Len(open)] = e]),
         e.kind # "object", \A Z : Marked(Z) => Marks(e) \subseteq Z
  PROVE  Balanced'
<1>1. PICK h, Z : Heights(h, Z) /\ Marked(Z) /\ h[Pos] = Standing
  BY DEF Balanced
<1>2. PICK t : t = [k \in 0..1 |-> IF k = 0 THEN 1 ELSE 0]
  OBVIOUS
<1>3. t \in [0..1 -> Nat] /\ t[0] = 1 /\ t[1] = 0 /\ t[0] <= h[Pos]
  BY <1>1, <1>2
<1>4. Pos \in Nat /\ Pos' = Pos + 1 /\ KeepsBut({}) /\ code'[Pos + 1] = Hole("JMP_IF")
  BY EmittingOne DEF Typed
<1>5. Standing' = 0 /\ expr'.depth = 0 /\ expr'.for = "nothing"
  BY NothingStands
<1>6. Hole("JMP_IF").a = 0 /\ Flows(Hole("JMP_IF"), 1, 0)
  BY DEF Hole, Instr, Flows, Takes, Gives, Literals, OneTaken, TwoTaken
<1>7. \A k \in 1..1 : /\ Flows(code'[Pos + k], t[k - 1], t[k])
                      /\ code'[Pos + k].op \in Jumps => code'[Pos + k].a \in Z
  <2>1. \A k \in 1..1 : k = 1 /\ k - 1 = 0
    OBVIOUS
  <2>2. 0 \in Z
    BY <1>1 DEF Heights
  <2> QED
    BY <1>3, <1>4, <1>6, <2>1, <2>2
<1>8. \A i \in 1..Pos : code'[i] = code[i]
  BY <1>4 DEF KeepsBut
<1>9. Z \subseteq Z /\ 1 \in Nat
  OBVIOUS
<1>10. \E g : Heights(g, Z)' /\ g[Pos'] = t[1]
  <2>1. Raises(h, Z, 1, t, Z)
    BY <1>1, <1>3, <1>4, <1>7, <1>8, <1>9 DEF Raises
  <2> QED
    BY <2>1, HeightsGrow
<1>11. Marked(Z)'
  <2>1. \A k \in 1..Len(open') : open'[k] = e \/ \E j \in 1..Len(open) : open'[k] = open[j]
    BY OpenParts
  <2>2. Marks(e) \subseteq Z
    BY <1>1
  <2>3. \A k \in 1..Len(open') :
           \/ open'[k].kind # "object" /\ Marks(open'[k]) \subseteq Z
           \/ \E j \in 1..Len(open) : open'[k] = open[j]
    BY <2>1, <2>2
  <2>4. \A f \in DOMAIN functions' : f \in DOMAIN functions /\ functions'[f] = functions[f]
    OBVIOUS
  <2> QED
    BY <1>1, <1>5, <1>9, <2>3, <2>4, MarkedNext
<1> QED
  BY <1>3, <1>5, <1>10, <1>11 DEF Balanced

LEMMA BeginBalanced ==
  ASSUME Typed, Typed', Balanced, BeginWhile \/ BeginForCondition
  PROVE  Balanced'
<1>1. PICK h, Z : Heights(h, Z) /\ Marked(Z) /\ h[Pos] = Standing
  BY DEF Balanced
<1>2. /\ expr.depth \in Nat /\ Pos \in Nat /\ code \in Seq(Emitted) /\ UNCHANGED <<code, open, functions>>
      /\ ~InExpr /\ stage' # "compiled"
      /\ \E for \in {"while", "for"} : expr' = Expr(for, "", Pos)
  BY LenProperties DEF Balanced, Typed, CodeOK, Pos, BeginWhile, BeginForCondition, Begins, decls
<1>3. PICK for \in {"while", "for"} : expr' = Expr(for, "", Pos)
  BY <1>2
<1>4. h[Pos] = 0 /\ Standing' = 0 /\ expr'.depth = 0 /\ expr'.for = for /\ expr'.slot = Pos
  BY <1>1, <1>2, <1>3, NothingStands
<1>5. PICK Y : Y = Z \cup (Pos..Pos')
  OBVIOUS
<1>6. PICK n : n = 0
  OBVIOUS
<1>7. Pos' = Pos + n /\ n \in Nat /\ Pos \in Y
  <2>1. Pos' = Pos
    BY <1>2 DEF Pos
  <2>2. Pos \in Nat
    BY <1>2
  <2>3. Pos \in Pos..Pos'
    BY <2>1, <2>2
  <2> QED
    BY <1>5, <1>6, <2>1, <2>2, <2>3
<1>8. \A i \in 1..Pos : code'[i] = code[i]
  BY <1>2
<1>9. /\ \A k \in 1..Len(open') : \E j \in 1..Len(open) : open'[k] = open[j]
      /\ \A k \in 1..n : FALSE
  <2>1. 1..0 = {}
    OBVIOUS
  <2> QED
    BY <1>2, <1>6, <2>1
<1>10. \A f \in DOMAIN functions' : f \in DOMAIN functions /\ functions'[f] = functions[f]
  BY <1>2
<1> QED
  <2>1. Heights(h, Z) /\ Marked(Z) /\ h[Pos] = 0 /\ Standing' = 0 /\ expr'.depth \in Nat
    BY <1>1, <1>4
  <2>2. expr'.for \in {"while", "for"} => expr'.slot \in Y
    BY <1>4, <1>7
  <2>3. stage' # "compiled"
    BY <1>2
  <2>4. Level(h, Z, n, Y)
    BY <1>5, <1>7, <1>8, <1>9, <1>10, <2>1, <2>2, <2>3 DEF Level
  <2> QED
    BY <2>4, LevelBalanced

LEMMA FinishBalanced ==
  ASSUME Typed, Typed', Balanced, Finish
  PROVE  Balanced'
<1>1. PICK h, Z : Heights(h, Z) /\ Marked(Z) /\ h[Pos] = Standing
  BY DEF Balanced
<1>2. /\ expr.depth \in Nat /\ UNCHANGED <<open, functions, expr>> /\ ~InExpr
      /\ Emit(<<Op("HALT")>>)
  BY DEF Balanced, Finish, decls
<1>3. Pos \in Nat /\ Pos' = Pos + 1 /\ KeepsBut({}) /\ code'[Pos + 1] = Op("HALT")
  BY <1>2, EmittingOne DEF Typed
<1>4. h[Pos] = 0 /\ Standing' = 0 /\ expr'.depth \in Nat /\ expr'.for = "nothing"
  BY <1>1, <1>2, NothingStands DEF InExpr, Standing
<1>5. PICK Y : Y = Z \cup (Pos..Pos')
  OBVIOUS
<1>6. Pos' - 1 \in Y
  BY <1>3, <1>5
<1>7. \A i \in 1..Pos : code'[i] = code[i]
  BY <1>3 DEF KeepsBut
<1>8. Op("HALT").op \notin Jumps /\ Flows(Op("HALT"), 0, 0)
  BY OpOf DEF Flows, Takes, Gives, Literals, OneTaken, TwoTaken, Jumps
<1>9. \A k \in 1..1 : Flows(code'[Pos + k], 0, 0) /\ code'[Pos + k].op \notin Jumps
  <2>1. \A k \in 1..1 : k = 1
    OBVIOUS
  <2> QED
    BY <1>3, <1>8, <2>1
<1>10. \A k \in 1..Len(open') : \E j \in 1..Len(open) : open'[k] = open[j]
  BY <1>2
<1>11. \A f \in DOMAIN functions' : f \in DOMAIN functions /\ functions'[f] = functions[f]
  BY <1>2
<1>12. 1 \in Nat
  OBVIOUS
<1> QED
  <2>1. Level(h, Z, 1, Y)
    BY <1>1, <1>2, <1>3, <1>4, <1>5, <1>6, <1>7, <1>9, <1>10, <1>11, <1>12 DEF Level
  <2> QED
    BY <2>1, LevelBalanced

LEMMA RequireBalanced ==
  ASSUME Typed, Typed', Balanced, EndRequire
  PROVE  Balanced'
<1>1. PICK h, Z : Heights(h, Z) /\ Marked(Z) /\ h[Pos] = Standing
  BY DEF Balanced
<1> PICK label \in Labels(Message) : Emit(RequireEnd(label))
  BY DEF EndRequire
<1>2. /\ UNCHANGED <<open, functions>> /\ expr' = NoExpr /\ Standing = 1 /\ stage' # "compiled"
      /\ Emit(<<Instr("JMP_IF", Pos + 2, 0), Instr("JMP", Pos + 4, 0), label, Op("ERR")>>)
  BY DEF EndRequire, RequireEnd, Ends, Standing, decls
<1>3. /\ Pos \in Nat /\ Pos' = Pos + 4 /\ KeepsBut({})
      /\ code'[Pos + 1] = Instr("JMP_IF", Pos + 2, 0) /\ code'[Pos + 2] = Instr("JMP", Pos + 4, 0)
      /\ code'[Pos + 3] = label /\ code'[Pos + 4] = Op("ERR")
  BY <1>2, EmittingFour DEF Typed
<1>4. Standing' = 0 /\ expr'.depth = 0 /\ expr'.for = "nothing"
  BY <1>2, NothingStands
<1>5. PICK t : t = [k \in 0..4 |-> IF k \in {0, 3} THEN 1 ELSE 0]
  OBVIOUS
<1>6. /\ t \in [0..4 -> Nat] /\ t[0] = 1 /\ t[1] = 0 /\ t[2] = 0 /\ t[3] = 1 /\ t[4] = 0
      /\ t[0] <= h[Pos] /\ 4 \in Nat
  BY <1>1, <1>2, <1>5
<1>7. PICK Y : Y = Z \cup {Pos + 2, Pos + 4}
  OBVIOUS
<1>8. \A z \in Y : z \in Z \/ (z \in Pos..(Pos + 4) /\ t[z - Pos] = 0)
  <2>1. Pos + 2 \in Pos..(Pos + 4) /\ (Pos + 2) - Pos = 2
        /\ Pos + 4 \in Pos..(Pos + 4) /\ (Pos + 4) - Pos = 4
    BY <1>3
  <2> QED
    BY <1>6, <1>7, <2>1
<1>9. \A i \in 1..Pos : code'[i] = code[i]
  BY <1>3 DEF KeepsBut
<1>10. ASSUME NEW k \in 1..4
       PROVE  /\ Flows(code'[Pos + k], t[k - 1], t[k])
              /\ code'[Pos + k].op \in Jumps => code'[Pos + k].a \in Y
  <2>1. CASE k = 1
    <3>1. Flows(Instr("JMP_IF", Pos + 2, 0), 1, 0) /\ Instr("JMP_IF", Pos + 2, 0).a = Pos + 2
      BY DEF Instr, Flows, Takes, Gives, Literals, OneTaken, TwoTaken
    <3> QED
      BY <1>3, <1>6, <1>7, <2>1, <3>1
  <2>2. CASE k = 2
    <3>1. Flows(Instr("JMP", Pos + 4, 0), 0, 0) /\ Instr("JMP", Pos + 4, 0).a = Pos + 4
      BY DEF Instr, Flows, Takes, Gives, Literals, OneTaken, TwoTaken
    <3> QED
      BY <1>3, <1>6, <1>7, <2>2, <3>1
  <2>3. CASE k = 3
    BY <1>3, <1>6, <2>3, LabelFlows DEF Typed
  <2>4. CASE k = 4
    BY <1>3, <1>6, <2>4, Erring
  <2> QED
    BY <2>1, <2>2, <2>3, <2>4
<1>11. Z \subseteq Y
  BY <1>7
<1>12. Raises(h, Z, 4, t, Y)
  BY <1>1, <1>3, <1>6, <1>8, <1>9, <1>10, <1>11 DEF Raises
<1>13. \E g : Heights(g, Y)' /\ g[Pos'] = t[4]
  BY <1>12, HeightsGrow
<1>14. Marked(Y)'
  <2>1. \A k \in 1..Len(open') : \E j \in 1..Len(open) : open'[k] = open[j]
    BY <1>2
  <2>2. \A f \in DOMAIN functions' : f \in DOMAIN functions /\ functions'[f] = functions[f]
    BY <1>2
  <2> QED
    BY <1>1, <1>2, <1>4, <1>11, <2>1, <2>2, MarkedNext
<1> QED
  BY <1>4, <1>6, <1>13, <1>14 DEF Balanced

\* No object literal is being filled.
LEMMA NoObject ==
  ASSUME Typed, Balanced
  PROVE  ~Inside("object")
<1>1. PICK h, Z : Marked(Z)
  BY DEF Balanced
<1>2. SUFFICES ASSUME Inside("object") PROVE FALSE
  OBVIOUS
<1>3. open # <<>> /\ open[Len(open)].kind = "object"
  BY <1>2 DEF Inside, Inner, Last
<1>4. Len(open) \in 1..Len(open)
  BY <1>3, LenProperties, EmptySeq DEF Typed, OpenOK
<1> QED
  BY <1>1, <1>3, <1>4 DEF Marked

LEMMA SimpleBalanced ==
  ASSUME Typed, Typed', BalancedClass, Balanced, Simple, [Next]_cvars
  PROVE  Balanced'
<1>0. expr.depth \in Nat /\ UNCHANGED open
  BY SimpleSteps DEF Balanced
<1>1. CASE Computes
  <2>1. UNCHANGED functions /\ stage' # "compiled"
    BY <1>1 DEF Computes, Number, LargeNumber, Literal, Symbol, IncDec, Binary, Prefix, PrintCall,
         Operation, WithConstant, ArrayLiteral, ErrorExpr, Operand, decls
  <2> QED
    BY <1>0, <1>1, <2>1, ComputesClimbing, FlatBalanced
<1>2. CASE PlainStmt
  <2>1. UNCHANGED functions /\ stage' # "compiled"
    BY <1>2 DEF PlainStmt, BeginExpressionStmt, EndExpressionStmt, EndVarDecl, EndAssign,
         BeginVarDecl, AssignConstant, BeginAssign, BeginMemberAssign, EndField, BeginReturn,
         EndReturn, EmptyReturn, BeginEmit, EndEmit, BeginRequire, BeginIf, Begins, Ends, decls
  <2> QED
    BY <1>0, <1>2, <2>1, StmtClimbing, FlatBalanced
<1>3. CASE UserCall
  BY <1>3 DEF UserCall, Operand, BalancedClass
<1>4. CASE BeginField
  BY <1>4, NoObject DEF BeginField
<1>5. CASE BeginWhile \/ BeginForCondition
  BY <1>5, BeginBalanced
<1>6. CASE EndRequire
  BY <1>6, RequireBalanced
<1>7. CASE Finish
  BY <1>7, FinishBalanced
<1>8. CASE CompilerPanics
  <2>1. UNCHANGED <<code, functions, expr>> /\ stage' # "compiled"
    BY <1>8 DEF CompilerPanics, decls
  <2>2. Standing \in Nat /\ Standing' = Standing
    BY <1>0, <2>1 DEF Standing
  <2>3. Standing' <= Standing /\ Standing' \in Nat
    BY <2>2
  <2> QED
    BY <1>0, <2>1, <2>2, <2>3, ClimbingNone, FlatBalanced
<1>9. CASE UNCHANGED cvars
  BY <1>9 DEF cvars, decls, Balanced, Heights, Marked, Standing, Pos
<1> QED
  BY <1>1, <1>2, <1>3, <1>4, <1>5, <1>6, <1>7, <1>8, <1>9
     DEF Simple, ExprStep, Computes, PlainStmt

\* Where a construct leads branches, and what may be branched to.
Aims(n, e, Y) ==
  /\ e.kind # "object" /\ Marks(e) \subseteq Y
  /\ \A f \in DOMAIN functions' :
       \/ functions'[f].addr \in Y
       \/ f \in DOMAIN functions /\ functions'[f] = functions[f]
  /\ \A i \in 1..Pos :
       \/ code'[i] = code[i]
       \/ code[i].op \in Jumps /\ code'[i].op = code[i].op /\ code'[i].a \in Y
  /\ \A k \in 1..n :
       /\ Flows(code'[Pos + k], 0, 0)
       /\ code'[Pos + k].op \in Jumps => code'[Pos + k].a \in Y

Between(e) ==
  /\ ~InExpr /\ UNCHANGED expr /\ stage' # "compiled"
  /\ e \in Statements
  /\ \/ open' = Append(open, e)
     \/ open # <<>> /\ open' = [open EXCEPT ![Len(open)] = e]
     \/ open # <<>> /\ open' = Front(open)

LEMMA ConstructBalanced ==
  ASSUME Typed, Typed', Balanced, NEW e, Between(e), NEW n \in Nat, Pos' = Pos + n,
         \A Z : Marked(Z) /\ 0 \in Z => Aims(n, e, Z \cup (Pos..Pos'))
  PROVE  Balanced'
<1>1. PICK h, Z : Heights(h, Z) /\ Marked(Z) /\ h[Pos] = Standing
  BY DEF Balanced
<1>2. PICK Y : Y = Z \cup (Pos..Pos')
  OBVIOUS
<1>3. 0 \in Z /\ Aims(n, e, Y)
  BY <1>1, <1>2 DEF Heights
<1>4. /\ h[Pos] = 0 /\ Standing' = 0 /\ expr'.depth \in Nat
      /\ expr'.for = "nothing" /\ stage' # "compiled"
  <2>1. UNCHANGED expr /\ ~InExpr /\ expr.depth \in Nat /\ stage' # "compiled"
    BY DEF Between, Balanced
  <2> QED
    BY <1>1, <2>1, NothingStands DEF InExpr, Standing
<1>5. \A k \in 1..Len(open') :
        \/ open'[k].kind # "object" /\ Marks(open'[k]) \subseteq Y
        \/ \E j \in 1..Len(open) : open'[k] = open[j]
  <2>1. e \in Statements
    BY DEF Between
  <2>2. \A k \in 1..Len(open') : open'[k] = e \/ \E j \in 1..Len(open) : open'[k] = open[j]
    BY <2>1, OpenParts DEF Between
  <2> QED
    BY <1>3, <2>2 DEF Aims
<1>6. Level(h, Z, n, Y)
  BY <1>1, <1>2, <1>3, <1>4, <1>5 DEF Level, Aims
<1> QED
  BY <1>6, LevelBalanced

LEMMA BareFlows ==
  ASSUME NEW i, i.op \in {"JMP", "TRY", "RET", "END_TRY", "HALT"}
  PROVE  Flows(i, 0, 0)
BY DEF Flows, Takes, Gives, Literals, OneTaken, TwoTaken

LEMMA InnerMarks ==
  ASSUME Typed, NEW Z, Marked(Z), open # <<>>
  PROVE  Inner.kind # "object" /\ Marks(Inner) \subseteq Z
<1>1. Len(open) \in 1..Len(open)
  BY LenProperties, EmptySeq DEF Typed, OpenOK
<1> QED
  BY <1>1 DEF Marked, Inner, Last

LEMMA EntryBalanced ==
  ASSUME Typed, Typed', Balanced, (\E f \in Funcs : EnterFunc(f)) \/ EnterTry
  PROVE  Balanced'
<1>1. ~InExpr /\ UNCHANGED expr /\ stage' # "compiled"
  BY DEF EnterFunc, EnterTry, Begins
<1>2. PICK e : /\ e \in Statements /\ e.kind \in {"func", "try"} /\ open' = Append(open, e)
  <2>1. ASSUME NEW f \in Funcs, EnterFunc(f)
        PROVE  \E e : e \in Statements /\ e.kind \in {"func", "try"} /\ open' = Append(open, e)
    BY <2>1, FuncEntered DEF Enters
  <2>2. CASE EnterTry
    BY <2>2, TryEntered DEF Enters
  <2> QED
    BY <2>1, <2>2
<1>0. PICK op \in {"JMP", "TRY"} : \E b : Emit(<<Instr(op, 0, b)>>)
  BY DEF EnterFunc, EnterTry, Hole
<1>3. PICK b : Emit(<<Instr(op, 0, b)>>)
  BY <1>0
<1>4. Pos \in Nat /\ Pos' = Pos + 1 /\ KeepsBut({}) /\ code'[Pos + 1] = Instr(op, 0, b)
  BY <1>3, EmittingOne DEF Typed
<1>5. ASSUME NEW f \in DOMAIN functions'
      PROVE  \/ functions'[f].addr \in Pos..Pos'
             \/ f \in DOMAIN functions /\ functions'[f] = functions[f]
  <2>1. ASSUME NEW g \in Funcs, EnterFunc(g)
        PROVE  \/ functions'[f].addr \in Pos..Pos'
               \/ f \in DOMAIN functions /\ functions'[f] = functions[f]
    <3>1. functions' = Put(functions, g, FuncMeta(g)) /\ FuncMeta(g).addr = Pos + 1
      BY <2>1 DEF EnterFunc, FuncMeta
    <3>2. DOMAIN functions' = DOMAIN functions \cup {g}
          /\ functions'[f] = IF f = g THEN FuncMeta(g) ELSE functions[f]
      BY <3>1 DEF Put
    <3>3. Pos + 1 \in Pos..Pos'
      BY <1>4
    <3> QED
      BY <3>1, <3>2, <3>3
  <2>2. CASE EnterTry
    BY <2>2 DEF EnterTry, decls
  <2> QED
    BY <2>1, <2>2
<1>6. ASSUME NEW Z, Marked(Z), 0 \in Z, NEW Y, Y = Z \cup (Pos..Pos')
      PROVE  Aims(1, e, Y)
  <2>1. e.kind # "object" /\ Marks(e) \subseteq Y
    BY <1>2 DEF Marks
  <2>2. \A i \in 1..Pos : code'[i] = code[i]
    BY <1>4 DEF KeepsBut
  <2>3. Instr(op, 0, b).op = op /\ Instr(op, 0, b).a = 0
    BY DEF Instr
  <2>4. \A k \in 1..1 : Flows(code'[Pos + k], 0, 0) /\ code'[Pos + k].a \in Y
    <3>1. \A k \in 1..1 : k = 1
      OBVIOUS
    <3> QED
      BY <1>4, <1>6, <2>3, <3>1, BareFlows
  <2> QED
    BY <1>5, <1>6, <2>1, <2>2, <2>4 DEF Aims
<1>7. Between(e)
  BY <1>1, <1>2 DEF Between
<1> QED
  BY <1>4, <1>6, <1>7, ConstructBalanced

\* Constructs that go on to their next part, or have none yet to branch from.
LEMMA PartBalanced ==
  ASSUME Typed, Typed', Balanced, BeginFor \/ EnterForPost
  PROVE  Balanced'
<1>1. ~InExpr /\ UNCHANGED <<code, expr, functions>> /\ stage' # "compiled"
  BY DEF BeginFor, EnterForPost, Begins, decls
<1>2. PICK e \in Statements :
        /\ open' = Append(open, e) \/ (open # <<>> /\ open' = [open EXCEPT ![Len(open)] = e])
        /\ e.kind # "object" /\ \A Z : Marked(Z) => Marks(e) \subseteq Z
  <2>1. CASE BeginFor
    BY <2>1, ForBegun DEF Marks
  <2>2. CASE EnterForPost
    <3>1. PICK e : Continues(e) /\ e.kind = "for_post" /\ e.r = Inner.p /\ Inner.kind = "for"
      BY <2>2, ForPostEntered
    <3>2. Marks(e) = {Inner.p} /\ Marks(Inner) = {Inner.p}
      BY <3>1 DEF Marks
    <3> QED
      BY <3>1, <3>2, InnerMarks DEF Continues
  <2> QED
    BY <2>1, <2>2
<1>3. Pos \in Nat /\ Pos' = Pos
  BY <1>1, LenProperties DEF Typed, CodeOK, Pos
<1>4. PICK n : n = 0
  OBVIOUS
<1>5. n \in Nat /\ Pos' = Pos + n /\ 1..n = {}
  BY <1>3, <1>4
<1>6. Between(e)
  BY <1>1, <1>2 DEF Between
<1>7. ASSUME NEW Z, Marked(Z), NEW Y, Y = Z \cup (Pos..Pos')
      PROVE  Aims(n, e, Y)
  <2>1. e.kind # "object" /\ Marks(e) \subseteq Y
    BY <1>2, <1>7
  <2>2. \A k \in 1..n : FALSE
    BY <1>5
  <2> QED
    BY <1>1, <2>1, <2>2 DEF Aims
<1> QED
  BY <1>5, <1>6, <1>7, ConstructBalanced

LEMMA HandoverBalanced ==
  ASSUME Typed, Typed', Balanced, EnterElse \/ \E x \in Names : EnterCatch(x)
  PROVE  Balanced'
<1>1. ~InExpr /\ UNCHANGED <<expr, functions>> /\ stage' # "compiled"
  BY DEF EnterElse, EnterCatch, decls
<1>2. CASE EnterElse
  <2>1. PICK e : Continues(e) /\ e.kind = "else" /\ e.r = Pos + 1
    BY <1>2, ElseEntered
  <2>2. Pos \in Nat /\ Pos' = Pos + 1 /\ KeepsBut({}) /\ code'[Pos + 1] = Hole("JMP")
    BY <1>2, EmittingOne DEF Typed, EnterElse
  <2>3. Hole("JMP").op = "JMP" /\ Hole("JMP").a = 0
    BY DEF Hole, Instr
  <2>4. ASSUME NEW Z, 0 \in Z, NEW Y, Y = Z \cup (Pos..Pos')
        PROVE  Aims(1, e, Y)
    <3>1. Pos + 1 \in Pos..Pos'
      BY <2>2
    <3>2. e.kind # "object" /\ Marks(e) \subseteq Y
      BY <2>1, <2>4, <3>1 DEF Marks
    <3>3. \A i \in 1..Pos : code'[i] = code[i]
      BY <2>2 DEF KeepsBut
    <3>4. \A k \in 1..1 : Flows(code'[Pos + k], 0, 0) /\ code'[Pos + k].a \in Y
      <4>1. \A k \in 1..1 : k = 1
        OBVIOUS
      <4> QED
        BY <2>2, <2>3, <2>4, <4>1, BareFlows
    <3> QED
      BY <1>1, <3>2, <3>3, <3>4 DEF Aims
  <2>5. Between(e)
    BY <1>1, <2>1 DEF Between, Continues
  <2> QED
    BY <2>2, <2>4, <2>5, ConstructBalanced
<1>3. ASSUME NEW x \in Names, EnterCatch(x)
      PROVE  Balanced'
  <2>1. PICK e : Continues(e) /\ e.kind = "catch" /\ e.r = Pos + 2
    BY <1>3, CatchEntered
  <2>2. /\ Pos \in Nat /\ Pos' = Pos + 2 /\ KeepsBut({})
        /\ code'[Pos + 1] = Op("END_TRY") /\ code'[Pos + 2] = Hole("JMP")
    BY <1>3, EmittingTwo DEF Typed, EnterCatch, TryEnd
  <2>3. /\ Hole("JMP").op = "JMP" /\ Hole("JMP").a = 0
        /\ Op("END_TRY").op = "END_TRY" /\ "END_TRY" \notin Jumps
    BY DEF Hole, Instr, Op, Jumps
  <2>4. ASSUME NEW Z, 0 \in Z, NEW Y, Y = Z \cup (Pos..Pos')
        PROVE  Aims(2, e, Y)
    <3>1. Pos + 2 \in Pos..Pos'
      BY <2>2
    <3>2. e.kind # "object" /\ Marks(e) \subseteq Y
      BY <2>1, <2>4, <3>1 DEF Marks
    <3>3. \A i \in 1..Pos : code'[i] = code[i]
      BY <2>2 DEF KeepsBut
    <3>4. \A k \in 1..2 : /\ Flows(code'[Pos + k], 0, 0)
                          /\ code'[Pos + k].op \in Jumps => code'[Pos + k].a \in Y
      <4>1. \A k \in 1..2 : k = 1 \/ k = 2
        OBVIOUS
      <4> QED
        BY <2>2, <2>3, <2>4, <4>1, BareFlows
    <3> QED
      BY <1>1, <3>2, <3>3, <3>4 DEF Aims
  <2>5. Between(e)
    BY <1>1, <2>1 DEF Between, Continues
  <2> QED
    BY <2>2, <2>4, <2>5, ConstructBalanced
<1> QED
  BY <1>2, <1>3

LEMMA TestsBalanced ==
  ASSUME Typed, Typed', Balanced, EnterThen \/ EnterWhile \/ EnterFor
  PROVE  Balanced'
<1>1. /\ Emit(<<Hole("JMP_IF")>>) /\ Standing = 1 /\ expr' = NoExpr
      /\ UNCHANGED <<functions, stage>> /\ stage # "compiled"
  BY DEF EnterThen, EnterWhile, EnterFor, Ends, Standing, decls
<1>2. PICK e \in Statements :
        /\ open' = Append(open, e) \/ (open # <<>> /\ open' = [open EXCEPT ![Len(open)] = e])
        /\ e.kind # "object" /\ \A Z : Marked(Z) => Marks(e) \subseteq Z
  <2>1. CASE EnterThen
    BY <2>1, ThenEntered DEF Marks, Enters
  <2>2. CASE EnterWhile
    <3>1. PICK e : Enters(e, "JMP_IF") /\ e.kind = "while" /\ e.p = expr.slot /\ expr.for = "while"
      BY <2>2, WhileEntered
    <3> QED
      BY <3>1 DEF Marks, Marked, Enters
  <2>3. CASE EnterFor
    <3>1. PICK e : Continues(e) /\ e.kind = "for" /\ e.p = expr.slot /\ expr.for = "for"
      BY <2>3, ForEntered
    <3> QED
      BY <3>1 DEF Marks, Marked, Continues
  <2> QED
    BY <2>1, <2>2, <2>3
<1> QED
  BY <1>1, <1>2, TestBalanced

LEMMA LeftBalanced ==
  ASSUME Typed, Typed', Balanced, NEW S, Leaves(S), \A x \in S : HoleAt(code, x),
         ~InExpr, UNCHANGED <<expr, functions>>, stage' # "compiled", NEW n \in Nat, Pos' = Pos + n,
         \A Z : Marked(Z) =>
           /\ \A x \in S : code'[x + 1].a \in Z \cup (Pos..Pos')
           /\ \A k \in 1..n : /\ Flows(code'[Pos + k], 0, 0)
                              /\ code'[Pos + k].op \in Jumps
                                   => code'[Pos + k].a \in Z \cup (Pos..Pos')
  PROVE  Balanced'
<1>1. /\ Pos \in Nat /\ open # <<>> /\ Inner \in Statements /\ open' = Front(open)
      /\ KeepsBut(S) /\ \A i \in 1..Pos : code'[i].op = code[i].op
  BY DEF Leaves
<1>2. PICK e : e = Inner
  OBVIOUS
<1>3. ASSUME NEW Z, Marked(Z), NEW Y, Y = Z \cup (Pos..Pos')
      PROVE  Aims(n, e, Y)
  <2>1. e.kind # "object" /\ Marks(e) \subseteq Y
    BY <1>1, <1>2, <1>3, InnerMarks
  <2>2. ASSUME NEW i \in 1..Pos
        PROVE  \/ code'[i] = code[i]
               \/ code[i].op \in Jumps /\ code'[i].op = code[i].op /\ code'[i].a \in Y
    <3>1. CASE (i - 1) \notin S
      BY <1>1, <3>1 DEF KeepsBut
    <3>2. CASE (i - 1) \in S
      <4>1. (i - 1) + 1 = i
        BY <1>1
      <4>2. code'[(i - 1) + 1].a \in Y /\ HoleAt(code, i - 1)
        BY <1>3, <3>2
      <4> QED
        BY <1>1, <4>1, <4>2 DEF HoleAt
    <3> QED
      BY <3>1, <3>2
  <2>3. \A k \in 1..n : /\ Flows(code'[Pos + k], 0, 0)
                        /\ code'[Pos + k].op \in Jumps => code'[Pos + k].a \in Y
    BY <1>3
  <2> QED
    BY <2>1, <2>2, <2>3 DEF Aims
<1>4. Between(e)
  BY <1>1, <1>2 DEF Between
<1> QED
  BY <1>3, <1>4, ConstructBalanced

LEMMA ClosingBalanced ==
  ASSUME Typed, Typed', Balanced, LeaveFunc \/ LeaveIf \/ LeaveCatch \/ LeaveWhile \/ LeaveFor
  PROVE  Balanced'
<1>1. ~InExpr /\ UNCHANGED <<expr, functions>> /\ stage' # "compiled"
  BY DEF LeaveFunc, LeaveIf, LeaveCatch, LeaveWhile, LeaveFor, decls
<1>2. CASE LeaveFunc
  <2>1. /\ Leaves({Inner.p}) /\ Inner.kind = "func" /\ Placed(code, Inner) /\ Pos \in Nat
        /\ Pos' = Pos + 1 /\ code'[Pos + 1].op = "RET" /\ code'[Inner.p + 1].a = Pos + 1
    BY <1>2, FuncLeft DEF Leaves
  <2>2. \A x \in {Inner.p} : HoleAt(code, x)
    BY <2>1 DEF Placed
  <2>3. Pos + 1 \in Pos..Pos'
    BY <2>1
  <2>4. \A k \in 1..1 : Flows(code'[Pos + k], 0, 0) /\ code'[Pos + k].op \notin Jumps
    <3>1. \A k \in 1..1 : k = 1
      OBVIOUS
    <3>2. "RET" \notin Jumps
      BY DEF Jumps
    <3> QED
      BY <2>1, <3>1, <3>2, BareFlows
  <2>5. \A x \in {Inner.p} : code'[x + 1].a \in Pos..Pos'
    BY <2>1, <2>3
  <2> QED
    BY <1>1, <2>1, <2>2, <2>4, <2>5, LeftBalanced
<1>3. CASE LeaveIf \/ LeaveCatch
  <2>1. PICK S : /\ Leaves(S) /\ Pos' = Pos
                 /\ \A x \in S : HoleAt(code, x) /\ code'[x + 1].a \in Marks(Inner) \cup {Pos}
    <3>1. CASE LeaveIf /\ Inner.kind = "then"
      <4>1. /\ Leaves({Inner.p}) /\ Pos' = Pos /\ code'[Inner.p + 1].a = Pos
            /\ Placed(code, Inner)
        BY <3>1, ThenLeft DEF Leaves
      <4>2. \A x \in {Inner.p} : HoleAt(code, x) /\ code'[x + 1].a \in Marks(Inner) \cup {Pos}
        BY <3>1, <4>1 DEF Placed
      <4> QED
        BY <4>1, <4>2
    <3>2. CASE LeaveCatch \/ (LeaveIf /\ Inner.kind # "then")
      <4>1. /\ Leaves({Inner.p, Inner.q}) /\ Inner.kind \in {"else", "catch"} /\ Pos' = Pos
            /\ code'[Inner.q + 1].a = Pos /\ code'[Inner.p + 1].a \in {Inner.r, Pos}
            /\ Placed(code, Inner)
        BY <3>2, ElseOrCatchLeft DEF Leaves
      <4>2. Marks(Inner) = {Inner.r}
        BY <4>1 DEF Marks
      <4>3. \A x \in {Inner.p, Inner.q} :
              HoleAt(code, x) /\ code'[x + 1].a \in Marks(Inner) \cup {Pos}
        BY <4>1, <4>2 DEF Placed
      <4> QED
        BY <4>1, <4>3
    <3> QED
      BY <1>3, <3>1, <3>2
  <2>2. Pos \in Nat /\ open # <<>>
    BY <2>1 DEF Leaves
  <2>3. PICK n : n = 0
    OBVIOUS
  <2>4. n \in Nat /\ Pos' = Pos + n /\ 1..n = {} /\ Pos \in Pos..Pos'
    BY <2>1, <2>2, <2>3
  <2>5. ASSUME NEW Z, Marked(Z)
        PROVE  \A x \in S : code'[x + 1].a \in Z \cup (Pos..Pos')
    BY <2>1, <2>2, <2>4, <2>5, InnerMarks
  <2>6. \A k \in 1..n : FALSE
    BY <2>4
  <2> QED
    BY <1>1, <2>1, <2>4, <2>5, <2>6, LeftBalanced
<1>4. CASE LeaveWhile \/ LeaveFor
  <2>1. /\ Leaves({Inner.q}) /\ Inner.kind \in {"while", "for_post"}
        /\ Pos' = Pos + 1 /\ code'[Inner.q + 1].a = Pos + 1
        /\ code'[Pos + 1] = Instr("JMP", IF Inner.kind = "while" THEN Inner.p ELSE Inner.r, 0)
    BY <1>4, LoopLeft
  <2>2. Pos \in Nat /\ open # <<>> /\ Placed(code, Inner)
    BY <2>1 DEF Leaves
  <2>3. \A x \in {Inner.q} : HoleAt(code, x)
    BY <2>1, <2>2 DEF Placed
  <2>4. Pos + 1 \in Pos..Pos'
    BY <2>1, <2>2
  <2>5. \A x \in {Inner.q} : code'[x + 1].a \in Pos..Pos'
    BY <2>1, <2>4
  <2>6. code'[Pos + 1].op = "JMP" /\ code'[Pos + 1].a \in Marks(Inner)
    BY <2>1 DEF Instr, Marks
  <2>7. ASSUME NEW Z, Marked(Z)
        PROVE  \A k \in 1..1 : Flows(code'[Pos + k], 0, 0) /\ code'[Pos + k].a \in Z
    <3>1. \A k \in 1..1 : k = 1
      OBVIOUS
    <3>2. Marks(Inner) \subseteq Z
      BY <2>2, <2>7, InnerMarks
    <3> QED
      BY <2>6, <3>1, <3>2, BareFlows
  <2> QED
    BY <1>1, <2>1, <2>3, <2>5, <2>7, LeftBalanced
<1> QED
  BY <1>2, <1>3, <1>4

----------------------------------------------------------------------------
LEMMA StartBalanced == Init => Balanced
<1> SUFFICES ASSUME Init PROVE Balanced
  OBVIOUS
<1>1. PICK h : h = [i \in 0..0 |-> 0]
  OBVIOUS
<1>2. PICK Z : Z = {0}
  OBVIOUS
<1>3. Pos = 0 /\ open = <<>> /\ functions = NoEntries /\ stage = "compiling" /\ expr = NoExpr
  BY DEF Init, Pos
<1>4. DOMAIN functions = {}
  BY <1>3 DEF NoEntries
<1>5. expr.depth = 0 /\ expr.for = "nothing" /\ Standing = 0
  BY <1>3 DEF NoExpr, Standing
<1>6. Heights(h, Z)
  BY <1>1, <1>2, <1>3 DEF Heights
<1>7. Marked(Z)
  BY <1>3, <1>4, <1>5 DEF Marked
<1>8. h[Pos] = Standing
  BY <1>1, <1>3, <1>5
<1> QED
  BY <1>5, <1>6, <1>7, <1>8 DEF Balanced

LEMMA NextBalanced ==
  ASSUME Typed, Typed', BalancedClass, Balanced, [Next]_cvars
  PROVE  Balanced'
<1>1. CASE Simple
  BY <1>1, SimpleBalanced
<1>2. CASE Opens
  <2>1. ASSUME NEW x \in Names, BeginObject(x)
        PROVE  FALSE
    BY <2>1 DEF BeginObject, Begins, BalancedClass
  <2> QED
    BY <1>2, <2>1, TestsBalanced, PartBalanced DEF Opens
<1>3. CASE GoesOn
  BY <1>3, TestsBalanced, PartBalanced, HandoverBalanced DEF GoesOn
<1>4. CASE Closes
  BY <1>4, NoObject, ClosingBalanced DEF Closes, EndObject
<1>5. CASE (\E f \in Funcs : EnterFunc(f)) \/ EnterTry
  BY <1>5, EntryBalanced
<1>6. CASE LeaveFunc \/ LeaveCatch
  BY <1>6, ClosingBalanced
<1>7. CASE \E x \in Names : EnterCatch(x)
  BY <1>7, HandoverBalanced
<1> QED
  BY <1>1, <1>2, <1>3, <1>4, <1>5, <1>6, <1>7, Steps

(***************************************************************************)
(* Programs without the words that leave an operand out: print and ++      *)
(* leave no value, nor does the call of what is not a name, a call may     *)
(* leave none, x.y.z = v leaves its object out, an object literal given to *)
(* a name is stored twice, and an empty return outside functions prints    *)
(* what is not there.                                                      *)
(***************************************************************************)
BalancedPrograms ==
  \A c \in Classes :
    /\ c.exprs \cap {"call", "print", "incdec", "unnamed"} = {}
    /\ c.stmts \cap {"object", "empty_print"} = {}
    /\ "member_assign" \in c.stmts => "member" \notin c.exprs

(***************************************************************************)
(* What the compiler emits has heights: along every branch and fall-       *)
(* through, at most as many operands are taken as were left (expr.go and   *)
(* stmt.go, each Write), and none is counted on where branches meet.       *)
(***************************************************************************)
THEOREM AlwaysBalanced ==
  ASSUME BalancedPrograms
  PROVE  Spec => [](Typed /\ Balanced)
<1>1. Init => BalancedClass /\ Balanced
  BY StartBalanced DEF Init, BalancedPrograms, BalancedClass
<1>2. /\ BalancedClass /\ Balanced /\ Typed /\ Typed' /\ [Next]_cvars
      => (BalancedClass /\ Balanced)'
  <2> SUFFICES ASSUME BalancedClass, Balanced, Typed, Typed', [Next]_cvars
               PROVE  BalancedClass' /\ Balanced'
    OBVIOUS
  <2>1. BalancedClass'
    BY ClassKept DEF BalancedClass
  <2> QED
    BY <2>1, NextBalanced
<1>3. Spec => [](Typed /\ FuncNesting /\ Slots)
  BY AlwaysScoped
<1> QED
  BY <1>1, <1>2, <1>3, PTL DEF Spec
=============================================================================
