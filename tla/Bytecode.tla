------------------------------ MODULE Bytecode ------------------------------
(***************************************************************************)
(* The data that the Synx compiler and virtual machine share: the values   *)
(* of the operand stack, the instructions, and the artifact that carries   *)
(* a compiled contract from Build to HandleExec.                           *)
(*                                                                         *)
(* An instruction is one record with its operand bytes folded in, and an   *)
(* address counts instructions from 0: code[ip + 1] is the one at ip.      *)
(***************************************************************************)
EXTENDS Integers, Sequences, FiniteSets

CONSTANT Samples   \* values standing for results whose data is abstracted

(***************************************************************************)
(* Partial functions stand for Go's maps; Lookup returns the zero value    *)
(* of a missing key.                                                       *)
(***************************************************************************)
Put(f, k, v) == [x \in DOMAIN f \cup {k} |-> IF x = k THEN v ELSE f[x]]
Lookup(f, k, zero) == IF k \in DOMAIN f THEN f[k] ELSE zero
NoEntries == [x \in {} |-> x]

(***************************************************************************)
(* Values: the dynamic Go type and a payload (the number, 0 or 1 for a     *)
(* bool, a token for a text, an object or an array).                       *)
(***************************************************************************)
Value(kind, n) == [kind |-> kind, n |-> n]
IntV(n)   == Value("int", n)
FloatV(n) == Value("float", n)
BoolV(n)  == Value("bool", n)
StrV(n)   == Value("str", n)
ObjV(n)   == Value("obj", n)
NilV      == Value("nil", 0)
ErrorObj  == ObjV(1)     \* {code, message}
AgentObj  == ObjV(2)     \* {hash, name, version, owner, purpose}

Kinds == {"int", "float", "bool", "str", "obj", "arr", "nil"}
Values == [kind : Kinds, n : Int]

Numeric(v) == v.kind \in {"int", "float"}

\* vm.go:379 boolInt
Truth(b) == IntV(IF b THEN 1 ELSE 0)

\* vm.go:360 toBool: the empty text is token 0
ToBool(v) ==
  CASE v.kind \in {"bool", "int", "float", "str"} -> v.n # 0
    [] v.kind = "nil" -> FALSE
    [] OTHER -> TRUE

(***************************************************************************)
(* Each operation returns the set of values it may push; an operation      *)
(* whose set is empty panics. A text built at run time is any sample text, *)
(* a quotient any sample float.                                            *)
(***************************************************************************)
OfKind(kind) == {v \in Samples : v.kind = kind}

AddResults(a, b) ==
  CASE a.kind = "int" /\ b.kind = "int" -> {IntV(a.n + b.n)}
    [] Numeric(a) /\ Numeric(b) -> {FloatV(a.n + b.n)}
    [] {a.kind, b.kind} \subseteq {"int", "float", "str"}
         /\ "str" \in {a.kind, b.kind} -> OfKind("str")
    [] OTHER -> {}

ArithResults(op, a, b) ==
  IF ~(Numeric(a) /\ Numeric(b)) THEN {}
  ELSE CASE op = "SUB" -> {FloatV(a.n - b.n)}
         [] op = "MUL" -> {FloatV(a.n * b.n)}
         [] op = "DIV" -> OfKind("float")

CompareResults(op, a, b) ==
  IF ~(Numeric(a) /\ Numeric(b)) THEN {}
  ELSE CASE op = "GT"    -> {Truth(a.n > b.n)}
         [] op = "GT_EQ" -> {Truth(a.n >= b.n)}
         [] op = "LT"    -> {Truth(a.n < b.n)}
         [] op = "LT_EQ" -> {Truth(a.n <= b.n)}

ValuesEqual(a, b) == IF Numeric(a) /\ Numeric(b) THEN a.n = b.n ELSE a = b

\* Go panics when == meets two maps or two slices behind an interface.
EqualityResults(op, a, b) ==
  IF a.kind = b.kind /\ a.kind \in {"obj", "arr"} THEN {}
  ELSE {Truth(IF op = "EQ" THEN ValuesEqual(a, b) ELSE ~ValuesEqual(a, b))}

LogicResults(op, a, b) ==
  {Truth(IF op = "AND" THEN ToBool(a) /\ ToBool(b) ELSE ToBool(a) \/ ToBool(b))}

(***************************************************************************)
(* Instructions: a is the immediate, the slot, the pool index or the       *)
(* target; b is the error slot of TRY.                                     *)
(***************************************************************************)
Instr(op, a, b) == [op |-> op, a |-> a, b |-> b]
Op(op) == Instr(op, 0, 0)

\* opcodes.go:5; a byte that names none of them is to the VM as POP is.
Opcodes ==
  {"HALT", "TRUE", "FALSE", "CONST", "PUSH", "POP", "DUP", "SWAP", "ADD", "SUB", "MUL",
   "DIV", "GT", "GT_EQ", "LT", "LT_EQ", "EQ", "DIFF", "PLUS_EQ", "AND", "OR", "NOT",
   "PRINT", "GET_ENV", "HASH", "NONCE", "CONTAINS", "REGEX", "NOP", "JMP", "JMP_IF",
   "CALL", "RET", "ACCESS", "LENGTH", "NULL", "STORE", "SLOAD", "DELETE",
   "AGENT_DECLARE", "AGENT_GET", "AGENT_VALIDATE", "POLICY_DECLARE", "TYPE_DECLARE",
   "EMIT", "REQUIRE", "ERR", "TRY", "END_TRY", "PUSH_OBJECT", "SET_PROPERTY",
   "GET_PROPERTY"}

Instructions == [op : Opcodes, a : Nat, b : Nat]
Branches == {"JMP", "JMP_IF", "TRY", "CALL"}
Addrs(code) == 0..(Len(code) - 1)

(***************************************************************************)
(* compiler.go:122 ContractArtifact. functions maps a name to its          *)
(* FunctionMeta, functionName maps an entry address back to a name.        *)
(***************************************************************************)
Artifact(code, pool, functions, functionName, initStorage) ==
  [code |-> code, pool |-> pool, functions |-> functions,
   functionName |-> functionName, initStorage |-> initStorage]

\* compiler.go:338: both lookups fall back to zero values
GetFuncArgs(art, addr) ==
  IF /\ addr \in DOMAIN art.functionName
     /\ art.functionName[addr] \in DOMAIN art.functions
  THEN art.functions[art.functionName[addr]].args
  ELSE <<>>

(***************************************************************************)
(* What the VM needs of an artifact to fetch only instructions: it ends    *)
(* with HALT and every branch, function entry and constant is in range.    *)
(***************************************************************************)
WellFormed(art) ==
  /\ Len(art.code) > 0
  /\ art.code[Len(art.code)].op = "HALT"
  /\ \A i \in DOMAIN art.code :
       /\ art.code[i].op \in Branches => art.code[i].a \in Addrs(art.code)
       /\ art.code[i].op = "CONST" => art.code[i].a \in 0..(Len(art.pool) - 1)
  /\ \A f \in DOMAIN art.functions : art.functions[f].addr \in Addrs(art.code)

\* encoding/json: a number read back into interface{} is a float64
FromJSON(v) == IF v.kind = "int" THEN FloatV(v.n) ELSE v
=============================================================================
