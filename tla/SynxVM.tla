------------------------------- MODULE SynxVM -------------------------------
(***************************************************************************)
(* One virtual machine of vm/vm.go: built from an artifact, used for       *)
(* either one Run (the deploy-time initialisation) or one RunFunction (an  *)
(* EXEC request), then discarded. Each step is one turn of execute's loop. *)
(*                                                                         *)
(* A panic is caught by execute's recover, which ends the machine; what a  *)
(* panicking instruction had popped by then is never looked at again.      *)
(*                                                                         *)
(* A definition marked "a fault" is a mutation of the one after it, which  *)
(* the properties are tried on; nothing else uses it.                      *)
(***************************************************************************)
EXTENDS Bytecode, SequencesExt

CONSTANTS
  Artifacts,    \* the artifacts a machine may be built from
  Requests,     \* the <<function name, arguments>> pairs of EXEC requests
  MaxStack,     \* bound on the operand stack
  MaxCalls,     \* bound on the call stack and on the try stack
  MaxJournal,   \* bound on the journal
  MaxInt        \* bound on the numbers a run computes

\* What encoding/json and Build make of an artifact; runtime.go:207 wants code.
Loadable(art) ==
  /\ art.code \in Seq(Instructions) /\ art.code # <<>>
  /\ art.pool \in Seq(Values)
  /\ \A s \in DOMAIN art.initStorage : art.initStorage[s] \in Values
  /\ \A f \in DOMAIN art.functions :
       art.functions[f].addr \in Nat /\ art.functions[f].args \in Seq(Nat)

ASSUME SynxVMAssumption ==
  /\ Samples \subseteq Values
  /\ \A art \in Artifacts : Loadable(art)
  /\ \A r \in Requests : r[2] \in Seq(Values)
  /\ MaxStack \in Nat

VARIABLES
  artifact,    \* the artifact this machine was built from
  mode,        \* "none", then "init" (Run) or "exec" (RunFunction)
  status,      \* "idle", "running", or how the call ended
  ip,          \* address of the next instruction
  stack,       \* operands, the top last
  callStack,   \* return addresses
  tryStack,    \* TryFrames
  storage,     \* slot -> value
  errors,      \* number of recorded errors
  lastError,   \* the map built by the last ERR, or NilV
  journal      \* emitted events

vars == <<artifact, mode, status, ip, stack, callStack, tryStack, storage,
          errors, lastError, journal>>

Outcomes == {"success", "failed", "panicked", "unknown_opcode", "rejected"}
Done == status \in Outcomes
Code == artifact.code
EndAddr == Len(Code)        \* a fault
HaltAddr == Len(Code) - 1
GlobalScopeSlot == 0

----------------------------------------------------------------------------
(* vm.go:43 New, vm.go:73 NewFromArtifact *)

\* A fault: the artifact's storage replaces the one with the `this` object.
StorageWithoutThis(art) == art.initStorage

FreshStorage(art) ==
  [s \in DOMAIN art.initStorage \cup {GlobalScopeSlot} |->
     Lookup(art.initStorage, s, ObjV(0))]

Init ==
  /\ artifact \in Artifacts
  /\ mode = "none"
  /\ status = "idle"
  /\ ip = 0
  /\ stack = <<>>
  /\ callStack = <<>>
  /\ tryStack = <<>>
  /\ storage = FreshStorage(artifact)
  /\ errors = 0
  /\ lastError = NilV
  /\ journal = <<>>

\* vm.go:123
Run ==
  /\ status = "idle"
  /\ mode' = "init"
  /\ status' = "running"
  /\ UNCHANGED <<artifact, ip, stack, callStack, tryStack, storage, errors,
                 lastError, journal>>

\* A parameter's slot as RunFunction leaves it: the last argument written wins.
BindArgs(st, slots, args) ==
  [s \in DOMAIN st \cup Range(slots) |->
     IF s \in Range(slots)
     THEN args[CHOOSE i \in DOMAIN slots :
                 slots[i] = s /\ \A j \in DOMAIN slots : slots[j] = s => j <= i]
     ELSE st[s]]

\* A fault: no return address for the called function.
RunWithoutReturn(f, args) ==
  /\ status = "idle"
  /\ mode' = "exec"
  /\ IF f \in DOMAIN artifact.functions
        /\ Len(args) = Len(artifact.functions[f].args)
     THEN /\ status' = "running"
          /\ storage' = BindArgs(storage, artifact.functions[f].args, args)
          /\ ip' = artifact.functions[f].addr
     ELSE /\ status' = "rejected"
          /\ UNCHANGED <<storage, ip>>
  /\ UNCHANGED <<artifact, callStack, stack, tryStack, errors, lastError,
                 journal>>

\* vm.go:128, after SetGlobalScope (vm.go:60) has replaced the `this` object
RunFunction(f, args) ==
  /\ status = "idle"
  /\ mode' = "exec"
  /\ IF f \in DOMAIN artifact.functions
        /\ Len(args) = Len(artifact.functions[f].args)
     THEN /\ status' = "running"
          /\ storage' = BindArgs(Put(storage, GlobalScopeSlot, ObjV(0)),
                                 artifact.functions[f].args, args)
          /\ callStack' = Append(callStack, HaltAddr)
          /\ ip' = artifact.functions[f].addr
     ELSE /\ status' = "rejected"
          /\ UNCHANGED <<storage, callStack, ip>>
  /\ UNCHANGED <<artifact, stack, tryStack, errors, lastError, journal>>

----------------------------------------------------------------------------
(* The loop of execute, vm.go:175. An instruction runs only when the fetch *)
(* is in range and no error has been recorded.                             *)
Fetched == status = "running" /\ ip < Len(Code)
At == Code[ip + 1]
ExecutesAnyway(ops) == Fetched /\ At.op \in ops     \* a fault
Executes(ops) == Fetched /\ errors = 0 /\ At.op \in ops

Depth == Len(stack)
Top == stack[Depth]
Under == stack[Depth - 1]
Rest(n) == SubSeq(stack, 1, Depth - n)

\* code[vm.ip] with ip outside the code
FetchPanics ==
  /\ status = "running"
  /\ ip >= Len(Code)
  /\ status' = "panicked"
  /\ UNCHANGED <<artifact, mode, ip, stack, callStack, tryStack, storage,
                 errors, lastError, journal>>

\* vm.go:195: the error is noticed at the next fetch, before it is executed
Abort ==
  /\ Fetched
  /\ errors > 0
  /\ status' = "failed"
  /\ ip' = ip + 1
  /\ UNCHANGED <<artifact, mode, stack, callStack, tryStack, storage, errors,
                 lastError, journal>>

Halt ==
  /\ Executes({"HALT"})
  /\ status' = "success"
  /\ ip' = ip + 1
  /\ UNCHANGED <<artifact, mode, stack, callStack, tryStack, storage, errors,
                 lastError, journal>>

----------------------------------------------------------------------------
(* Instructions that pop operands and push one result. *)
Literals == {"CONST", "PUSH", "TRUE", "FALSE", "NULL", "PUSH_OBJECT", "SLOAD"}
Unary == {"NOT", "DUP", "LENGTH", "NONCE", "GET_ENV", "AGENT_GET"}
Binary == {"ADD", "SUB", "MUL", "DIV", "GT", "GT_EQ", "LT", "LT_EQ", "EQ",
           "DIFF", "AND", "OR", "GET_PROPERTY", "ACCESS", "CONTAINS", "REGEX",
           "POLICY_DECLARE", "TYPE_DECLARE"}
Ternary == {"SET_PROPERTY", "AGENT_VALIDATE"}
Operators == Literals \cup Unary \cup Binary \cup Ternary \cup {"HASH"}

\* What an instruction pops. PRINT pops only what is there.
Pops(i) ==
  CASE i.op \in Unary \cup {"STORE", "JMP_IF", "ERR"} -> 1
    [] i.op \in Binary \cup {"SWAP", "EMIT", "REQUIRE"} -> 2
    [] i.op \in Ternary -> 3
    [] i.op = "HASH" -> i.a + 1
    [] i.op = "AGENT_DECLARE" -> 4
    [] i.op = "CALL" -> Len(GetFuncArgs(artifact, i.a))
    [] OTHER -> 0

LiteralResults(i) ==
  CASE i.op = "CONST" -> IF i.a < Len(artifact.pool) THEN {artifact.pool[i.a + 1]} ELSE {}
    [] i.op = "PUSH"  -> {IntV(i.a)}
    [] i.op \in {"TRUE", "FALSE"} -> {BoolV(1)}
    [] i.op = "NULL"  -> {NilV}
    [] i.op = "PUSH_OBJECT" -> {ObjV(0)}
    [] i.op = "SLOAD" -> {Lookup(storage, i.a, IntV(0))}

\* The contents of objects and arrays are abstracted: a lookup yields any sample.
ObjectResults(i) ==
  CASE i.op = "SET_PROPERTY" ->
         IF stack[Depth - 2].kind = "obj" /\ Under.kind = "str"
         THEN {stack[Depth - 2]} ELSE {}
    [] i.op = "GET_PROPERTY" ->
         IF Under.kind = "obj" /\ Top.kind = "str" THEN Samples ELSE {}
    [] i.op = "ACCESS" -> IF Under.kind \in {"obj", "arr"} THEN Samples ELSE {}
    [] i.op = "LENGTH" -> IF Top.kind \in {"str", "arr"} THEN OfKind("int") ELSE {}

AgentResults(i) ==
  CASE i.op = "AGENT_GET" -> OfKind("obj")
    [] i.op = "AGENT_VALIDATE" ->
         IF stack[Depth - 2].kind = "obj" THEN {AgentObj} ELSE {}
    [] i.op \in {"POLICY_DECLARE", "TYPE_DECLARE"} -> {Top}

TextResults(i) == {IntV(0), IntV(1)}

ExternResults(i) ==
  CASE i.op = "NONCE" -> IF Top.kind = "int" THEN OfKind("str") ELSE {}
    [] i.op \in {"GET_ENV", "HASH"} -> OfKind("str")

\* An absent property, index, variable or agent, a bad pattern or hash name
\* depends on the abstracted data: the instruction may panic.
MayPanic == {"GET_PROPERTY", "ACCESS", "REGEX", "NONCE", "GET_ENV", "HASH",
             "AGENT_GET", "AGENT_VALIDATE"}

Results(i) ==
  CASE i.op \in Literals -> LiteralResults(i)
    [] i.op = "ADD" -> AddResults(Top, Under)
    [] i.op \in {"SUB", "MUL", "DIV"} -> ArithResults(i.op, Under, Top)
    [] i.op \in {"GT", "GT_EQ", "LT", "LT_EQ"} -> CompareResults(i.op, Under, Top)
    [] i.op \in {"EQ", "DIFF"} -> EqualityResults(i.op, Under, Top)
    [] i.op \in {"AND", "OR"} -> LogicResults(i.op, Under, Top)
    [] i.op = "NOT" -> {Truth(~ToBool(Top))}
    [] i.op = "DUP" -> {Top}
    [] i.op \in {"CONTAINS", "REGEX"} -> TextResults(i)
    [] i.op \in {"NONCE", "GET_ENV", "HASH"} -> ExternResults(i)
    [] i.op \in {"AGENT_GET", "AGENT_VALIDATE", "POLICY_DECLARE", "TYPE_DECLARE"} ->
         AgentResults(i)
    [] OTHER -> ObjectResults(i)

\* DUP keeps what it reads.
Kept(i) == IF i.op = "DUP" THEN Depth ELSE Depth - Pops(i)

Operate ==
  /\ Executes(Operators)
  /\ Pops(At) <= Depth
  /\ Kept(At) < MaxStack
  /\ \E v \in Results(At) :
       /\ v.n \in -MaxInt..MaxInt
       /\ stack' = Append(SubSeq(stack, 1, Kept(At)), v)
  /\ ip' = ip + 1
  /\ UNCHANGED <<artifact, mode, status, callStack, tryStack, storage, errors,
                 lastError, journal>>

\* An operand is missing, or has a type the instruction rejects.
Underflow ==
  /\ Executes({At.op})
  /\ Pops(At) > Depth
  /\ status' = "panicked"
  /\ UNCHANGED <<artifact, mode, ip, stack, callStack, tryStack, storage,
                 errors, lastError, journal>>

BadOperand ==
  /\ Executes(Operators)
  /\ Pops(At) <= Depth
  /\ Results(At) = {} \/ At.op \in MayPanic
  /\ status' = "panicked"
  /\ UNCHANGED <<artifact, mode, ip, stack, callStack, tryStack, storage,
                 errors, lastError, journal>>

\* vm.go:309
UnknownOpcode ==
  /\ Executes({"PLUS_EQ", "POP"})
  /\ status' = "unknown_opcode"
  /\ UNCHANGED <<artifact, mode, ip, stack, callStack, tryStack, storage,
                 errors, lastError, journal>>

----------------------------------------------------------------------------
(* Stack, storage and journal. *)
Nop ==
  /\ Executes({"NOP"})
  /\ ip' = ip + 1
  /\ UNCHANGED <<artifact, mode, status, stack, callStack, tryStack, storage,
                 errors, lastError, journal>>

Swap ==
  /\ Executes({"SWAP"})
  /\ Depth >= 2
  /\ stack' = Rest(2) \o <<Top, Under>>
  /\ ip' = ip + 1
  /\ UNCHANGED <<artifact, mode, status, callStack, tryStack, storage, errors,
                 lastError, journal>>

PrintTop ==
  /\ Executes({"PRINT"})
  /\ stack' = IF stack = <<>> THEN stack ELSE Rest(1)
  /\ ip' = ip + 1
  /\ UNCHANGED <<artifact, mode, status, callStack, tryStack, storage, errors,
                 lastError, journal>>

Store ==
  /\ Executes({"STORE"})
  /\ Depth >= 1
  /\ storage' = Put(storage, At.a, Top)
  /\ stack' = Rest(1)
  /\ ip' = ip + 1
  /\ UNCHANGED <<artifact, mode, status, callStack, tryStack, errors,
                 lastError, journal>>

\* vm.go:993: the key is read one byte late, from the opcode that follows, so it
\* may be any slot or none. Only artifacts of another origin hold this instruction.
Delete ==
  /\ Executes({"DELETE"})
  /\ IF ip + 1 < Len(Code)
     THEN /\ \E keys \in {{}} \cup {{s} : s \in DOMAIN storage} :
               storage' = [s \in DOMAIN storage \ keys |-> storage[s]]
          /\ ip' = ip + 1
          /\ UNCHANGED status
     ELSE status' = "panicked" /\ UNCHANGED <<storage, ip>>
  /\ UNCHANGED <<artifact, mode, stack, callStack, tryStack, errors, lastError,
                 journal>>

\* vm.go:756: the registry entry goes to the key after the storage's size
AgentDeclare ==
  /\ Executes({"AGENT_DECLARE"})
  /\ Depth >= 4
  /\ storage' = Put(storage, Cardinality(DOMAIN storage) + 1, AgentObj)
  /\ stack' = Rest(4)
  /\ ip' = ip + 1
  /\ UNCHANGED <<artifact, mode, status, callStack, tryStack, errors,
                 lastError, journal>>

Emit ==
  /\ Executes({"EMIT"})
  /\ Depth >= 2
  /\ Len(journal) < MaxJournal
  /\ journal' = Append(journal, [type |-> Under, payload |-> Top])
  /\ stack' = Rest(2)
  /\ ip' = ip + 1
  /\ UNCHANGED <<artifact, mode, status, callStack, tryStack, storage, errors,
                 lastError>>

----------------------------------------------------------------------------
(* Control flow. *)
ShortTarget == At.a - 1     \* a fault
Target == At.a

Jmp ==
  /\ Executes({"JMP"})
  /\ ip' = Target
  /\ UNCHANGED <<artifact, mode, status, stack, callStack, tryStack, storage,
                 errors, lastError, journal>>

\* vm.go:620: only the int 0 takes the jump
JmpIf ==
  /\ Executes({"JMP_IF"})
  /\ Depth >= 1
  /\ ip' = IF Top = IntV(0) THEN Target ELSE ip + 1
  /\ stack' = Rest(1)
  /\ UNCHANGED <<artifact, mode, status, callStack, tryStack, storage, errors,
                 lastError, journal>>

\* vm.go:625: arguments are popped from the last to the first
CallArgs(slots) ==
  [s \in DOMAIN storage \cup Range(slots) |->
     IF s \in Range(slots)
     THEN stack[Depth - Len(slots)
                + (CHOOSE i \in DOMAIN slots :
                     slots[i] = s /\ \A j \in DOMAIN slots : slots[j] = s => i <= j)]
     ELSE storage[s]]

Call ==
  /\ Executes({"CALL"})
  /\ Pops(At) <= Depth
  /\ Len(callStack) < MaxCalls
  /\ storage' = CallArgs(GetFuncArgs(artifact, At.a))
  /\ stack' = Rest(Pops(At))
  /\ callStack' = Append(callStack, ip + 1)
  /\ ip' = At.a
  /\ UNCHANGED <<artifact, mode, status, tryStack, errors, lastError, journal>>

\* vm.go:643: with no caller RET falls through to the next instruction
Ret ==
  /\ Executes({"RET"})
  /\ IF callStack = <<>>
     THEN ip' = ip + 1 /\ UNCHANGED callStack
     ELSE ip' = Last(callStack) /\ callStack' = Front(callStack)
  /\ UNCHANGED <<artifact, mode, status, stack, tryStack, storage, errors,
                 lastError, journal>>

----------------------------------------------------------------------------
(* Errors. *)
TryFrames ==
  [handlerAddr : Nat, callDepth : Nat, stackDepth : 0..MaxStack, errorSlot : Nat]
TryFrame(handler, slot) ==
  [handlerAddr |-> handler, callDepth |-> Len(callStack),
   stackDepth |-> Depth, errorSlot |-> slot]

Try ==
  /\ Executes({"TRY"})
  /\ Len(tryStack) < MaxCalls
  /\ tryStack' = Append(tryStack, TryFrame(Target, At.b))
  /\ ip' = ip + 1
  /\ UNCHANGED <<artifact, mode, status, stack, callStack, storage, errors,
                 lastError, journal>>

EndTry ==
  /\ Executes({"END_TRY"})
  /\ IF tryStack = <<>>
     THEN status' = "panicked" /\ UNCHANGED <<tryStack, ip>>
     ELSE tryStack' = Front(tryStack) /\ ip' = ip + 1 /\ UNCHANGED status
  /\ UNCHANGED <<artifact, mode, stack, callStack, storage, errors, lastError,
                 journal>>

ErrMap(v) == IF v.kind = "obj" THEN v ELSE ErrorObj

\* vm.stack[:n]: a shorter slice is re-extended over whatever the backing
\* array still holds, so the cells beyond the old top are unknown.
Resliced(s, n) ==
  IF n <= Len(s) THEN {SubSeq(s, 1, n)}
  ELSE {s \o stale : stale \in [1..(n - Len(s)) -> Samples]}

\* A fault: the frame stays on the try stack while its handler runs.
CaughtInPlace(h) ==
  /\ stack' = Rest(1)
  /\ storage' = Put(storage, h.errorSlot, ErrMap(Top))
  /\ ip' = h.handlerAddr
  /\ UNCHANGED <<tryStack, errors>>

\* vm.go:1014
Caught(h) ==
  /\ tryStack' = Front(tryStack)
  /\ stack' \in IF Len(callStack) < h.callDepth
                THEN Resliced(Rest(1), h.stackDepth) ELSE {Rest(1)}
  /\ storage' = Put(storage, h.errorSlot, ErrMap(Top))
  /\ ip' = h.handlerAddr
  /\ UNCHANGED errors

Err ==
  /\ Executes({"ERR"})
  /\ Depth >= 1
  /\ lastError' = ErrMap(Top)
  /\ IF tryStack # <<>> THEN Caught(Last(tryStack))
     ELSE /\ errors' = errors + 1
          /\ stack' = Rest(1)
          /\ ip' = ip + 1
          /\ UNCHANGED <<tryStack, storage>>
  /\ UNCHANGED <<artifact, mode, status, callStack, journal>>

\* vm.go:999: not catchable, and leaves no lastError
Require ==
  /\ Executes({"REQUIRE"})
  /\ Depth >= 2
  /\ errors' = IF Top.kind = "int" /\ Top.n # 0 THEN errors ELSE errors + 1
  /\ stack' = Rest(2)
  /\ ip' = ip + 1
  /\ UNCHANGED <<artifact, mode, status, callStack, tryStack, storage,
                 lastError, journal>>

----------------------------------------------------------------------------
Start == Run \/ \E r \in Requests : RunFunction(r[1], r[2])

Step ==
  \/ FetchPanics \/ Abort \/ Halt
  \/ Operate \/ Underflow \/ BadOperand \/ UnknownOpcode
  \/ Nop \/ Swap \/ PrintTop \/ Store \/ Delete \/ AgentDeclare \/ Emit
  \/ Jmp \/ JmpIf \/ Call \/ Ret
  \/ Try \/ EndTry \/ Err \/ Require

Next == Start \/ Step

Spec == Init /\ [][Next]_vars

\* execute's loop never waits: a running machine keeps stepping.
FairSpec == Spec /\ WF_vars(Step)

----------------------------------------------------------------------------
TypeOK ==
  /\ mode \in {"none", "init", "exec"}
  /\ status \in {"idle", "running"} \cup Outcomes
  /\ mode = "none" <=> status = "idle"
  /\ ip \in Nat
  /\ stack \in Seq(Values) /\ Len(stack) <= MaxStack
  /\ callStack \in Seq(Nat)
  /\ tryStack \in Seq(TryFrames)
  /\ \A s \in DOMAIN storage : storage[s] \in Values
  /\ status = "idle" => GlobalScopeSlot \in DOMAIN storage
  /\ errors \in {0, 1}
  /\ lastError \in Values

(***************************************************************************)
(* A machine built from a well-formed artifact never fetches outside the   *)
(* code: no return address, handler, jump target or function entry, in any *)
(* order of calls, returns and errors, leads the index code[vm.ip] of      *)
(* vm.go:192 out of range.                                                 *)
(***************************************************************************)
IpInCode ==
  WellFormed(artifact) /\ status = "running" => ip \in Addrs(Code)

(***************************************************************************)
(* During an EXEC the call stack is empty only once the called function    *)
(* has returned to the HALT address that RunFunction pushed (vm.go:157):   *)
(* the fall-through RET of vm.go:644 is never taken, however errors,       *)
(* handlers and nested calls interleave.                                   *)
(***************************************************************************)
ReturnsThroughHalt ==
  WellFormed(artifact) /\ mode = "exec" /\ status = "running" /\ callStack = <<>>
    => ip = HaltAddr

(***************************************************************************)
(* An error no try block catches is final: although execute notices it     *)
(* only at the next fetch, nothing is stored, emitted, called or caught in *)
(* between, and the call never ends in success.                            *)
(***************************************************************************)
UncaughtErrorIsFinal ==
  [][errors > 0 =>
       /\ UNCHANGED <<stack, callStack, tryStack, storage, lastError, journal>>
       /\ status' # "success"]_vars

(***************************************************************************)
(* Code whose branches all lead forward and which calls nothing ends, in   *)
(* whichever way: an error handler is entered at most once per try, and a  *)
(* return leaves the function (execute has no other limit on its steps).   *)
(***************************************************************************)
ForwardOnly(art) ==
  \A i \in DOMAIN art.code :
    /\ art.code[i].op \in Branches => art.code[i].a >= i
    /\ art.code[i].op # "CALL"

ForwardCodeEnds ==
  (WellFormed(artifact) /\ ForwardOnly(artifact) /\ status = "running") ~> Done
=============================================================================
