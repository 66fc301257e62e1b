---------------------------- MODULE SynxVMProofs ----------------------------
(***************************************************************************)
(* Proofs about SynxVM, for every set of artifacts and of requests and     *)
(* every bound: its types, that the fetch of a well-formed artifact stays  *)
(* in the code, that an EXEC ends through the HALT address, and that an    *)
(* uncaught error is final.                                                *)
(***************************************************************************)
EXTENDS SynxVM, SequenceLemmas

(***************************************************************************)
(* Every address the machine holds is in the code: not only ip, but the    *)
(* ones RET, ERR and END_TRY may make it jump to later.                    *)
(***************************************************************************)
Contained ==
  WellFormed(artifact) /\ status \in {"idle", "running"} =>
    /\ ip \in Addrs(Code)
    /\ \A i \in DOMAIN callStack : callStack[i] \in Addrs(Code)
    /\ \A i \in DOMAIN tryStack : tryStack[i].handlerAddr \in Addrs(Code)

(***************************************************************************)
(* The oldest return address of an EXEC is the HALT's, until RET takes it. *)
(***************************************************************************)
OldestIsHalt ==
  /\ mode = "none" => callStack = <<>>
  /\ WellFormed(artifact) /\ mode = "exec" /\ status = "running" =>
       IF callStack = <<>> THEN ip = HaltAddr ELSE callStack[1] = HaltAddr

Typed == Loadable(artifact) /\ TypeOK

IInv == Typed /\ Contained /\ OldestIsHalt

----------------------------------------------------------------------------
(* Types. *)

\* The instruction a step executes is one of the code's.
LEMMA FetchedInstruction ==
  ASSUME Typed, Fetched
  PROVE  /\ At \in Instructions
         /\ ip + 1 \in 1..Len(Code)
         /\ Len(Code) \in Nat
<1>1. Code \in Seq(Instructions) /\ ip \in Nat
  BY DEF Typed, TypeOK, Loadable, Code
<1>2. Len(Code) \in Nat
  BY <1>1, LenProperties
<1>3. ip + 1 \in 1..Len(Code)
  BY <1>1, <1>2 DEF Fetched
<1> QED
  BY <1>1, <1>2, <1>3, ElementOfSeq DEF At

\* GetFuncArgs gives a list of slots, whatever address it is asked for.
LEMMA ArgsAreSlots ==
  ASSUME Typed, NEW addr
  PROVE  GetFuncArgs(artifact, addr) \in Seq(Nat)
<1>1. CASE /\ addr \in DOMAIN artifact.functionName
           /\ artifact.functionName[addr] \in DOMAIN artifact.functions
  BY <1>1 DEF Typed, Loadable, GetFuncArgs
<1>2. CASE ~(/\ addr \in DOMAIN artifact.functionName
             /\ artifact.functionName[addr] \in DOMAIN artifact.functions)
  BY <1>2, EmptySeq DEF GetFuncArgs
<1> QED
  BY <1>1, <1>2

LEMMA PopsIsNat ==
  ASSUME Typed, Fetched
  PROVE  Pops(At) \in Nat
<1>1. At \in Instructions
  BY FetchedInstruction
<1>2. Len(GetFuncArgs(artifact, At.a)) \in Nat
  BY ArgsAreSlots, LenProperties
<1> QED
  BY <1>1, <1>2 DEF Pops, Instructions

LEMMA StackElements ==
  ASSUME Typed
  PROVE  /\ Depth \in Nat
         /\ \A i \in 1..Depth : stack[i] \in Values
         /\ \A n \in 0..Depth : SubSeq(stack, 1, n) \in Seq(Values)
                               /\ Len(SubSeq(stack, 1, n)) = n
<1>1. stack \in Seq(Values)
  BY DEF Typed, TypeOK
<1> QED
  BY <1>1, LenProperties, ElementOfSeq, PrefixProperties DEF Depth

\* The operands an operator looks at are values.
LEMMA OperandsAreValues ==
  ASSUME Typed, Pops(At) <= Depth
  PROVE  /\ At.op \in Unary \cup Binary \cup Ternary => Top \in Values
         /\ At.op \in Binary \cup Ternary => Under \in Values
         /\ At.op \in Ternary => stack[Depth - 2] \in Values
<1>1. /\ At.op \in Unary => Pops(At) = 1
      /\ At.op \in Binary => Pops(At) = 2
      /\ At.op \in Ternary => Pops(At) = 3
  BY DEF Pops, Unary, Binary, Ternary
<1> QED
  BY <1>1, StackElements DEF Top, Under

\* The arithmetic of the machine is closed over its values.
LEMMA ArithmeticIsClosed ==
  ASSUME NEW a \in Values, NEW b \in Values
  PROVE  /\ AddResults(a, b) \subseteq Values
         /\ \A op \in {"SUB", "MUL", "DIV"} : ArithResults(op, a, b) \subseteq Values
         /\ \A op \in {"GT", "GT_EQ", "LT", "LT_EQ"} : CompareResults(op, a, b) \subseteq Values
<1>1. \A kind : OfKind(kind) \subseteq Values
  BY SynxVMAssumption DEF OfKind
<1>2. a.n \in Int /\ b.n \in Int
  BY DEF Values
<1>3. \A n \in Int : IntV(n) \in Values /\ FloatV(n) \in Values
  BY DEF IntV, FloatV, Value, Values, Kinds
<1>4. AddResults(a, b) \subseteq Values
  BY <1>1, <1>2, <1>3 DEF AddResults
<1>5. \A op \in {"SUB", "MUL", "DIV"} : ArithResults(op, a, b) \subseteq Values
  BY <1>1, <1>2, <1>3 DEF ArithResults
<1>6. \A op \in {"GT", "GT_EQ", "LT", "LT_EQ"} : CompareResults(op, a, b) \subseteq Values
  BY <1>3 DEF CompareResults, Truth
<1> QED
  BY <1>4, <1>5, <1>6

\* What an operator pushes is a value, whatever its operands are.
LEMMA ResultsAreValues ==
  ASSUME Typed, Executes(Operators), Pops(At) <= Depth, NEW v \in Results(At)
  PROVE  v \in Values
<1>1. At \in Instructions /\ Fetched
  BY FetchedInstruction DEF Executes
<1>2. Samples \subseteq Values
  BY SynxVMAssumption
<1>3. \A kind : OfKind(kind) \subseteq Values
  BY <1>2 DEF OfKind
<1>4. CASE At.op \in Literals
  <2>1. At.op = "CONST" => LiteralResults(At) \subseteq Values
    <3>1. artifact.pool \in Seq(Values)
      BY DEF Typed, Loadable
    <3> QED
      BY <1>1, <3>1, ElementOfSeq, LenProperties DEF LiteralResults, Instructions
  <2>2. At.op # "CONST" => LiteralResults(At) \subseteq Values
    BY <1>1, <1>4 DEF LiteralResults, Literals, Instructions, Values, Kinds, IntV, BoolV,
                      NilV, ObjV, Value, Lookup, Typed, TypeOK
  <2> QED
    BY <1>4, <2>1, <2>2 DEF Results, Literals
<1>5. CASE At.op \in {"NOT", "DUP"}
  <2>1. Top \in Values
    BY <1>5, OperandsAreValues DEF Unary
  <2> QED
    BY <1>5, <2>1 DEF Results, Literals, Truth, IntV, Value, Values, Kinds
<1>6. CASE At.op \in {"ADD", "SUB", "MUL", "DIV", "GT", "GT_EQ", "LT", "LT_EQ"}
  <2>1. Top \in Values /\ Under \in Values
    BY <1>6, OperandsAreValues DEF Binary
  <2> QED
    BY <1>6, <2>1, ArithmeticIsClosed DEF Results, Literals
<1>7. CASE At.op \in {"EQ", "DIFF", "AND", "OR", "CONTAINS", "REGEX"}
  BY <1>7 DEF Results, Literals, EqualityResults, LogicResults, TextResults, Truth, IntV,
              Value, Values, Kinds
<1>8. CASE At.op \in {"NONCE", "GET_ENV", "HASH"}
  BY <1>3, <1>8 DEF Results, Literals, ExternResults
<1>9. CASE At.op \in {"AGENT_GET", "AGENT_VALIDATE", "POLICY_DECLARE", "TYPE_DECLARE"}
  <2>1. At.op \in {"POLICY_DECLARE", "TYPE_DECLARE"} => Top \in Values
    BY OperandsAreValues DEF Binary
  <2>2. AgentObj \in Values
    BY DEF AgentObj, ObjV, Value, Values, Kinds
  <2>3. AgentResults(At) \subseteq Values
    BY <1>3, <1>9, <2>1, <2>2 DEF AgentResults
  <2> QED
    BY <1>9, <2>3 DEF Results, Literals
<1>10. CASE At.op \in {"SET_PROPERTY", "GET_PROPERTY", "ACCESS", "LENGTH"}
  <2>1. At.op = "SET_PROPERTY" => stack[Depth - 2] \in Values
    BY OperandsAreValues DEF Ternary
  <2>2. ObjectResults(At) \subseteq Values
    BY <1>2, <1>3, <1>10, <2>1 DEF ObjectResults
  <2> QED
    BY <1>10, <2>2 DEF Results, Literals
<1> QED
  BY <1>4, <1>5, <1>6, <1>7, <1>8, <1>9, <1>10
     DEF Executes, Operators, Literals, Unary, Binary, Ternary

\* A pop leaves a shorter stack of values.
LEMMA RestIsStack ==
  ASSUME Typed, NEW n \in 0..Depth
  PROVE  /\ Rest(n) \in Seq(Values)
         /\ Len(Rest(n)) = Depth - n
         /\ Len(Rest(n)) <= MaxStack
<1>1. Depth \in Nat /\ Depth - n \in 0..Depth
  BY StackElements
<1>2. Rest(n) \in Seq(Values) /\ Len(Rest(n)) = Depth - n
  BY <1>1, StackElements DEF Rest
<1> QED
  BY <1>1, <1>2, SynxVMAssumption DEF Typed, TypeOK, Depth

\* A caught error leaves a stack of values, even where the machine re-extends
\* the slice over stale cells.
LEMMA ReslicedIsStack ==
  ASSUME NEW s \in Seq(Values), NEW n \in Nat, NEW t \in Resliced(s, n)
  PROVE  t \in Seq(Values) /\ Len(t) = n
<1>1. Len(s) \in Nat
  BY LenProperties
<1>2. CASE n <= Len(s)
  BY <1>1, <1>2, PrefixProperties DEF Resliced
<1>3. CASE ~(n <= Len(s))
  <2>1. PICK stale \in [1..(n - Len(s)) -> Samples] : t = s \o stale
    BY <1>3 DEF Resliced
  <2>2. stale \in Seq(Values) /\ Len(stale) = n - Len(s)
    BY <1>1, <1>3, SynxVMAssumption
  <2> QED
    BY <1>1, <2>1, <2>2, ConcatProperties
<1> QED
  BY <1>2, <1>3

\* Binding the arguments of a request or of a call leaves values in storage.
LEMMA BindArgsIsStorage ==
  ASSUME NEW st, NEW slots \in Seq(Nat), NEW args \in Seq(Values),
         Len(args) = Len(slots), \A s \in DOMAIN st : st[s] \in Values,
         NEW s \in DOMAIN BindArgs(st, slots, args)
  PROVE  BindArgs(st, slots, args)[s] \in Values
<1>1. CASE s \in Range(slots)
  <2> DEFINE T == {i \in DOMAIN slots : slots[i] = s}
  <2>1. PICK n \in Nat : n = Len(slots) /\ DOMAIN slots = 1..n
    BY LenProperties
  <2>2. \E i \in T : \A j \in T : j <= i
    BY <1>1, <2>1, LastPosition DEF Range
  <2>3. \E i \in DOMAIN slots : slots[i] = s /\ \A j \in DOMAIN slots : slots[j] = s => j <= i
    BY <2>2
  <2>4. \A i \in DOMAIN slots : args[i] \in Values
    BY <2>1, ElementOfSeq
  <2> QED
    BY <1>1, <2>3, <2>4 DEF BindArgs
<1>2. CASE s \notin Range(slots)
  BY <1>2 DEF BindArgs
<1> QED
  BY <1>1, <1>2

LEMMA CallArgsIsStorage ==
  ASSUME Typed, NEW slots \in Seq(Nat), Len(slots) <= Depth,
         NEW s \in DOMAIN CallArgs(slots)
  PROVE  CallArgs(slots)[s] \in Values
<1>1. CASE s \in Range(slots)
  <2> DEFINE T == {i \in DOMAIN slots : slots[i] = s}
  <2>1. PICK n \in Nat : n = Len(slots) /\ DOMAIN slots = 1..n
    BY LenProperties
  <2>2. \E i \in T : \A j \in T : i <= j
    <3>1. T \subseteq Nat /\ T # {}
      BY <1>1, <2>1 DEF Range
    <3> QED
      BY <3>1, FirstPosition
  <2>3. \E i \in DOMAIN slots : slots[i] = s /\ \A j \in DOMAIN slots : slots[j] = s => i <= j
    BY <2>2
  <2>4. \A i \in DOMAIN slots : stack[Depth - Len(slots) + i] \in Values
    BY <2>1, StackElements
  <2> QED
    BY <1>1, <2>3, <2>4 DEF CallArgs
<1>2. CASE s \notin Range(slots)
  BY <1>2 DEF CallArgs, Typed, TypeOK
<1> QED
  BY <1>1, <1>2

LEMMA InitTyped == Init => Typed
<1> SUFFICES ASSUME Init PROVE Typed
  OBVIOUS
<1>1. \A s \in DOMAIN storage : storage[s] \in Values
  BY SynxVMAssumption DEF Init, Loadable, FreshStorage, Lookup, ObjV, Value, Values, Kinds
<1>2. NilV \in Values
  BY DEF NilV, Value, Values, Kinds
<1>3. /\ stack \in Seq(Values) /\ Len(stack) <= MaxStack
      /\ callStack \in Seq(Nat)
      /\ tryStack \in Seq(TryFrames)
  BY SynxVMAssumption, EmptySeq DEF Init
<1>4. GlobalScopeSlot \in DOMAIN storage
  BY DEF Init, FreshStorage
<1>5. Loadable(artifact)
  BY SynxVMAssumption DEF Init
<1> QED
  BY <1>1, <1>2, <1>3, <1>4, <1>5 DEF Init, Typed, TypeOK

LEMMA RunTyped == Typed /\ Run => Typed'
BY DEF Typed, TypeOK, Run

\* Whatever function is named and whatever values it is given.
LEMMA RunFunctionTyped ==
  ASSUME Typed, NEW f, NEW args \in Seq(Values), RunFunction(f, args)
  PROVE  Typed'
<1> USE DEF Typed, TypeOK
<1> DEFINE meta == artifact.functions[f]
<1>1. CASE ~(f \in DOMAIN artifact.functions /\ Len(args) = Len(meta.args))
  BY <1>1 DEF RunFunction, Outcomes
<1>2. CASE f \in DOMAIN artifact.functions /\ Len(args) = Len(meta.args)
  <2>1. meta.addr \in Nat /\ meta.args \in Seq(Nat)
    BY <1>2 DEF Loadable
  <2>2. HaltAddr \in Nat
    BY EmptySeq DEF HaltAddr, Code, Loadable
  <2>3. callStack' \in Seq(Nat)
    <3>1. callStack' = Append(callStack, HaltAddr)
      BY <1>2 DEF RunFunction
    <3> QED
      BY <2>2, <3>1, AppendProperties
  <2> DEFINE st == Put(storage, GlobalScopeSlot, ObjV(0))
  <2>4. \A s \in DOMAIN st : st[s] \in Values
    BY DEF Put, ObjV, Value, Values, Kinds
  <2>5. storage' = BindArgs(st, meta.args, args)
    BY <1>2 DEF RunFunction
  <2>6. \A s \in DOMAIN storage' : storage'[s] \in Values
    BY <1>2, <2>1, <2>4, <2>5, BindArgsIsStorage
  <2> QED
    BY <1>2, <2>1, <2>3, <2>6 DEF RunFunction
<1> QED
  BY <1>1, <1>2

LEMMA StepTyped == Typed /\ Step => Typed'
<1> SUFFICES ASSUME Typed, Step PROVE Typed'
  OBVIOUS
<1> USE DEF Typed, TypeOK
<1>1. CASE FetchPanics
  BY <1>1 DEF FetchPanics, Outcomes
<1>2. CASE Abort
  BY <1>2 DEF Abort, Fetched, Outcomes
<1>3. CASE Halt
  BY <1>3 DEF Halt, Executes, Fetched, Outcomes
<1>4. CASE Operate
  <2>1. Typed /\ Fetched /\ Executes(Operators) /\ Pops(At) <= Depth
    BY <1>4 DEF Operate, Executes
  <2>2. PICK v \in Results(At) : stack' = Append(SubSeq(stack, 1, Kept(At)), v)
    BY <1>4 DEF Operate
  <2>3. v \in Values
    BY <2>1, ResultsAreValues
  <2>4. Kept(At) \in 0..Depth /\ Kept(At) < MaxStack
    BY <1>4, <2>1, PopsIsNat, StackElements DEF Operate, Kept
  <2>5. stack' \in Seq(Values) /\ Len(stack') = Kept(At) + 1
    BY <2>2, <2>3, <2>4, StackElements, AppendProperties
  <2>6. Len(stack') <= MaxStack
    BY <2>4, <2>5, SynxVMAssumption, StackElements
  <2> QED
    BY <1>4, <2>5, <2>6 DEF Operate
<1>5. CASE Underflow
  BY <1>5 DEF Underflow, Executes, Fetched, Outcomes
<1>6. CASE BadOperand
  BY <1>6 DEF BadOperand, Executes, Fetched, Outcomes
<1>7. CASE UnknownOpcode
  BY <1>7 DEF UnknownOpcode, Executes, Fetched, Outcomes
<1>8. CASE Nop
  BY <1>8 DEF Nop
<1>9. CASE Swap
  <2>1. Depth >= 2 /\ stack' = Rest(2) \o <<Top, Under>>
    BY <1>9 DEF Swap
  <2>2. Top \in Values /\ Under \in Values /\ Rest(2) \in Seq(Values) /\ Len(Rest(2)) = Depth - 2
    BY <2>1, StackElements, RestIsStack DEF Top, Under
  <2>3. stack' \in Seq(Values) /\ Len(stack') = Depth
    BY <2>1, <2>2, StackElements, ConcatProperties
  <2> QED
    BY <1>9, <2>3 DEF Swap, Depth
<1>10. CASE PrintTop
  <2>1. stack' \in Seq(Values) /\ Len(stack') <= MaxStack
    BY <1>10, RestIsStack, EmptySeq DEF PrintTop, Depth
  <2> QED
    BY <1>10, <2>1 DEF PrintTop
<1>11. CASE Store
  <2>1. Depth >= 1 /\ Top \in Values /\ stack' \in Seq(Values) /\ Len(stack') <= MaxStack
    <3>1. Depth >= 1 /\ 1 \in 0..Depth /\ Depth \in 1..Depth /\ stack' = Rest(1)
      BY <1>11, StackElements DEF Store
    <3>2. Top \in Values
      BY <3>1, StackElements DEF Top
    <3> QED
      BY <3>1, <3>2, RestIsStack
  <2>2. \A s \in DOMAIN storage' : storage'[s] \in Values
    BY <1>11, <2>1 DEF Store, Put
  <2> QED
    BY <1>11, <2>1, <2>2 DEF Store, Executes, Fetched
<1>12. CASE Delete
  <2>1. \A s \in DOMAIN storage' : storage'[s] \in Values
    BY <1>12 DEF Delete
  <2>2. /\ mode' = mode /\ mode # "none"
        /\ status' \in {"running", "panicked"}
        /\ ip' \in {ip, ip + 1}
    BY <1>12 DEF Delete, Executes, Fetched
  <2> QED
    BY <1>12, <2>1, <2>2 DEF Delete, Outcomes
<1>13. CASE AgentDeclare
  <2>1. stack' \in Seq(Values) /\ Len(stack') <= MaxStack
    BY <1>13, StackElements, RestIsStack DEF AgentDeclare
  <2>2. AgentObj \in Values
    BY DEF AgentObj, ObjV, Value, Values, Kinds
  <2>3. \A s \in DOMAIN storage' : storage'[s] \in Values
    BY <1>13, <2>2 DEF AgentDeclare, Put
  <2> QED
    BY <1>13, <2>1, <2>3 DEF AgentDeclare, Executes, Fetched
<1>14. CASE Emit
  <2>1. stack' \in Seq(Values) /\ Len(stack') <= MaxStack
    BY <1>14, StackElements, RestIsStack DEF Emit
  <2> QED
    BY <1>14, <2>1 DEF Emit
<1>15. CASE Jmp
  <2>1. Target \in Nat
    BY <1>15, FetchedInstruction DEF Jmp, Executes, Target, Instructions
  <2> QED
    BY <1>15, <2>1 DEF Jmp
<1>16. CASE JmpIf
  <2>1. Target \in Nat
    BY <1>16, FetchedInstruction DEF JmpIf, Executes, Target, Instructions
  <2>2. stack' \in Seq(Values) /\ Len(stack') <= MaxStack
    <3>1. stack' = Rest(1) /\ 1 \in 0..Depth
      BY <1>16, StackElements DEF JmpIf
    <3> QED
      BY <3>1, RestIsStack
  <2> QED
    BY <1>16, <2>1, <2>2 DEF JmpIf
<1>17. CASE Call
  <2>1. At \in Instructions /\ At.op = "CALL" /\ Pops(At) <= Depth /\ Pops(At) \in Nat
    BY <1>17, FetchedInstruction, PopsIsNat DEF Call, Executes
  <2>2. Pops(At) = Len(GetFuncArgs(artifact, At.a))
    BY <2>1 DEF Pops, Unary, Binary, Ternary
  <2>3. \A s \in DOMAIN storage' : storage'[s] \in Values
    BY <1>17, <2>1, <2>2, ArgsAreSlots, CallArgsIsStorage DEF Call
  <2>4. stack' \in Seq(Values) /\ Len(stack') <= MaxStack
    BY <1>17, <2>1, StackElements, RestIsStack DEF Call
  <2>5. callStack' \in Seq(Nat)
    BY <1>17, AppendProperties DEF Call
  <2>6. ip' \in Nat
    BY <1>17, <2>1 DEF Call, Instructions
  <2> QED
    BY <1>17, <2>3, <2>4, <2>5, <2>6 DEF Call, Executes, Fetched
<1>18. CASE Ret
  <2>1. ip' \in Nat /\ callStack' \in Seq(Nat)
    <3>1. CASE callStack = <<>>
      BY <1>18, <3>1 DEF Ret
    <3>2. CASE callStack # <<>>
      <4>1. ip' = Last(callStack) /\ callStack' = Front(callStack)
        BY <1>18, <3>2 DEF Ret
      <4> QED
        BY <3>2, <4>1, FrontProperties
    <3> QED
      BY <3>1, <3>2
  <2> QED
    BY <1>18, <2>1 DEF Ret
<1>19. CASE Try
  <2>1. At \in Instructions
    BY <1>19, FetchedInstruction DEF Try, Executes
  <2>2. TryFrame(Target, At.b) \in TryFrames
    BY <2>1, StackElements, LenProperties, SynxVMAssumption
       DEF TryFrame, TryFrames, Target, Instructions, Depth
  <2>3. tryStack' \in Seq(TryFrames)
    BY <1>19, <2>2, AppendProperties DEF Try
  <2> QED
    BY <1>19, <2>3 DEF Try
<1>20. CASE EndTry
  <2>1. tryStack' \in Seq(TryFrames)
    BY <1>20, FrontProperties DEF EndTry
  <2> QED
    BY <1>20, <2>1 DEF EndTry, Executes, Fetched, Outcomes
<1>21. CASE Err
  <2>1. Depth >= 1 /\ Top \in Values /\ Rest(1) \in Seq(Values) /\ Len(Rest(1)) <= MaxStack
    <3>1. Depth >= 1 /\ 1 \in 0..Depth /\ Depth \in 1..Depth
      BY <1>21, StackElements DEF Err
    <3>2. Top \in Values
      BY <3>1, StackElements DEF Top
    <3> QED
      BY <3>1, <3>2, RestIsStack
  <2>2. ErrMap(Top) \in Values
    BY <2>1 DEF ErrMap, ErrorObj, ObjV, Value, Values, Kinds
  <2>3. CASE tryStack # <<>>
    <3> DEFINE h == Last(tryStack)
    <3>1. h \in TryFrames /\ tryStack' \in Seq(TryFrames)
      BY <1>21, <2>3, FrontProperties DEF Err, Caught
    <3>2. h.handlerAddr \in Nat /\ h.stackDepth \in 0..MaxStack
      BY <3>1 DEF TryFrames
    <3>3. stack' \in Resliced(Rest(1), h.stackDepth) \/ stack' = Rest(1)
      BY <1>21, <2>3 DEF Err, Caught
    <3>4. stack' \in Seq(Values) /\ Len(stack') <= MaxStack
      BY <2>1, <3>2, <3>3, ReslicedIsStack, SynxVMAssumption
    <3>5. \A s \in DOMAIN storage' : storage'[s] \in Values
      BY <1>21, <2>2, <2>3 DEF Err, Caught, Put
    <3>6. ip' \in Nat /\ errors' = errors
      BY <1>21, <2>3, <3>2 DEF Err, Caught
    <3> QED
      BY <1>21, <2>2, <3>1, <3>4, <3>5, <3>6 DEF Err, Executes, Fetched
  <2>4. CASE tryStack = <<>>
    BY <1>21, <2>1, <2>2, <2>4 DEF Err, Executes, Fetched
  <2> QED
    BY <2>3, <2>4
<1>22. CASE Require
  <2>1. stack' \in Seq(Values) /\ Len(stack') <= MaxStack
    BY <1>22, StackElements, RestIsStack DEF Require
  <2> QED
    BY <1>22, <2>1 DEF Require, Executes, Fetched
<1> QED
  BY <1>1, <1>2, <1>3, <1>4, <1>5, <1>6, <1>7, <1>8, <1>9, <1>10, <1>11, <1>12, <1>13,
     <1>14, <1>15, <1>16, <1>17, <1>18, <1>19, <1>20, <1>21, <1>22 DEF Step

LEMMA NextTyped == Typed /\ [Next]_vars => Typed'
<1> SUFFICES ASSUME Typed, [Next]_vars PROVE Typed'
  OBVIOUS
<1>1. ASSUME NEW r \in Requests, RunFunction(r[1], r[2])
      PROVE  Typed'
  <2>1. r[2] \in Seq(Values)
    BY SynxVMAssumption
  <2> QED
    BY <1>1, <2>1, RunFunctionTyped
<1>2. CASE UNCHANGED vars
  BY <1>2 DEF vars, Typed, TypeOK
<1> QED
  BY <1>1, <1>2, RunTyped, StepTyped DEF Next, Start

(***************************************************************************)
(* The machine's types, whatever artifact and request it is given.         *)
(***************************************************************************)
THEOREM TypeCorrect == Spec => []TypeOK
<1>1. Init => Typed
  BY InitTyped
<1>2. Typed /\ [Next]_vars => Typed'
  BY NextTyped
<1>3. Typed => TypeOK
  BY DEF Typed
<1> QED
  BY <1>1, <1>2, <1>3, PTL DEF Spec

----------------------------------------------------------------------------
(* Addresses. *)

\* What a well-formed artifact guarantees of the code.
LEMMA WellFormedCode ==
  ASSUME Typed, WellFormed(artifact)
  PROVE  /\ Len(Code) \in Nat \ {0}
         /\ HaltAddr \in Addrs(Code)
         /\ Code[HaltAddr + 1].op = "HALT"
         /\ \A i \in 1..Len(Code) : Code[i].op \in Branches => Code[i].a \in Addrs(Code)
         /\ \A f \in DOMAIN artifact.functions : artifact.functions[f].addr \in Addrs(Code)
<1>1. Code \in Seq(Instructions) /\ Code # <<>>
  BY DEF Typed, Loadable, Code
<1>2. Len(Code) \in Nat \ {0} /\ DOMAIN Code = 1..Len(Code)
  BY <1>1, EmptySeq, LenProperties
<1> QED
  BY <1>2 DEF WellFormed, HaltAddr, Addrs, Code

\* Only a HALT is last, so every other instruction has a next one.
LEMMA NextInCode ==
  ASSUME Typed, WellFormed(artifact), Fetched, At.op # "HALT"
  PROVE  ip + 1 \in Addrs(Code) /\ ip # HaltAddr
<1>1. ip + 1 \in 1..Len(Code) /\ ip \in Nat
  BY FetchedInstruction DEF Typed, TypeOK
<1>2. ip # HaltAddr
  BY WellFormedCode DEF At
<1> QED
  BY <1>1, <1>2, WellFormedCode DEF Addrs, HaltAddr

LEMMA TargetInCode ==
  ASSUME Typed, WellFormed(artifact), Fetched, At.op \in Branches
  PROVE  At.a \in Addrs(Code)
BY FetchedInstruction, WellFormedCode DEF At

\* Steps happen to a started machine, and keep its artifact.
LEMMA StepOfARun ==
  ASSUME Typed, Step
  PROVE  /\ status = "running" /\ mode \in {"init", "exec"}
         /\ artifact' = artifact /\ mode' = mode
         /\ status' \in {"running"} \cup Outcomes
<1>1. status = "running" /\ artifact' = artifact /\ mode' = mode
  BY DEF Step, FetchPanics, Abort, Halt, Operate, Underflow, BadOperand, UnknownOpcode, Nop,
         Swap, PrintTop, Store, Delete, AgentDeclare, Emit, Jmp, JmpIf, Call, Ret, Try, EndTry,
         Err, Require, Executes, Fetched
<1>2. status' \in {"running"} \cup Outcomes
  BY <1>1
     DEF Step, FetchPanics, Abort, Halt, Operate, Underflow, BadOperand, UnknownOpcode, Nop,
         Swap, PrintTop, Store, Delete, AgentDeclare, Emit, Jmp, JmpIf, Call, Ret, Try, EndTry,
         Err, Require, Outcomes
<1> QED
  BY <1>1, <1>2 DEF Typed, TypeOK

\* The instructions that fall through to the next one and touch neither the
\* return addresses nor the handlers.
FallsThrough ==
  /\ Fetched /\ At.op # "HALT"
  /\ ip' = ip + 1
  /\ UNCHANGED <<callStack, tryStack>>

LEMMA FallThroughSteps ==
  ASSUME Operate \/ Nop \/ Swap \/ PrintTop \/ Store \/ AgentDeclare \/ Emit \/ Require
  PROVE  FallsThrough
BY DEF Operate, Nop, Swap, PrintTop, Store, AgentDeclare, Emit, Require, FallsThrough, Executes,
       Operators, Literals, Unary, Binary, Ternary

\* The steps that end the machine.
LEMMA EndingSteps ==
  ASSUME FetchPanics \/ Abort \/ Halt \/ Underflow \/ BadOperand \/ UnknownOpcode
  PROVE  status' \in Outcomes
BY DEF FetchPanics, Abort, Halt, Underflow, BadOperand, UnknownOpcode, Outcomes

LEMMA InitContained == Init => Contained /\ OldestIsHalt
<1> SUFFICES ASSUME Init PROVE Contained /\ OldestIsHalt
  OBVIOUS
<1>1. Typed
  BY InitTyped
<1>2. WellFormed(artifact) => 0 \in Addrs(Code)
  BY <1>1, WellFormedCode DEF Addrs
<1> QED
  BY <1>2 DEF Init, Contained, OldestIsHalt

LEMMA NextContained ==
  ASSUME Typed, Contained, Next
  PROVE  Contained'
<1> SUFFICES ASSUME WellFormed(artifact)', (status \in {"idle", "running"})'
             PROVE  /\ ip' \in Addrs(Code')
                    /\ \A i \in DOMAIN callStack' : callStack'[i] \in Addrs(Code')
                    /\ \A i \in DOMAIN tryStack' : tryStack'[i].handlerAddr \in Addrs(Code')
  BY DEF Contained
<1>1. artifact' = artifact /\ Code' = Code /\ WellFormed(artifact)
  <2>1. artifact' = artifact
    BY StepOfARun DEF Next, Start, Run, RunFunction
  <2> QED
    BY <2>1 DEF Code
<1>2. /\ ip \in Addrs(Code)
      /\ \A i \in DOMAIN callStack : callStack[i] \in Addrs(Code)
      /\ \A i \in DOMAIN tryStack : tryStack[i].handlerAddr \in Addrs(Code)
  <2>1. status \in {"idle", "running"}
    BY StepOfARun DEF Next, Start, Run, RunFunction
  <2> QED
    BY <1>1, <2>1 DEF Contained
<1>3. callStack \in Seq(Nat) /\ tryStack \in Seq(TryFrames) /\ ip \in Nat
  BY DEF Typed, TypeOK
<1>4. HaltAddr \in Nat /\ Addrs(Code) \subseteq Nat
  BY <1>1, WellFormedCode DEF Addrs
<1>5. ~(status' \in Outcomes)
  BY DEF Outcomes
<1>6. CASE Run
  BY <1>1, <1>2, <1>6 DEF Run
<1>7. ASSUME NEW r \in Requests, RunFunction(r[1], r[2])
      PROVE  /\ ip' \in Addrs(Code)
             /\ \A i \in DOMAIN callStack' : callStack'[i] \in Addrs(Code)
             /\ tryStack' = tryStack
  <2>1. /\ r[1] \in DOMAIN artifact.functions
        /\ callStack' = Append(callStack, HaltAddr)
        /\ ip' = artifact.functions[r[1]].addr
        /\ tryStack' = tryStack
    BY <1>5, <1>7 DEF RunFunction, Outcomes
  <2>2. \A i \in DOMAIN callStack' : callStack'[i] \in Addrs(Code)
    BY <1>1, <1>2, <1>3, <1>4, <2>1, WellFormedCode, AppendProperties, LenProperties
  <2> QED
    BY <1>1, <2>1, <2>2, WellFormedCode
<1>8. CASE FetchPanics \/ Abort \/ Halt \/ Underflow \/ BadOperand \/ UnknownOpcode
  BY <1>5, <1>8, EndingSteps
<1>9. CASE Operate \/ Nop \/ Swap \/ PrintTop \/ Store \/ AgentDeclare \/ Emit \/ Require
  BY <1>1, <1>2, <1>9, FallThroughSteps, NextInCode DEF FallsThrough
<1>10. CASE Delete
  <2>1. /\ Fetched /\ At.op # "HALT" /\ ip' = ip + 1
        /\ callStack' = callStack /\ tryStack' = tryStack
    BY <1>5, <1>10 DEF Delete, Executes, Outcomes
  <2> QED
    BY <1>1, <1>2, <2>1, NextInCode
<1>11. CASE Jmp
  <2>1. Fetched /\ At.op \in Branches /\ ip' = At.a
    BY <1>11 DEF Jmp, Executes, Branches, Target
  <2> QED
    BY <1>1, <1>2, <1>11, <2>1, TargetInCode DEF Jmp
<1>12. CASE JmpIf
  <2>1. /\ Fetched /\ At.op \in Branches /\ At.op # "HALT"
        /\ ip' \in {At.a, ip + 1}
    BY <1>12 DEF JmpIf, Executes, Branches, Target
  <2> QED
    BY <1>1, <1>2, <1>12, <2>1, TargetInCode, NextInCode DEF JmpIf
<1>13. CASE Call
  <2>1. /\ Fetched /\ At.op \in Branches /\ At.op # "HALT"
        /\ ip' = At.a /\ callStack' = Append(callStack, ip + 1)
        /\ tryStack' = tryStack
    BY <1>13 DEF Call, Executes, Branches
  <2>2. At.a \in Addrs(Code) /\ ip + 1 \in Addrs(Code)
    BY <1>1, <2>1, TargetInCode, NextInCode
  <2>3. \A i \in DOMAIN callStack' : callStack'[i] \in Addrs(Code)
    BY <1>2, <1>3, <1>4, <2>1, <2>2, AppendProperties, LenProperties
  <2> QED
    BY <1>1, <1>2, <2>1, <2>2, <2>3
<1>14. CASE Ret
  <2>1. Fetched /\ At.op # "HALT" /\ tryStack' = tryStack
    BY <1>14 DEF Ret, Executes
  <2>2. CASE callStack = <<>>
    BY <1>1, <1>2, <1>14, <2>1, <2>2, NextInCode DEF Ret
  <2>3. CASE callStack # <<>>
    <3>1. ip' = Last(callStack) /\ callStack' = Front(callStack)
      BY <1>14, <2>3 DEF Ret
    <3>2. /\ Len(callStack) \in Nat \ {0}
          /\ DOMAIN callStack = 1..Len(callStack)
          /\ DOMAIN callStack' = 1..(Len(callStack) - 1)
          /\ ip' = callStack[Len(callStack)]
          /\ \A i \in 1..(Len(callStack) - 1) : callStack'[i] = callStack[i]
      BY <1>3, <2>3, <3>1, FrontProperties, LenProperties
    <3> QED
      BY <1>1, <1>2, <2>1, <3>2
  <2> QED
    BY <2>2, <2>3
<1>15. CASE Try
  <2>1. /\ Fetched /\ At.op \in Branches /\ At.op # "HALT"
        /\ ip' = ip + 1 /\ callStack' = callStack
        /\ tryStack' = Append(tryStack, TryFrame(At.a, At.b))
    BY <1>15 DEF Try, Executes, Branches, Target
  <2>2. At.a \in Addrs(Code) /\ ip + 1 \in Addrs(Code)
    BY <1>1, <2>1, TargetInCode, NextInCode
  <2>3. TryFrame(At.a, At.b).handlerAddr = At.a /\ TryFrame(At.a, At.b) \in TryFrames
    <3>1. At \in Instructions
      BY <2>1, FetchedInstruction
    <3>2. At.a \in Nat /\ At.b \in Nat /\ Len(callStack) \in Nat /\ Depth \in 0..MaxStack
      BY <1>3, <3>1, StackElements, LenProperties, SynxVMAssumption
         DEF Instructions, Typed, TypeOK, Depth
    <3> QED
      BY <3>2 DEF TryFrame, TryFrames
  <2>4. \A i \in DOMAIN tryStack' : tryStack'[i].handlerAddr \in Addrs(Code)
    BY <1>2, <1>3, <2>1, <2>2, <2>3, AppendProperties, LenProperties
  <2> QED
    BY <1>1, <1>2, <2>1, <2>2, <2>4
<1>16. ASSUME tryStack # <<>>, tryStack' = Front(tryStack)
       PROVE  \A i \in DOMAIN tryStack' : tryStack'[i].handlerAddr \in Addrs(Code)
  <2>1. /\ Len(tryStack) \in Nat \ {0}
        /\ DOMAIN tryStack = 1..Len(tryStack)
        /\ DOMAIN tryStack' = 1..(Len(tryStack) - 1)
        /\ \A i \in 1..(Len(tryStack) - 1) : tryStack'[i] = tryStack[i]
    BY <1>3, <1>16, FrontProperties, LenProperties
  <2> QED
    BY <1>2, <2>1
<1>17. CASE EndTry
  <2>1. /\ Fetched /\ At.op # "HALT" /\ ip' = ip + 1
        /\ callStack' = callStack
        /\ tryStack # <<>> /\ tryStack' = Front(tryStack)
    BY <1>5, <1>17 DEF EndTry, Executes, Outcomes
  <2> QED
    BY <1>1, <1>2, <1>16, <2>1, NextInCode
<1>18. CASE Err
  <2>1. Fetched /\ At.op # "HALT" /\ callStack' = callStack
    BY <1>18 DEF Err, Executes
  <2>2. CASE tryStack # <<>>
    <3>1. tryStack' = Front(tryStack) /\ ip' = Last(tryStack).handlerAddr
      BY <1>18, <2>2 DEF Err, Caught
    <3>2. Last(tryStack) = tryStack[Len(tryStack)] /\ Len(tryStack) \in DOMAIN tryStack
      <4>1. Last(tryStack) = tryStack[Len(tryStack)] /\ Len(tryStack) \in Nat \ {0}
        BY <1>3, <2>2, FrontProperties
      <4>2. DOMAIN tryStack = 1..Len(tryStack)
        BY <1>3, LenProperties
      <4> QED
        BY <4>1, <4>2
    <3> QED
      BY <1>1, <1>2, <1>16, <2>1, <2>2, <3>1, <3>2
  <2>3. CASE tryStack = <<>>
    BY <1>1, <1>2, <1>18, <2>1, <2>3, NextInCode DEF Err
  <2> QED
    BY <2>2, <2>3
<1>19. CASE Start
  <2>1. CASE \E r \in Requests : RunFunction(r[1], r[2])
    <3>1. PICK r \in Requests : RunFunction(r[1], r[2])
      BY <2>1
    <3> QED
      BY <1>1, <1>2, <1>7, <3>1
  <2> QED
    BY <1>6, <1>19, <2>1 DEF Start
<1>20. CASE Step
  BY <1>8, <1>9, <1>10, <1>11, <1>12, <1>13, <1>14, <1>15, <1>17, <1>18, <1>20 DEF Step
<1> QED
  BY <1>19, <1>20 DEF Next

LEMMA NextOldestIsHalt ==
  ASSUME Typed, OldestIsHalt, Next
  PROVE  OldestIsHalt'
<1>1. callStack \in Seq(Nat)
  BY DEF Typed, TypeOK
<1>2. CASE Run
  BY <1>2 DEF Run, OldestIsHalt, Typed, TypeOK
<1>3. ASSUME NEW r \in Requests, RunFunction(r[1], r[2])
      PROVE  OldestIsHalt'
  <2>1. mode' = "exec" /\ artifact' = artifact /\ callStack = <<>>
    BY <1>3 DEF RunFunction, OldestIsHalt, Typed, TypeOK
  <2>2. status' = "running" => callStack' = Append(callStack, HaltAddr)
    BY <1>3 DEF RunFunction
  <2>3. Append(<<>>, HaltAddr) = <<HaltAddr>>
    OBVIOUS
  <2>4. status' = "running" => callStack' # <<>> /\ callStack'[1] = HaltAddr'
    BY <2>1, <2>2, <2>3 DEF HaltAddr, Code
  <2> QED
    BY <2>1, <2>4 DEF OldestIsHalt
<1>4. CASE Step
  <2>1. /\ status = "running" /\ mode \in {"init", "exec"}
        /\ artifact' = artifact /\ mode' = mode
    BY <1>4, StepOfARun
  <2> SUFFICES ASSUME WellFormed(artifact), mode = "exec", status' = "running"
               PROVE  IF callStack' = <<>> THEN ip' = HaltAddr ELSE callStack'[1] = HaltAddr
    BY <2>1 DEF OldestIsHalt, HaltAddr, Code
  <2>2. IF callStack = <<>> THEN ip = HaltAddr ELSE callStack[1] = HaltAddr
    BY <2>1 DEF OldestIsHalt
  <2>3. CASE FetchPanics \/ Abort \/ Halt \/ Underflow \/ BadOperand \/ UnknownOpcode
    BY <2>3, EndingSteps DEF Outcomes
  <2>4. ASSUME ~(FetchPanics \/ Abort \/ Halt \/ Underflow \/ BadOperand \/ UnknownOpcode)
        PROVE  Fetched /\ At.op # "HALT"
    BY <1>4, <2>4
       DEF Step, Operate, Nop, Swap, PrintTop, Store, Delete, AgentDeclare, Emit, Jmp, JmpIf,
           Call, Ret, Try, EndTry, Err, Require, Executes, Operators, Literals, Unary, Binary,
           Ternary
  \* At the HALT address only HALT runs, so the stack is not empty here.
  <2>5. ASSUME Fetched, At.op # "HALT"
        PROVE  callStack # <<>> /\ callStack[1] = HaltAddr
    BY <2>2, <2>5, NextInCode
  <2>6. CASE Call
    <3>1. callStack' = Append(callStack, ip + 1) /\ ip + 1 \in Nat /\ Fetched /\ At.op # "HALT"
      BY <2>6 DEF Call, Executes, Typed, TypeOK
    <3>2. Len(callStack) \in Nat \ {0}
      BY <1>1, <2>5, <3>1, FrontProperties
    <3>3. Len(callStack') = Len(callStack) + 1 /\ callStack'[1] = callStack[1]
      BY <1>1, <3>1, <3>2, AppendProperties
    <3>4. callStack' # <<>>
      BY <3>2, <3>3, EmptySeq
    <3> QED
      BY <2>5, <3>1, <3>3, <3>4
  <2>7. CASE Ret
    <3>1. Fetched /\ At.op # "HALT"
      BY <2>7 DEF Ret, Executes
    <3>2. ip' = Last(callStack) /\ callStack' = Front(callStack)
      BY <2>5, <2>7, <3>1 DEF Ret
    <3>3. /\ Len(callStack) \in Nat \ {0}
          /\ ip' = callStack[Len(callStack)]
          /\ callStack' \in Seq(Nat)
          /\ Len(callStack') = Len(callStack) - 1
          /\ \A i \in 1..(Len(callStack) - 1) : callStack'[i] = callStack[i]
      BY <1>1, <2>5, <3>1, <3>2, FrontProperties
    <3>4. CASE Len(callStack) = 1
      BY <2>5, <3>1, <3>3, <3>4, EmptySeq
    <3>5. CASE Len(callStack) # 1
      <4>1. callStack' # <<>> /\ 1 \in 1..(Len(callStack) - 1)
        BY <3>3, <3>5, EmptySeq
      <4> QED
        BY <2>5, <3>1, <3>3, <4>1
    <3> QED
      BY <3>4, <3>5
  <2>8. ASSUME callStack' = callStack, Fetched, At.op # "HALT"
        PROVE  callStack' # <<>> /\ callStack'[1] = HaltAddr
    BY <2>5, <2>8
  <2>9. CASE ~(FetchPanics \/ Abort \/ Halt \/ Underflow \/ BadOperand \/ UnknownOpcode)
             /\ ~Call /\ ~Ret
    <3>1. callStack' = callStack
      BY <1>4, <2>9
         DEF Step, Operate, Nop, Swap, PrintTop, Store, Delete, AgentDeclare, Emit, Jmp, JmpIf,
             Try, EndTry, Err, Require
    <3> QED
      BY <2>4, <2>8, <2>9, <3>1
  <2> QED
    BY <2>3, <2>6, <2>7, <2>9
<1> QED
  BY <1>2, <1>3, <1>4 DEF Next, Start

----------------------------------------------------------------------------
LEMMA InitIInv == Init => IInv
BY InitTyped, InitContained DEF IInv

LEMMA NextIInv == IInv /\ [Next]_vars => IInv'
<1> SUFFICES ASSUME IInv, [Next]_vars PROVE IInv'
  OBVIOUS
<1>1. Typed'
  BY NextTyped DEF IInv
<1>2. CASE Next
  BY <1>1, <1>2, NextContained, NextOldestIsHalt DEF IInv
<1>3. CASE UNCHANGED vars
  <2>1. Contained'
    BY <1>3 DEF vars, IInv, Contained, Code
  <2>2. OldestIsHalt'
    BY <1>3 DEF vars, IInv, OldestIsHalt, HaltAddr, Code
  <2> QED
    BY <1>1, <2>1, <2>2 DEF IInv
<1> QED
  BY <1>2, <1>3

LEMMA Invariance == Spec => []IInv
BY InitIInv, NextIInv, PTL DEF Spec

(***************************************************************************)
(* No interleaving of jumps, calls, returns and caught errors brings the   *)
(* fetch of a well-formed artifact out of its code (vm.go:192).            *)
(***************************************************************************)
THEOREM FetchInCode == Spec => []IpInCode
<1>1. IInv => IpInCode
  BY DEF IInv, Contained, IpInCode
<1> QED
  BY <1>1, Invariance, PTL

(***************************************************************************)
(* An EXEC comes to its end through the HALT address that RunFunction      *)
(* pushed (vm.go:157), never through a RET without a caller (vm.go:644).   *)
(***************************************************************************)
THEOREM ExecReturnsThroughHalt == Spec => []ReturnsThroughHalt
<1>1. IInv => ReturnsThroughHalt
  BY DEF IInv, OldestIsHalt, ReturnsThroughHalt
<1> QED
  BY <1>1, Invariance, PTL

\* A machine that has not been started has recorded no error.
FreshHasNoError == status = "idle" => errors = 0

LEMMA NextFresh == Typed /\ FreshHasNoError /\ [Next]_vars => FreshHasNoError'
<1> SUFFICES ASSUME Typed, FreshHasNoError, [Next]_vars PROVE FreshHasNoError'
  OBVIOUS
<1>1. CASE Start
  BY <1>1 DEF Start, Run, RunFunction, FreshHasNoError
<1>2. CASE Step
  <2>1. status' \in {"running"} \cup Outcomes
    BY <1>2, StepOfARun
  <2> QED
    BY <2>1 DEF FreshHasNoError, Outcomes
<1>3. CASE UNCHANGED vars
  BY <1>3 DEF vars, FreshHasNoError
<1> QED
  BY <1>1, <1>2, <1>3 DEF Next

(***************************************************************************)
(* After an error no handler caught, nothing is stored, emitted, called or *)
(* caught, and the call does not succeed (vm.go:195).                      *)
(***************************************************************************)
THEOREM UncaughtErrorEndsRun == Spec => UncaughtErrorIsFinal
<1> DEFINE Final == errors > 0 =>
                      /\ UNCHANGED <<stack, callStack, tryStack, storage, lastError, journal>>
                      /\ status' # "success"
<1>1. Typed /\ FreshHasNoError /\ [Next]_vars => [Final]_vars
  <2> SUFFICES ASSUME Typed, FreshHasNoError, Next, errors > 0
               PROVE  Final
    BY DEF vars
  <2>1. errors # 0 /\ status # "idle"
    BY DEF FreshHasNoError
  <2>2. CASE Start
    BY <2>1, <2>2 DEF Start, Run, RunFunction
  <2>3. CASE Step
    BY <2>1, <2>3
       DEF Step, FetchPanics, Abort, Halt, Operate, Underflow, BadOperand, UnknownOpcode, Nop,
           Swap, PrintTop, Store, Delete, AgentDeclare, Emit, Jmp, JmpIf, Call, Ret, Try,
           EndTry, Err, Require, Executes
  <2> QED
    BY <2>2, <2>3 DEF Next
<1>2. Init => Typed /\ FreshHasNoError
  BY InitTyped DEF Init, FreshHasNoError
<1>3. Typed /\ FreshHasNoError /\ [Next]_vars => (Typed /\ FreshHasNoError)'
  BY NextTyped, NextFresh
<1> QED
  BY <1>1, <1>2, <1>3, PTL DEF Spec, UncaughtErrorIsFinal
=============================================================================
