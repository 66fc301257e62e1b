--------------------------- MODULE LifecycleProofs ---------------------------
(***************************************************************************)
(* Proofs about Lifecycle, for every class of structured programs and all  *)
(* bounds: what the compiler emits, run by the machine, keeps the promises *)
(* of StructuredControl. The annotation of CompilerControlProofs says how  *)
(* many try blocks are open at each address; the invariant of the machine  *)
(* is that it has as many frames, and that each address it holds has the   *)
(* level it will return to. Then, for every program, the types of the      *)
(* machine from theorems about SynxVM; and at the end, for balanced ones,  *)
(* that no instruction finds an operand missing.                           *)
(***************************************************************************)
EXTENDS Lifecycle, CompilerControlProofs, FiniteSetTheorems

----------------------------------------------------------------------------
(* The compiler within the lifecycle.                                      *)

LEMMA CompilerSteps == [LNext]_lvars => [Next]_cvars
<1> SUFFICES ASSUME [LNext]_lvars PROVE [Next]_cvars
  OBVIOUS
<1>1. CASE Compile
  BY <1>1 DEF Compile
<1>2. CASE StartInit \/ BuildPanics \/ Machine \/ InitEnds \/ StartExec \/ Invoke
  BY <1>2 DEF StartInit, BuildPanics, Machine, InitEnds, StartExec, Invoke
<1>3. CASE UNCHANGED lvars
  BY <1>3 DEF lvars
<1> QED
  BY <1>1, <1>2, <1>3 DEF LNext

LEMMA CompilesInside == LSpec => Spec
<1>1. LInit => Init
  BY DEF LInit
<1> QED
  BY <1>1, CompilerSteps, PTL DEF LSpec, Spec

\* What the compilation has come to.
Emits == Typed /\ Annotated /\ CompiledIsWellFormed /\ Finished

LEMMA AlwaysEmits ==
  ASSUME StructuredPrograms
  PROVE  LSpec => []Emits
<1>1. Init => Finished
  BY DEF Init, Finished
<1>2. Spec => []Finished
  BY <1>1, NextFinished, PTL DEF Spec
<1> QED
  BY <1>2, CompilesInside, AlwaysAnnotated, AlwaysScoped, CompiledWellFormed, PTL DEF Emits

----------------------------------------------------------------------------
(* The machine on annotated code.                                          *)

\* The next instruction, the return addresses and the handlers have the levels that
\* the two stacks say.
Reached(at) ==
  /\ ip \in 0..Pos
  /\ at[ip].depth = Len(tryStack) /\ (at[ip].inside <=> callStack # <<>>)
Returning(at) ==
  \A k \in 1..Len(callStack) :
    /\ callStack[k] \in 0..Pos
    /\ at[callStack[k]].depth = 0 /\ (at[callStack[k]].inside <=> k > 1)
Catching(at) ==
  \A k \in 1..Len(tryStack) :
    LET h == tryStack[k].handlerAddr
    IN  /\ tryStack[k].callDepth = Len(callStack)
        /\ h \in 0..Pos
        /\ at[h].depth = k - 1 /\ (at[h].inside <=> callStack # <<>>)
Running(at) == Annotates(at) /\ Reached(at) /\ Returning(at) /\ Catching(at)

OfCode == \E pl, st : artifact = Artifact(code, pl, functions, functionName, st)
Stacks == callStack \in Seq(Nat) /\ \E S : tryStack \in Seq(S)

LInv ==
  /\ phase \in {"init", "deployed", "exec"} => stage = "compiled" /\ OfCode
  /\ phase = "build" => status = "idle"
  /\ phase = "deployed" => status = "success"
  /\ status \in {"idle", "running"} \cup VM!Outcomes
  /\ Stacks
  /\ status = "idle" => ip = 0 /\ callStack = <<>> /\ tryStack = <<>>
  /\ status = "running" => phase \in {"init", "exec"} /\ \E at : Running(at)
  /\ status = "success" => callStack = <<>> /\ tryStack = <<>>

\* What the annotation says of one instruction of finished code.
LEMMA CodeLevels ==
  ASSUME Emits, stage = "compiled", NEW at, Annotates(at), NEW a, a \in 0..Pos, a < Pos
  PROVE  LET i == code[a + 1]
         IN  /\ a + 1 \in 0..Pos /\ at[a] \in Levels /\ at[a + 1] \in Levels
             /\ i.op \in {"JMP", "JMP_IF", "TRY"} => i.a \in 0..Pos /\ at[i.a] = at[a]
             /\ i.op = "TRY" => at[a + 1] = Deeper(at[a])
             /\ i.op = "END_TRY" => at[a] = Deeper(at[a + 1])
             /\ i.op = "RET" => at[a] = Body
             /\ i.op = "HALT" => at[a] = Ground
             /\ i.op = "CALL" => i.a \in 0..Pos /\ at[a].depth = 0 /\ at[i.a] = Body
             /\ i.op \notin {"JMP", "RET", "HALT", "TRY", "END_TRY"} => at[a + 1] = at[a]
<1>1. Pos \in Nat /\ at \in [0..Pos -> Levels]
  BY LenProperties DEF Emits, Typed, CodeOK, Pos, Annotates, Chained
<1>2. a + 1 \in 1..Pos /\ a + 1 \in 0..Pos /\ a + 1 - 1 = a
  BY <1>1
<1>3. open = <<>> /\ Len(open) = 0
  BY DEF Emits, Finished
<1>4. Waiting(open) = {}
  BY <1>3 DEF Waiting
<1>5. PICK i : i = a + 1
  OBVIOUS
<1>6. Leads(at, code, {}, i) /\ i - 1 = a
  BY <1>2, <1>4, <1>5 DEF Annotates
<1>7. code[i] \in Emitted /\ InRange(code[i], Pos, Len(pool))
  BY <1>2, <1>5, ElementOfSeq DEF Emits, Typed, CodeOK, Pos
<1>8. code[i].op \in {"JMP", "JMP_IF", "TRY", "CALL"} => code[i].a \in 0..Pos
  BY <1>1, <1>7 DEF InRange, Emitted, Branches
<1> QED
  BY <1>1, <1>2, <1>5, <1>6, <1>8 DEF Leads, Jumps

\* What a step does to the two stacks.
Fails == status' \in VM!Outcomes \ {"success"} /\ UNCHANGED <<callStack, tryStack>>
Succeeds == /\ status' = "success" /\ UNCHANGED <<callStack, tryStack>>
            /\ callStack = <<>> /\ tryStack = <<>>
Stays(at) ==
  /\ status' = "running" /\ UNCHANGED <<callStack, tryStack>>
  /\ ip' \in 0..Pos /\ at[ip'] = at[ip]
Called(at) ==
  /\ status' = "running" /\ tryStack = <<>> /\ UNCHANGED tryStack
  /\ \E r \in 0..Pos : callStack' = Append(callStack, r) /\ at[r] = at[ip]
  /\ ip' \in 0..Pos /\ at[ip'] = Body
Returns(at) ==
  /\ status' = "running" /\ tryStack = <<>> /\ UNCHANGED tryStack
  /\ callStack # <<>> /\ callStack' = Front(callStack) /\ ip' = Last(callStack)
OpensTry(at) ==
  /\ status' = "running" /\ UNCHANGED callStack
  /\ \E t : /\ tryStack' = Append(tryStack, t)
            /\ t.callDepth = Len(callStack)
            /\ t.handlerAddr \in 0..Pos /\ at[t.handlerAddr] = at[ip]
  /\ ip' \in 0..Pos /\ at[ip'] = Deeper(at[ip])
ClosesTry(at) ==
  /\ status' = "running" /\ UNCHANGED callStack
  /\ tryStack # <<>> /\ tryStack' = Front(tryStack)
  /\ ip' \in 0..Pos /\ at[ip'].depth = Len(tryStack) - 1 /\ (at[ip'].inside <=> at[ip].inside)
Effect(at) ==
  \/ Fails \/ Succeeds \/ Stays(at) \/ Called(at) \/ Returns(at) \/ OpensTry(at) \/ ClosesTry(at)

\* The instruction that a step executes is one of the compiled code.
LEMMA Executed ==
  ASSUME Emits, OfCode, Pos \in Nat, NEW at, Running(at), NEW ops, VM!Executes(ops)
  PROVE  /\ status = "running" /\ errors = 0
         /\ ip \in 0..Pos /\ ip < Pos
         /\ VM!At = code[ip + 1] /\ VM!At.op \in ops
<1>1. artifact.code = code
  BY DEF OfCode, Artifact
<1> QED
  BY <1>1 DEF VM!Executes, VM!Fetched, VM!At, VM!Code, Running, Reached, Pos

LEMMA LastIsHalt ==
  ASSUME Emits, stage = "compiled", NEW at, Annotates(at)
  PROVE  /\ Pos \in Nat /\ Pos - 1 \in 0..Pos /\ at[Pos - 1] = Ground /\ at[0] = Ground
         /\ \A f \in DOMAIN functions : functions[f].addr \in 0..Pos /\ at[functions[f].addr] = Body
<1>1. Pos \in Nat
  BY LenProperties DEF Emits, Typed, CodeOK, Pos
<1>2. Len(code) > 0 /\ code[Len(code)].op = "HALT"
  BY DEF Emits, CompiledIsWellFormed, WellFormed, Compiled, Artifact
<1>3. PICK a : a = Pos - 1
  OBVIOUS
<1>4. a \in 0..Pos /\ a < Pos /\ code[a + 1].op = "HALT"
  BY <1>1, <1>2, <1>3 DEF Pos
<1>5. at[a] = Ground
  BY <1>4, CodeLevels
<1>6. \A f \in DOMAIN functions : functions[f].addr \in 0..Pos
  BY <1>1 DEF Emits, Typed, CodeOK
<1> QED
  BY <1>1, <1>3, <1>4, <1>5, <1>6 DEF Annotates, Chained

\* The machine's own copies of the operators on sequences.
LEMMA SameEnds ==
  ASSUME NEW s
  PROVE  VM!Front(s) = Front(s) /\ VM!Last(s) = Last(s)
BY DEF VM!Front, VM!Last, Front, Last

LEMMA MachineEffect ==
  ASSUME Emits, stage = "compiled", OfCode, Stacks, NEW at, Running(at), VM!Step
  PROVE  UNCHANGED artifact /\ Effect(at)
<1>1. Pos \in Nat
  BY LenProperties DEF Emits, Typed, CodeOK, Pos
<1>2. Annotates(at)
  BY DEF Running
<1>3. CASE VM!FetchPanics \/ VM!Abort \/ VM!Underflow \/ VM!BadOperand \/ VM!UnknownOpcode
  BY <1>3 DEF VM!FetchPanics, VM!Abort, VM!Underflow, VM!BadOperand, VM!UnknownOpcode,
     VM!Outcomes, Fails, Effect
<1>4. ASSUME NEW ops, VM!Executes(ops), status' = status, UNCHANGED <<callStack, tryStack>>,
             ip' = ip + 1, ops \cap {"JMP", "RET", "HALT", "TRY", "END_TRY"} = {}
      PROVE  Stays(at)
  <2>1. /\ status = "running" /\ ip \in 0..Pos /\ ip < Pos
        /\ code[ip + 1].op \in ops
    BY <1>1, <1>4, Executed
  <2>2. ip + 1 \in 0..Pos /\ at[ip + 1] = at[ip]
    BY <1>2, <1>4, <2>1, CodeLevels
  <2> QED
    BY <1>4, <2>1, <2>2 DEF Stays
<1>5. CASE VM!Operate
  BY <1>4, <1>5 DEF VM!Operate, VM!Operators, VM!Literals, VM!Unary, VM!Binary, VM!Ternary, Effect
<1>6. CASE VM!Nop \/ VM!Swap \/ VM!PrintTop \/ VM!Store \/ VM!AgentDeclare \/ VM!Emit \/ VM!Require
  BY <1>4, <1>6 DEF VM!Nop, VM!Swap, VM!PrintTop, VM!Store, VM!AgentDeclare, VM!Emit, VM!Require,
     Effect
<1>7. CASE VM!Delete
  <2>1. CASE ip' = ip + 1 /\ UNCHANGED status
    BY <1>4, <1>7, <2>1 DEF VM!Delete, Effect
  <2>2. CASE status' = "panicked"
    BY <1>7, <2>2 DEF VM!Delete, VM!Outcomes, Fails, Effect
  <2> QED
    BY <1>7, <2>1, <2>2 DEF VM!Delete
<1>8. CASE VM!Halt
  <2>1. /\ ip \in 0..Pos /\ ip < Pos /\ code[ip + 1].op = "HALT"
    BY <1>1, <1>8, Executed DEF VM!Halt
  <2>2. at[ip] = Ground
    BY <1>2, <2>1, CodeLevels
  <2>3. Len(tryStack) = 0 /\ callStack = <<>>
    BY <2>2, LevelsClosed DEF Running, Reached
  <2>4. tryStack = <<>>
    BY <2>3, EmptySeq DEF Stacks
  <2> QED
    BY <1>8, <2>3, <2>4 DEF VM!Halt, Succeeds, Effect
<1>9. CASE VM!Jmp \/ VM!JmpIf
  <2>1. /\ status = "running" /\ ip \in 0..Pos /\ ip < Pos /\ VM!At = code[ip + 1]
        /\ code[ip + 1].op \in {"JMP", "JMP_IF"}
        /\ VM!Jmp => code[ip + 1].op = "JMP"
        /\ VM!JmpIf => code[ip + 1].op = "JMP_IF"
    BY <1>1, <1>9, Executed DEF VM!Jmp, VM!JmpIf
  <2>2. /\ code[ip + 1].a \in 0..Pos /\ at[code[ip + 1].a] = at[ip]
        /\ code[ip + 1].op = "JMP_IF" => ip + 1 \in 0..Pos /\ at[ip + 1] = at[ip]
    BY <1>2, <2>1, CodeLevels
  <2>3. ip' = code[ip + 1].a \/ (code[ip + 1].op = "JMP_IF" /\ ip' = ip + 1)
    BY <1>9, <2>1 DEF VM!Jmp, VM!JmpIf, VM!Target
  <2> QED
    BY <1>9, <2>1, <2>2, <2>3 DEF VM!Jmp, VM!JmpIf, Stays, Effect
<1>10. CASE VM!Call
  <2>1. /\ status = "running" /\ ip \in 0..Pos /\ ip < Pos /\ VM!At = code[ip + 1]
        /\ code[ip + 1].op = "CALL"
    BY <1>1, <1>10, Executed DEF VM!Call
  <2>2. /\ code[ip + 1].a \in 0..Pos /\ at[ip].depth = 0 /\ at[code[ip + 1].a] = Body
        /\ ip + 1 \in 0..Pos /\ at[ip + 1] = at[ip]
    BY <1>2, <2>1, CodeLevels
  <2>3. tryStack = <<>>
    <3>1. Len(tryStack) = 0
      BY <2>2 DEF Running, Reached
    <3> QED
      BY <3>1, EmptySeq DEF Stacks
  <2> QED
    BY <1>10, <2>1, <2>2, <2>3 DEF VM!Call, Called, Effect
<1>11. CASE VM!Ret
  <2>1. /\ status = "running" /\ ip \in 0..Pos /\ ip < Pos /\ code[ip + 1].op = "RET"
    BY <1>1, <1>11, Executed DEF VM!Ret
  <2>2. at[ip] = Body
    BY <1>2, <2>1, CodeLevels
  <2>3. Len(tryStack) = 0 /\ callStack # <<>>
    BY <2>2, LevelsClosed DEF Running, Reached
  <2>4. tryStack = <<>>
    BY <2>3, EmptySeq DEF Stacks
  <2> QED
    BY <1>11, <2>1, <2>3, <2>4, SameEnds DEF VM!Ret, Returns, Effect
<1>12. CASE VM!Try
  <2>1. /\ status = "running" /\ ip \in 0..Pos /\ ip < Pos /\ VM!At = code[ip + 1]
        /\ code[ip + 1].op = "TRY"
    BY <1>1, <1>12, Executed DEF VM!Try
  <2>2. /\ code[ip + 1].a \in 0..Pos /\ at[code[ip + 1].a] = at[ip]
        /\ ip + 1 \in 0..Pos /\ at[ip + 1] = Deeper(at[ip])
    BY <1>2, <2>1, CodeLevels
  <2>3. PICK t : t = VM!TryFrame(VM!Target, VM!At.b)
    OBVIOUS
  <2>4. t.callDepth = Len(callStack) /\ t.handlerAddr = code[ip + 1].a
    BY <2>1, <2>3 DEF VM!TryFrame, VM!Target
  <2>5. tryStack' = Append(tryStack, t)
    BY <1>12, <2>3 DEF VM!Try
  <2> QED
    BY <1>12, <2>1, <2>2, <2>4, <2>5 DEF VM!Try, OpensTry, Effect
<1>13. CASE VM!EndTry
  <2>1. /\ status = "running" /\ ip \in 0..Pos /\ ip < Pos /\ code[ip + 1].op = "END_TRY"
    BY <1>1, <1>13, Executed DEF VM!EndTry
  <2>2. at[ip] = Deeper(at[ip + 1]) /\ ip + 1 \in 0..Pos /\ at[ip + 1] \in Levels
    BY <1>2, <2>1, CodeLevels
  <2>3. /\ at[ip + 1].depth + 1 = Len(tryStack) /\ at[ip + 1].depth \in Nat
        /\ (at[ip + 1].inside <=> at[ip].inside)
    BY <2>2 DEF Running, Reached, Deeper, Levels
  <2>4. tryStack # <<>> /\ at[ip + 1].depth = Len(tryStack) - 1
    BY <2>3
  <2> QED
    BY <1>13, <2>1, <2>2, <2>3, <2>4, SameEnds DEF VM!EndTry, ClosesTry, Effect
<1>14. CASE VM!Err
  <2>1. /\ status = "running" /\ ip \in 0..Pos /\ ip < Pos /\ code[ip + 1].op = "ERR"
    BY <1>1, <1>14, Executed DEF VM!Err
  <2>2. CASE tryStack # <<>>
    <3>1. Len(tryStack) \in Nat \ {0} /\ Last(tryStack) = tryStack[Len(tryStack)]
      BY <2>2, FrontProperties DEF Stacks
    <3>2. Len(tryStack) \in 1..Len(tryStack)
      BY <3>1
    <3>3. PICK h : h = tryStack[Len(tryStack)].handlerAddr
      OBVIOUS
    <3>4. h \in 0..Pos /\ at[h].depth = Len(tryStack) - 1 /\ (at[h].inside <=> callStack # <<>>)
      BY <3>2, <3>3 DEF Running, Catching
    <3>5. tryStack' = Front(tryStack) /\ ip' = h /\ UNCHANGED <<status, callStack>>
      BY <1>14, <2>2, <3>1, <3>3, SameEnds DEF VM!Err, VM!Caught
    <3>6. at[ip].inside <=> callStack # <<>>
      BY DEF Running, Reached
    <3>7. ClosesTry(at)
      BY <2>1, <2>2, <3>4, <3>5, <3>6 DEF ClosesTry
    <3> QED
      BY <1>14, <3>7 DEF VM!Err, Effect
  <2>3. CASE tryStack = <<>>
    <3>1. ip' = ip + 1 /\ UNCHANGED <<artifact, status, callStack, tryStack>> /\ VM!Executes({"ERR"})
      BY <1>14, <2>3 DEF VM!Err
    <3> QED
      BY <1>4, <3>1 DEF Effect
  <2> QED
    BY <2>2, <2>3
<1> QED
  BY <1>3, <1>5, <1>6, <1>7, <1>8, <1>9, <1>10, <1>11, <1>12, <1>13, <1>14 DEF VM!Step

----------------------------------------------------------------------------
(* The two stacks follow the annotation.                                   *)

LEMMA AnnotationKept ==
  ASSUME NEW at, Annotates(at), UNCHANGED cvars
  PROVE  Annotates(at)'
BY DEF Annotates, Pos, cvars, scope, decls, analysis

LEMMA ShortStacks ==
  ASSUME NEW S, NEW s \in Seq(S)
  PROVE  Len(s) \in Nat /\ (s = <<>> <=> Len(s) = 0)
BY LenProperties, EmptySeq

LEMMA EffectRuns ==
  ASSUME Pos \in Nat, Stacks, NEW at, Running(at), Effect(at), UNCHANGED cvars
  PROVE  /\ Stacks'
         /\ status' \in {"running"} \cup VM!Outcomes
         /\ status' = "running" => Running(at)'
         /\ status' = "success" => callStack' = <<>> /\ tryStack' = <<>>
<1> DEFINE n == Len(callStack)
           m == Len(tryStack)
<1>1. Annotates(at)' /\ Pos' = Pos
  BY AnnotationKept DEF Running, Pos, cvars
<1>2. "success" \in VM!Outcomes /\ "running" \notin VM!Outcomes
  BY DEF VM!Outcomes
<1>3. PICK S : tryStack \in Seq(S)
  BY DEF Stacks
<1>4. /\ n \in Nat /\ (callStack = <<>> <=> n = 0) /\ callStack \in Seq(Nat)
      /\ m \in Nat /\ (tryStack = <<>> <=> m = 0)
  BY <1>3, ShortStacks DEF Stacks
<1>5. CASE Fails \/ Succeeds
  BY <1>2, <1>5 DEF Fails, Succeeds, Stacks
<1>6. CASE Stays(at)
  <2>1. Stacks' /\ status' = "running"
    BY <1>6 DEF Stays, Stacks
  <2>2. Reached(at)' /\ Returning(at)' /\ Catching(at)'
    BY <1>1, <1>6 DEF Stays, Running, Reached, Returning, Catching
  <2> QED
    BY <1>1, <1>2, <2>1, <2>2 DEF Running
<1>7. CASE Called(at)
  <2>1. PICK r \in 0..Pos : callStack' = Append(callStack, r) /\ at[r] = at[ip]
    BY <1>7 DEF Called
  <2>2. /\ callStack' \in Seq(Nat) /\ Len(callStack') = n + 1 /\ callStack' # <<>>
        /\ \A k \in 1..n : callStack'[k] = callStack[k]
        /\ callStack'[n + 1] = r
    BY <1>4, <2>1, AppendedProperties
  <2>3. /\ status' = "running" /\ tryStack = <<>> /\ tryStack' = tryStack
        /\ ip' \in 0..Pos /\ at[ip'] = Body
    BY <1>7 DEF Called
  <2>4. Stacks'
    BY <2>2, <2>3 DEF Stacks
  <2>5. Reached(at)'
    BY <1>1, <1>4, <2>2, <2>3, LevelsClosed DEF Reached
  <2>6. ASSUME NEW k \in 1..(n + 1)
        PROVE  /\ callStack'[k] \in 0..Pos
               /\ at[callStack'[k]].depth = 0 /\ (at[callStack'[k]].inside <=> k > 1)
    <3>1. CASE k \in 1..n
      BY <2>2, <3>1 DEF Running, Returning
    <3>2. CASE k = n + 1
      <4>1. callStack'[k] = r /\ at[r].depth = 0 /\ (at[r].inside <=> n # 0)
        BY <1>4, <2>1, <2>2, <2>3, <3>2 DEF Running, Reached
      <4> QED
        BY <1>4, <3>2, <4>1
    <3> QED
      BY <1>4, <3>1, <3>2
  <2>7. Returning(at)'
    BY <1>1, <2>2, <2>6 DEF Returning
  <2>8. Catching(at)'
    BY <1>4, <2>3 DEF Catching
  <2> QED
    BY <1>1, <1>2, <2>3, <2>4, <2>5, <2>7, <2>8 DEF Running
<1>8. CASE Returns(at)
  <2>1. /\ status' = "running" /\ tryStack = <<>> /\ tryStack' = tryStack
        /\ callStack # <<>> /\ callStack' = Front(callStack) /\ ip' = Last(callStack)
    BY <1>8 DEF Returns
  <2>2. /\ callStack' \in Seq(Nat) /\ Len(callStack') = n - 1
        /\ \A k \in 1..(n - 1) : callStack'[k] = callStack[k]
        /\ ip' = callStack[n]
    BY <1>4, <2>1, FrontProperties
  <2>3. n \in 1..n /\ (callStack' = <<>> <=> n - 1 = 0)
    BY <1>4, <2>1, <2>2, ShortStacks
  <2>4. Stacks'
    BY <2>1, <2>2 DEF Stacks
  <2>5. /\ callStack[n] \in 0..Pos
        /\ at[callStack[n]].depth = 0 /\ (at[callStack[n]].inside <=> n > 1)
    BY <2>3 DEF Running, Returning
  <2>6. n > 1 <=> callStack' # <<>>
    <3>1. n \in Nat /\ n >= 1
      BY ONLY <1>4, <2>3
    <3>2. PICK c \in Nat : c = n
      BY <3>1
    <3>3. c > 1 <=> ~(c - 1 = 0)
      BY <3>1, <3>2
    <3> QED
      BY <2>3, <3>2, <3>3
  <2>7. Reached(at)'
    BY <1>1, <1>4, <2>1, <2>2, <2>5, <2>6 DEF Reached
  <2>8. \A k \in 1..(n - 1) : k \in 1..n
    BY <1>4
  <2>9. Returning(at)'
    BY <1>1, <2>2, <2>8 DEF Running, Returning
  <2>10. Catching(at)'
    BY <1>4, <2>1 DEF Catching
  <2> QED
    BY <1>1, <1>2, <2>1, <2>4, <2>7, <2>9, <2>10 DEF Running
<1>9. CASE OpensTry(at)
  <2>1. PICK t : /\ tryStack' = Append(tryStack, t)
                 /\ t.callDepth = n
                 /\ t.handlerAddr \in 0..Pos /\ at[t.handlerAddr] = at[ip]
    BY <1>9 DEF OpensTry
  <2>2. tryStack \in Seq(S \cup {t})
    BY <1>3
  <2>3. /\ tryStack' \in Seq(S \cup {t}) /\ Len(tryStack') = m + 1
        /\ \A k \in 1..m : tryStack'[k] = tryStack[k]
        /\ tryStack'[m + 1] = t
    BY <2>1, <2>2, AppendedProperties
  <2>4. /\ status' = "running" /\ callStack' = callStack
        /\ ip' \in 0..Pos /\ at[ip'] = Deeper(at[ip])
    BY <1>9 DEF OpensTry
  <2>5. Stacks'
    BY <2>3, <2>4 DEF Stacks
  <2>6. at[ip].depth = m /\ (at[ip].inside <=> callStack # <<>>)
    BY DEF Running, Reached
  <2>7. at[ip'].depth = m + 1 /\ (at[ip'].inside <=> callStack # <<>>)
    BY <2>4, <2>6 DEF Deeper
  <2>8. Reached(at)' /\ Returning(at)'
    BY <1>1, <2>3, <2>4, <2>7 DEF Running, Reached, Returning
  <2>9. ASSUME NEW k \in 1..(m + 1)
        PROVE  /\ tryStack'[k].callDepth = n
               /\ tryStack'[k].handlerAddr \in 0..Pos
               /\ at[tryStack'[k].handlerAddr].depth = k - 1
               /\ (at[tryStack'[k].handlerAddr].inside <=> callStack # <<>>)
    <3>1. CASE k \in 1..m
      BY <2>3, <3>1 DEF Running, Catching
    <3>2. CASE k = m + 1
      BY <1>4, <2>1, <2>3, <2>6, <3>2
    <3> QED
      BY <1>4, <3>1, <3>2
  <2>10. Catching(at)'
    BY <1>1, <2>3, <2>4, <2>9 DEF Catching
  <2> QED
    BY <1>1, <1>2, <2>4, <2>5, <2>8, <2>10 DEF Running
<1>10. CASE ClosesTry(at)
  <2>1. /\ status' = "running" /\ callStack' = callStack
        /\ tryStack # <<>> /\ tryStack' = Front(tryStack)
        /\ ip' \in 0..Pos /\ at[ip'].depth = m - 1 /\ (at[ip'].inside <=> at[ip].inside)
    BY <1>10 DEF ClosesTry
  <2>2. /\ tryStack' \in Seq(S) /\ Len(tryStack') = m - 1
        /\ \A k \in 1..(m - 1) : tryStack'[k] = tryStack[k]
    BY <1>3, <2>1, FrontProperties
  <2>3. Stacks'
    BY <2>1, <2>2 DEF Stacks
  <2>4. Reached(at)' /\ Returning(at)'
    BY <1>1, <2>1, <2>2 DEF Running, Reached, Returning
  <2>5. \A k \in 1..(m - 1) : k \in 1..m
    BY <1>4
  <2>6. Catching(at)'
    BY <1>1, <2>1, <2>2, <2>5 DEF Running, Catching
  <2> QED
    BY <1>1, <1>2, <2>1, <2>3, <2>4, <2>6 DEF Running
<1> QED
  BY <1>5, <1>6, <1>7, <1>8, <1>9, <1>10 DEF Effect

----------------------------------------------------------------------------
(* The invariant of the lifecycle.                                         *)

LEMMA InitInv == LInit => LInv
<1> SUFFICES ASSUME LInit PROVE LInv
  OBVIOUS
<1>1. callStack \in Seq(Nat) /\ tryStack \in Seq({}) /\ callStack = <<>> /\ tryStack = <<>>
  BY DEF LInit
<1> QED
  BY <1>1 DEF LInit, LInv, Stacks, VM!Outcomes

\* A machine starts at the first instruction, or at a function it will leave through
\* the HALT at the end.
LEMMA StartRuns ==
  ASSUME Emits, stage = "compiled", OfCode, LInv, UNCHANGED cvars,
         VM!Run \/ \E f \in DOMAIN functions : \E args : VM!RunFunction(f, args)
  PROVE  /\ UNCHANGED artifact /\ Stacks' /\ status = "idle"
         /\ \/ VM!Run /\ UNCHANGED <<callStack, tryStack>>
            \/ callStack' = Append(callStack, Pos - 1) /\ UNCHANGED tryStack
            \/ UNCHANGED <<callStack, tryStack>>
         /\ \/ status' = "running" /\ \E at : Running(at)'
            \/ status' = "rejected" /\ UNCHANGED <<callStack, tryStack>>
<1>1. PICK at : Annotates(at)
  BY DEF Emits, Annotated
<1>2. Annotates(at)' /\ Pos' = Pos
  BY <1>1, AnnotationKept DEF Pos, cvars
<1>3. /\ Pos \in Nat /\ 0 \in 0..Pos /\ Pos - 1 \in 0..Pos
      /\ at[Pos - 1] = Ground /\ at[0] = Ground
      /\ \A f \in DOMAIN functions : functions[f].addr \in 0..Pos /\ at[functions[f].addr] = Body
  BY <1>1, LastIsHalt
<1>4. status = "idle" /\ ip = 0 /\ callStack = <<>> /\ tryStack = <<>> /\ Stacks
  BY DEF VM!Run, VM!RunFunction, LInv
<1>5. artifact.code = code /\ artifact.functions = functions
  BY DEF OfCode, Artifact
<1>6. CASE VM!Run
  <2>1. /\ status' = "running" /\ UNCHANGED <<artifact, ip, callStack, tryStack>>
    BY <1>6 DEF VM!Run
  <2>2. Stacks'
    BY <1>4, <2>1 DEF Stacks
  <2>3. Reached(at)'
    BY <1>2, <1>3, <1>4, <2>1, LevelsClosed DEF Reached
  <2>4. Returning(at)' /\ Catching(at)'
    BY <1>4, <2>1 DEF Returning, Catching
  <2> QED
    BY <1>2, <1>4, <1>6, <2>1, <2>2, <2>3, <2>4 DEF Running
<1>7. CASE \E f \in DOMAIN functions : \E args : VM!RunFunction(f, args)
  <2>1. PICK f \in DOMAIN functions : \E args : VM!RunFunction(f, args)
    BY <1>7
  <2>2. UNCHANGED artifact /\ UNCHANGED tryStack
    BY <2>1 DEF VM!RunFunction
  <2>3. CASE status' = "rejected" /\ UNCHANGED <<callStack, ip>>
    BY <1>4, <2>2, <2>3 DEF Stacks
  <2>4. CASE /\ status' = "running" /\ ip' = functions[f].addr
             /\ callStack' = Append(callStack, Len(code) - 1)
    <3>1. PICK h : h = Pos - 1
      OBVIOUS
    <3>2. h \in Nat /\ callStack' = <<h>>
      BY <1>3, <1>4, <2>4, <3>1 DEF Pos
    <3>3. callStack' \in Seq(Nat) /\ Len(callStack') = 1 /\ callStack'[1] = h /\ callStack' # <<>>
      BY <3>2
    <3>4. tryStack' = <<>> /\ Len(tryStack') = 0
      BY <1>4, <2>2
    <3>5. Stacks'
      BY <1>4, <2>2, <3>3 DEF Stacks
    <3>6. Reached(at)'
      BY <1>2, <1>3, <2>4, <3>3, <3>4, LevelsClosed DEF Reached
    <3>7. ASSUME NEW k \in 1..1
          PROVE  /\ callStack'[k] \in 0..Pos
                 /\ at[callStack'[k]].depth = 0 /\ (at[callStack'[k]].inside <=> k > 1)
      <4>1. k = 1
        OBVIOUS
      <4> QED
        BY <1>3, <3>1, <3>3, <4>1, LevelsClosed
    <3>8. Returning(at)' /\ Catching(at)'
      BY <1>2, <3>3, <3>4, <3>7 DEF Returning, Catching
    <3> QED
      BY <1>2, <1>4, <2>2, <2>4, <3>5, <3>6, <3>8 DEF Running, Pos
  <2>5. \/ status' = "rejected" /\ UNCHANGED <<callStack, ip>>
        \/ /\ status' = "running" /\ ip' = functions[f].addr
           /\ callStack' = Append(callStack, Len(code) - 1)
    BY <1>5, <2>1 DEF VM!RunFunction, VM!HaltAddr, VM!Code
  <2> QED
    BY <2>3, <2>4, <2>5
<1> QED
  BY <1>6, <1>7

LEMMA UnchangedInv == LInv /\ UNCHANGED lvars => LInv'
<1> SUFFICES ASSUME LInv, UNCHANGED lvars PROVE LInv'
  OBVIOUS
<1>1. UNCHANGED cvars /\ UNCHANGED <<phase, artifact, status, ip, callStack, tryStack>>
  BY DEF lvars, vmvars
<1>2. Stacks' /\ (OfCode => OfCode') /\ UNCHANGED stage /\ Pos' = Pos
  BY <1>1 DEF LInv, Stacks, OfCode, Pos, cvars, decls
<1>3. ASSUME NEW at, Running(at)
      PROVE  Running(at)'
  <2>1. Annotates(at)'
    BY <1>1, <1>3, AnnotationKept DEF Running
  <2>2. Reached(at)' /\ Returning(at)' /\ Catching(at)'
    BY <1>1, <1>2, <1>3 DEF Running, Reached, Returning, Catching
  <2> QED
    BY <2>1, <2>2 DEF Running
<1> QED
  BY <1>1, <1>2, <1>3 DEF LInv

LEMMA NextInv ==
  ASSUME Emits, LInv, [LNext]_lvars
  PROVE  LInv'
<1> DEFINE Phases == {"init", "deployed", "exec"}
<1>1. "success" # "idle" /\ "running" \notin VM!Outcomes /\ "idle" \notin VM!Outcomes
      /\ "success" \in VM!Outcomes /\ "rejected" \in VM!Outcomes
  BY DEF VM!Outcomes
<1>2. CASE Compile
  BY <1>2 DEF Compile, LInv, Stacks, vmvars
<1>3. CASE StartInit \/ StartExec
  <2>1. PICK art : NewMachine(art) /\ (StartInit => art = Compiled)
                   /\ (StartExec => art = Received(artifact))
    BY <1>3 DEF StartInit, StartExec
  <2>2. stage' = "compiled" /\ phase' \in {"init", "exec"} /\ UNCHANGED cvars
    BY <1>3 DEF StartInit, StartExec, LInv, cvars
  <2>3. /\ artifact' = art /\ status' = "idle" /\ ip' = 0
        /\ callStack' = <<>> /\ tryStack' = <<>>
    BY <2>1 DEF NewMachine
  <2>4. callStack' \in Seq(Nat) /\ tryStack' \in Seq({})
    BY <2>3
  <2>5. \E pl, st : art = Artifact(code, pl, functions, functionName, st)
    <3>1. CASE StartInit
      BY <2>1, <3>1 DEF Compiled
    <3>2. CASE StartExec
      <4>1. PICK pl, st : artifact = Artifact(code, pl, functions, functionName, st)
        BY <3>2 DEF StartExec, LInv, OfCode
      <4> QED
        BY <2>1, <3>2, <4>1 DEF Received, Artifact
    <3> QED
      BY <1>3, <3>1, <3>2
  <2>6. OfCode'
    BY <2>2, <2>3, <2>5 DEF OfCode, cvars, decls
  <2> QED
    BY <1>1, <2>2, <2>3, <2>4, <2>6 DEF LInv, Stacks
<1>4. CASE BuildPanics
  BY <1>4 DEF BuildPanics, LInv, Stacks, vmvars
<1>5. CASE Machine /\ VM!Step
  <2>1. phase \in Phases /\ UNCHANGED <<cvars, phase>> /\ stage = "compiled" /\ OfCode
    BY <1>5 DEF Machine, LInv
  <2>2. status = "running"
    BY <1>5 DEF VM!Step, VM!FetchPanics, VM!Abort, VM!Halt, VM!Operate, VM!Underflow,
       VM!BadOperand, VM!UnknownOpcode, VM!Nop, VM!Swap, VM!PrintTop, VM!Store, VM!Delete,
       VM!AgentDeclare, VM!Emit, VM!Jmp, VM!JmpIf, VM!Call, VM!Ret, VM!Try, VM!EndTry, VM!Err,
       VM!Require, VM!Executes, VM!Fetched
  <2>3. PICK at : Running(at)
    BY <2>2 DEF LInv
  <2>4. Pos \in Nat
    BY LenProperties DEF Emits, Typed, CodeOK, Pos
  <2>5. Stacks
    BY DEF LInv
  <2>6. UNCHANGED artifact /\ Effect(at)
    BY <1>5, <2>1, <2>3, <2>5, MachineEffect
  <2>7. /\ Stacks' /\ status' \in {"running"} \cup VM!Outcomes
        /\ status' = "running" => Running(at)'
        /\ status' = "success" => callStack' = <<>> /\ tryStack' = <<>>
    BY <2>1, <2>3, <2>4, <2>5, <2>6, EffectRuns
  <2>8. OfCode' /\ phase' \in {"init", "exec"} /\ stage' = "compiled"
    BY <1>5, <2>1, <2>6 DEF Machine, OfCode, cvars, decls
  <2> QED
    BY <1>1, <2>7, <2>8 DEF LInv
<1>6. CASE (Machine /\ VM!Run) \/ Invoke
  <2>1. phase \in {"init", "exec"} /\ UNCHANGED <<cvars, phase>> /\ stage = "compiled" /\ OfCode
    BY <1>6 DEF Machine, Invoke, LInv
  <2>2. VM!Run \/ \E f \in DOMAIN functions : \E args : VM!RunFunction(f, args)
    BY <1>6 DEF Invoke
  <2>3. /\ UNCHANGED artifact /\ Stacks'
        /\ \/ status' = "running" /\ \E at : Running(at)'
           \/ status' = "rejected"
    BY <2>1, <2>2, StartRuns
  <2>4. OfCode' /\ phase' \in {"init", "exec"} /\ stage' = "compiled"
    BY <2>1, <2>3 DEF OfCode, cvars, decls
  <2> QED
    BY <1>1, <2>3, <2>4 DEF LInv
<1>7. CASE InitEnds
  <2>1. /\ phase = "init" /\ stage = "compiled" /\ OfCode
        /\ UNCHANGED <<cvars, status, ip, callStack, tryStack>>
    BY <1>7 DEF InitEnds, LInv
  <2>2. PICK pl, st : artifact = Artifact(code, pl, functions, functionName, st)
    BY <2>1 DEF OfCode
  <2>3. artifact' = Artifact(code, pl, functions, functionName, storage)
    BY <1>7, <2>2 DEF InitEnds, Artifact
  <2>4. OfCode' /\ stage' = "compiled" /\ status \in VM!Outcomes
    BY <1>7, <2>1, <2>3 DEF InitEnds, VM!Done, OfCode, cvars, decls
  <2>5. phase' \in {"deployed", "refused"} /\ (phase' = "deployed" => status' = "success")
    BY <1>7, <2>1 DEF InitEnds, AfterInit
  <2> QED
    BY <1>1, <2>1, <2>4, <2>5 DEF LInv, Stacks
<1>8. CASE UNCHANGED lvars
  BY <1>8, UnchangedInv
<1> QED
  BY <1>2, <1>3, <1>4, <1>5, <1>6, <1>7, <1>8 DEF LNext, Machine

LEMMA AlwaysFollows ==
  ASSUME StructuredPrograms
  PROVE  LSpec => [](Emits /\ LInv)
<1>1. LSpec => []Emits
  BY AlwaysEmits
<1>2. LInv /\ Emits /\ [LNext]_lvars => LInv'
  BY NextInv
<1> QED
  BY <1>1, <1>2, InitInv, PTL DEF LSpec

----------------------------------------------------------------------------
(* What follows of the machine.                                            *)

\* An instruction that is executed is annotated.
LEMMA ExecutedLevels ==
  ASSUME Emits, LInv, NEW ops, VM!Executes(ops)
  PROVE  \E at : /\ Running(at) /\ Annotates(at) /\ stage = "compiled" /\ OfCode /\ Stacks
                 /\ errors = 0
                 /\ ip \in 0..Pos /\ ip < Pos /\ code[ip + 1].op \in ops
<1>1. status = "running"
  BY DEF VM!Executes, VM!Fetched
<1>2. PICK at : Running(at)
  BY <1>1 DEF LInv
<1>3. stage = "compiled" /\ OfCode /\ Stacks
  BY <1>1 DEF LInv
<1>4. Pos \in Nat
  BY LenProperties DEF Emits, Typed, CodeOK, Pos
<1> QED
  BY <1>2, <1>3, <1>4, Executed DEF Running

(***************************************************************************)
(* Whatever the program, its branches, calls and caught errors, END_TRY    *)
(* finds the frame of its TRY: the panic of vm.go:946 is out of reach.      *)
(***************************************************************************)
THEOREM EndTriesMatch ==
  ASSUME StructuredPrograms
  PROVE  LSpec => []EndTryMatched
<1>1. ASSUME Emits, LInv
      PROVE  EndTryMatched
  <2> SUFFICES ASSUME VM!Executes({"END_TRY"}) PROVE tryStack # <<>>
    BY DEF EndTryMatched
  <2>1. PICK at : /\ Running(at) /\ Annotates(at) /\ stage = "compiled"
                  /\ ip \in 0..Pos /\ ip < Pos /\ code[ip + 1].op = "END_TRY"
    BY <1>1, ExecutedLevels
  <2>2. at[ip] = Deeper(at[ip + 1]) /\ at[ip + 1] \in Levels
    BY <1>1, <2>1, CodeLevels
  <2>3. Len(tryStack) = at[ip + 1].depth + 1 /\ at[ip + 1].depth \in Nat
    BY <2>1, <2>2 DEF Running, Reached, Deeper, Levels
  <2> QED
    BY <2>3
<1> QED
  BY <1>1, AlwaysFollows, PTL

(***************************************************************************)
(* A require that fails with no try block open in an active function is    *)
(* recorded as an error (vm.go:1048): no frame of a function that has      *)
(* returned is left for vm.go:1036 to jump to.                             *)
(***************************************************************************)
THEOREM RequiresRevert ==
  ASSUME StructuredPrograms
  PROVE  LSpec => RequireReverts
<1>1. ASSUME Emits, LInv, VM!Err, \A k \in DOMAIN tryStack : tryStack[k].callDepth > Len(callStack)
      PROVE  errors' > 0
  <2>1. VM!Executes({"ERR"})
    BY <1>1 DEF VM!Err
  <2>2. PICK at : Running(at) /\ Stacks /\ errors = 0
    BY <1>1, <2>1, ExecutedLevels
  <2>3. PICK S : tryStack \in Seq(S)
    BY <2>2 DEF Stacks
  <2>4. Len(tryStack) \in Nat /\ DOMAIN tryStack = 1..Len(tryStack) /\ Len(callStack) \in Nat
    BY <2>2, <2>3, LenProperties DEF Stacks
  <2>5. \A k \in 1..Len(tryStack) : tryStack[k].callDepth = Len(callStack)
    BY <2>2 DEF Running, Catching
  <2>6. ~(1 \in 1..Len(tryStack))
    BY <1>1, <2>4, <2>5
  <2>7. tryStack = <<>>
    BY <2>3, <2>4, <2>6, EmptySeq
  <2> QED
    BY <1>1, <2>2, <2>7 DEF VM!Err
<1>2. Emits /\ LInv /\ [LNext]_lvars =>
        [VM!Err /\ (\A k \in DOMAIN tryStack : tryStack[k].callDepth > Len(callStack))
           => errors' > 0]_lvars
  BY <1>1
<1> QED
  BY <1>2, AlwaysFollows, PTL DEF RequireReverts, LSpec

(***************************************************************************)
(* A call is answered with success only at the HALT of the contract's own  *)
(* code, with every called function returned (vm.go:197, :643).            *)
(***************************************************************************)
THEOREM SuccessReturns ==
  ASSUME StructuredPrograms
  PROVE  LSpec => []SuccessMeansReturned
<1>1. LInv => SuccessMeansReturned
  BY DEF LInv, SuccessMeansReturned
<1> QED
  BY <1>1, AlwaysFollows, PTL

----------------------------------------------------------------------------
(* The two flat stacks implement activations that own their try blocks.    *)

\* The open try blocks of each activation, as Lifecycle maps them, and what they come
\* to: all of them belong to the innermost activation.
Tries(c, t) ==
  [i \in 1..(Len(c) + 1) |-> Cardinality({k \in DOMAIN t : t[k].callDepth = i - 1})]
Shape(n, m) == [i \in 1..(n + 1) |-> IF i = n + 1 THEN m ELSE 0]

LEMMA TriesShaped ==
  ASSUME NEW c \in Seq(Nat), NEW S, NEW t \in Seq(S), \A k \in 1..Len(t) : t[k].callDepth = Len(c)
  PROVE  Tries(c, t) = Shape(Len(c), Len(t))
<1>1. Len(c) \in Nat /\ Len(t) \in Nat /\ DOMAIN t = 1..Len(t)
  BY LenProperties
<1>2. ASSUME NEW i \in 1..(Len(c) + 1)
      PROVE  Cardinality({k \in DOMAIN t : t[k].callDepth = i - 1})
               = IF i = Len(c) + 1 THEN Len(t) ELSE 0
  <2>1. CASE i = Len(c) + 1
    <3>1. i - 1 = Len(c)
      BY <1>1, <2>1
    <3>2. {k \in DOMAIN t : t[k].callDepth = i - 1} = 1..Len(t)
      BY <1>1, <3>1
    <3>3. Cardinality(1..Len(t)) = Len(t)
      <4>1. 1 \in Int /\ Len(t) \in Int
        BY <1>1
      <4>2. Cardinality(1..Len(t)) = IF 1 > Len(t) THEN 0 ELSE Len(t) - 1 + 1
        BY <4>1, FS_Interval
      <4> QED
        BY <1>1, <4>2
    <3> QED
      BY <2>1, <3>2, <3>3
  <2>2. CASE i # Len(c) + 1
    <3>1. i - 1 # Len(c)
      BY <1>1, <2>2
    <3>2. {k \in DOMAIN t : t[k].callDepth = i - 1} = {}
      BY <1>1, <3>1
    <3> QED
      BY <2>2, <3>2, FS_EmptySet
  <2> QED
    BY <2>1, <2>2
<1> QED
  BY <1>2 DEF Tries, Shape

LEMMA Shapes ==
  ASSUME NEW n \in Nat, NEW m \in Nat
  PROVE  /\ Shape(n, m) \in Seq(Nat) /\ Len(Shape(n, m)) = n + 1 /\ Shape(n, m)[n + 1] = m
         /\ Shape(0, 0) = <<0>>
         /\ Append(Shape(n, 0), 0) = Shape(n + 1, 0)
         /\ n > 0 => SubSeq(Shape(n, 0), 1, n) = Shape(n - 1, 0)
         /\ [Shape(n, m) EXCEPT ![n + 1] = @ + 1] = Shape(n, m + 1)
         /\ m > 0 => [Shape(n, m) EXCEPT ![n + 1] = @ - 1] = Shape(n, m - 1)
<1>1. \A k \in Nat : /\ Shape(n, k) \in Seq(Nat) /\ Len(Shape(n, k)) = n + 1
                     /\ Shape(n, k)[n + 1] = k
  BY DEF Shape
<1>2. Shape(0, 0) = <<0>>
  BY DEF Shape
<1>3. Append(Shape(n, 0), 0) = Shape(n + 1, 0)
  BY <1>1 DEF Shape
<1>4. n > 0 => SubSeq(Shape(n, 0), 1, n) = Shape(n - 1, 0)
  BY <1>1 DEF Shape
<1>5. [Shape(n, m) EXCEPT ![n + 1] = @ + 1] = Shape(n, m + 1)
  BY DEF Shape
<1>6. m > 0 => [Shape(n, m) EXCEPT ![n + 1] = @ - 1] = Shape(n, m - 1)
  BY DEF Shape
<1> QED
  BY <1>1, <1>2, <1>3, <1>4, <1>5, <1>6

\* The mapped variables of Structured, named.
MappedTries == Tries(callStack, tryStack)
MappedOutcome ==
  IF status \in {"idle", "running"} THEN "running"
  ELSE IF status = "success" THEN status ELSE "failed"
Mapped == <<MappedTries, MappedOutcome>>

LEMMA StructuredEnds ==
  ASSUME NEW s
  PROVE  Structured!Front(s) = Front(s) /\ Structured!Last(s) = Last(s)
BY DEF Structured!Front, Structured!Last, Front, Last

LEMMA MappedVariables ==
  /\ Structured!Init <=> MappedTries = <<0>> /\ MappedOutcome = "running"
  /\ Structured!Active <=> MappedOutcome = "running"
  /\ Structured!svars = Mapped
BY DEF Structured!Init, Structured!Active, Structured!svars, Mapped, MappedTries, MappedOutcome,
   Tries

\* The actions of Structured over the mapped variables.
LEMMA MappedActions ==
  /\ MappedOutcome = "running" /\ MappedTries' = Append(MappedTries, 0) /\ UNCHANGED MappedOutcome
       => Structured!Next
  /\ MappedOutcome = "running" /\ Len(MappedTries) > 1 /\ Last(MappedTries) = 0
       /\ MappedTries' = Front(MappedTries) /\ UNCHANGED MappedOutcome
       => Structured!Next
  /\ MappedOutcome = "running"
       /\ MappedTries' = [MappedTries EXCEPT ![Len(MappedTries)] = @ + 1] /\ UNCHANGED MappedOutcome
       => Structured!Next
  /\ MappedOutcome = "running" /\ Last(MappedTries) > 0
       /\ MappedTries' = [MappedTries EXCEPT ![Len(MappedTries)] = @ - 1] /\ UNCHANGED MappedOutcome
       => Structured!Next
  /\ MappedOutcome = "running" /\ MappedTries = <<0>>
       /\ MappedOutcome' = "success" /\ UNCHANGED MappedTries
       => Structured!Next
  /\ MappedOutcome = "running" /\ MappedOutcome' = "failed" /\ UNCHANGED MappedTries
       => Structured!Next
  /\ MappedOutcome # "running" /\ MappedTries' = <<0>> /\ MappedOutcome' = "running"
       => Structured!Next
<1> USE MappedVariables
<1>1. MappedOutcome = "running" /\ MappedTries' = Append(MappedTries, 0) /\ UNCHANGED MappedOutcome
        => Structured!Enter
  BY DEF Structured!Enter, MappedTries, MappedOutcome, Tries
<1>2. MappedOutcome = "running" /\ Len(MappedTries) > 1 /\ Last(MappedTries) = 0
        /\ MappedTries' = Front(MappedTries) /\ UNCHANGED MappedOutcome
        => Structured!Leave
  BY StructuredEnds DEF Structured!Leave, MappedTries, MappedOutcome, Tries
<1>3. MappedOutcome = "running"
        /\ MappedTries' = [MappedTries EXCEPT ![Len(MappedTries)] = @ + 1] /\ UNCHANGED MappedOutcome
        => Structured!OpenTry
  BY DEF Structured!OpenTry, Structured!Innermost, MappedTries, MappedOutcome, Tries
<1>4. MappedOutcome = "running" /\ Last(MappedTries) > 0
        /\ MappedTries' = [MappedTries EXCEPT ![Len(MappedTries)] = @ - 1] /\ UNCHANGED MappedOutcome
        => Structured!CloseTry
  BY StructuredEnds DEF Structured!CloseTry, Structured!Innermost, MappedTries, MappedOutcome, Tries
<1>5. MappedOutcome = "running" /\ MappedTries = <<0>>
        /\ MappedOutcome' = "success" /\ UNCHANGED MappedTries
        => Structured!Succeed
  BY DEF Structured!Succeed, MappedTries, MappedOutcome, Tries
<1>6. MappedOutcome = "running" /\ MappedOutcome' = "failed" /\ UNCHANGED MappedTries
        => Structured!Fail
  BY DEF Structured!Fail, MappedTries, MappedOutcome, Tries
<1>7. MappedOutcome # "running" /\ MappedTries' = <<0>> /\ MappedOutcome' = "running"
        => Structured!Renew
  BY DEF Structured!Renew, MappedTries, MappedOutcome, Tries
<1> QED
  BY <1>1, <1>2, <1>3, <1>4, <1>5, <1>6, <1>7 DEF Structured!Next

\* What a running machine's tries come to.
LEMMA RunningTries ==
  ASSUME Stacks, NEW at, Running(at)
  PROVE  /\ Len(callStack) \in Nat /\ Len(tryStack) \in Nat
         /\ MappedTries = Shape(Len(callStack), Len(tryStack))
<1>1. PICK S : tryStack \in Seq(S)
  BY DEF Stacks
<1>2. Len(callStack) \in Nat /\ Len(tryStack) \in Nat /\ callStack \in Seq(Nat)
  BY <1>1, LenProperties DEF Stacks
<1>3. \A k \in 1..Len(tryStack) : tryStack[k].callDepth = Len(callStack)
  BY DEF Running, Catching
<1> QED
  BY <1>1, <1>2, <1>3, TriesShaped DEF MappedTries

LEMMA RunningTriesNext ==
  ASSUME Stacks', NEW at, Running(at)'
  PROVE  MappedTries' = Shape(Len(callStack'), Len(tryStack'))
<1>1. PICK S : tryStack' \in Seq(S)
  BY DEF Stacks
<1>2. callStack' \in Seq(Nat)
  BY DEF Stacks
<1>3. \A k \in 1..Len(tryStack') : tryStack'[k].callDepth = Len(callStack')
  BY DEF Running, Catching
<1> QED
  BY <1>1, <1>2, <1>3, TriesShaped DEF MappedTries

LEMMA EmptyTries == Tries(<<>>, <<>>) = <<0>>
<1>1. <<>> \in Seq(Nat) /\ Len(<<>>) = 0
  OBVIOUS
<1>2. \A c \in Seq(Nat) : Len(c) = 0 => Tries(c, c) = Shape(0, 0)
  <2> SUFFICES ASSUME NEW c \in Seq(Nat), Len(c) = 0 PROVE Tries(c, c) = Shape(0, 0)
    OBVIOUS
  <2>1. \A k \in 1..Len(c) : c[k].callDepth = Len(c)
    OBVIOUS
  <2>2. Tries(c, c) = Shape(Len(c), Len(c))
    BY ONLY <2>1, TriesShaped
  <2> QED
    BY <2>2
<1>3. Shape(0, 0) = <<0>>
  BY Shapes
<1> QED
  BY <1>1, <1>2, <1>3

\* The effects of the machine's steps are steps of StructuredControl.
LEMMA EffectRefines ==
  ASSUME Pos \in Nat, Stacks, NEW at, Running(at), status = "running", Effect(at), UNCHANGED cvars
  PROVE  Structured!Next \/ UNCHANGED Mapped
<1> DEFINE n == Len(callStack)
           m == Len(tryStack)
<1>1. /\ n \in Nat /\ m \in Nat /\ MappedTries = Shape(n, m)
      /\ (callStack = <<>> <=> n = 0) /\ (tryStack = <<>> <=> m = 0)
  <2>1. n \in Nat /\ m \in Nat /\ MappedTries = Shape(n, m)
    BY RunningTries
  <2>2. callStack \in Seq(Nat) /\ \E S : tryStack \in Seq(S)
    BY DEF Stacks
  <2>3. callStack = <<>> <=> n = 0
    BY <2>2, ShortStacks
  <2>4. tryStack = <<>> <=> m = 0
    BY <2>2, ShortStacks
  <2> QED
    BY <2>1, <2>3, <2>4
<1>2. Stacks' /\ (status' = "running" => Running(at)')
  BY EffectRuns
<1>3. MappedOutcome = "running" /\ (status' = "running" => MappedOutcome' = "running")
  BY DEF MappedOutcome
<1>4. status' = "running" => MappedTries' = Shape(Len(callStack'), Len(tryStack'))
  BY <1>2, RunningTriesNext
<1>5. UNCHANGED <<callStack, tryStack>> => UNCHANGED MappedTries
  BY DEF MappedTries
<1>6. CASE Fails
  <2>1. MappedOutcome' = "failed" /\ UNCHANGED MappedTries
    BY <1>5, <1>6 DEF Fails, MappedOutcome, VM!Outcomes
  <2> QED
    BY <1>3, <2>1, MappedActions
<1>7. CASE Succeeds
  <2>1. MappedOutcome' = "success" /\ UNCHANGED MappedTries
    BY <1>5, <1>7 DEF Succeeds, MappedOutcome
  <2>2. MappedTries = <<0>>
    BY <1>7, EmptyTries DEF Succeeds, MappedTries
  <2> QED
    BY <1>3, <2>1, <2>2, MappedActions
<1>8. CASE Stays(at)
  BY <1>3, <1>5, <1>8 DEF Stays, Mapped
<1>9. CASE Called(at)
  <2>1. PICK r \in 0..Pos : callStack' = Append(callStack, r)
    BY <1>9 DEF Called
  <2>2. Len(callStack') = n + 1 /\ m = 0 /\ Len(tryStack') = 0 /\ status' = "running"
    BY <1>1, <1>9, <2>1, AppendedProperties DEF Called, Stacks
  <2>3. MappedTries' = Shape(n + 1, 0) /\ MappedTries = Shape(n, 0)
    BY <1>1, <1>4, <2>2
  <2>4. MappedTries' = Append(MappedTries, 0)
    BY <1>1, <2>3, Shapes
  <2> QED
    BY <1>3, <2>2, <2>4, MappedActions
<1>10. CASE Returns(at)
  <2>1. /\ Len(callStack') = n - 1 /\ m = 0 /\ Len(tryStack') = 0 /\ status' = "running"
        /\ n > 0
    BY <1>1, <1>10, FrontProperties DEF Returns, Stacks
  <2>2. MappedTries' = Shape(n - 1, 0) /\ MappedTries = Shape(n, 0)
    BY <1>1, <1>4, <2>1
  <2>3. /\ MappedTries \in Seq(Nat) /\ Len(MappedTries) = n + 1 /\ MappedTries[n + 1] = 0
        /\ SubSeq(MappedTries, 1, n) = MappedTries'
    <3>1. /\ Shape(n, 0) \in Seq(Nat) /\ Len(Shape(n, 0)) = n + 1 /\ Shape(n, 0)[n + 1] = 0
          /\ n > 0 => SubSeq(Shape(n, 0), 1, n) = Shape(n - 1, 0)
      BY <1>1, Shapes
    <3> QED
      BY ONLY <2>1, <2>2, <3>1
  <2>4. Len(MappedTries) > 1 /\ Last(MappedTries) = 0 /\ Front(MappedTries) = MappedTries'
    <3>1. n + 1 > 1 /\ n + 1 - 1 = n
      BY <1>1, <2>1
    <3>2. Last(MappedTries) = MappedTries[n + 1]
      BY <2>3 DEF Last
    <3>3. Front(MappedTries) = SubSeq(MappedTries, 1, n)
      BY <2>3, <3>1 DEF Front
    <3> QED
      BY <2>3, <3>1, <3>2, <3>3
  <2> QED
    BY <1>3, <2>1, <2>4, MappedActions
<1>11. CASE OpensTry(at)
  <2>1. PICK t : tryStack' = Append(tryStack, t)
    BY <1>11 DEF OpensTry
  <2>2. PICK S : tryStack \in Seq(S)
    BY DEF Stacks
  <2>3. tryStack \in Seq(S \cup {t})
    BY <2>2
  <2>4. Len(callStack') = n /\ Len(tryStack') = m + 1 /\ status' = "running"
    BY <1>11, <2>1, <2>3, AppendedProperties DEF OpensTry
  <2>5. MappedTries' = Shape(n, m + 1)
    BY <1>4, <2>4
  <2>6. Len(MappedTries) = n + 1 /\ [MappedTries EXCEPT ![n + 1] = @ + 1] = MappedTries'
    BY <1>1, <2>5, Shapes
  <2>7. UNCHANGED MappedOutcome
    BY <1>3, <2>4
  <2>8. MappedTries' = [MappedTries EXCEPT ![Len(MappedTries)] = @ + 1]
    BY <2>6
  <2> QED
    BY ONLY <1>3, <2>7, <2>8, MappedActions
<1>12. CASE ClosesTry(at)
  <2>1. PICK S : tryStack \in Seq(S)
    BY DEF Stacks
  <2>2. Len(callStack') = n /\ Len(tryStack') = m - 1 /\ status' = "running" /\ m > 0
    BY <1>1, <1>12, <2>1, FrontProperties DEF ClosesTry
  <2>3. MappedTries' = Shape(n, m - 1)
    BY <1>4, <2>2
  <2>4. /\ Len(MappedTries) = n + 1 /\ MappedTries[n + 1] = m
        /\ [MappedTries EXCEPT ![n + 1] = @ - 1] = MappedTries'
    BY <1>1, <2>2, <2>3, Shapes
  <2>5. Last(MappedTries) > 0
    BY <2>2, <2>4 DEF Last
  <2> QED
    BY <1>3, <2>2, <2>4, <2>5, MappedActions
<1> QED
  BY <1>6, <1>7, <1>8, <1>9, <1>10, <1>11, <1>12 DEF Effect

LEMMA StepRefines ==
  ASSUME Emits, LInv, [LNext]_lvars
  PROVE  Structured!Next \/ UNCHANGED Mapped
<1>1. MappedOutcome = "running" <=> status \in {"idle", "running"}
  BY DEF MappedOutcome
<1>2. UNCHANGED <<status, callStack, tryStack>> => UNCHANGED Mapped
  BY DEF Mapped, MappedTries, MappedOutcome
<1>3. CASE Compile \/ BuildPanics \/ InitEnds \/ UNCHANGED lvars
  BY <1>2, <1>3 DEF Compile, BuildPanics, InitEnds, lvars, vmvars
<1>4. CASE StartInit
  <2>1. /\ status = "idle" /\ callStack = <<>> /\ tryStack = <<>>
        /\ status' = "idle" /\ callStack' = <<>> /\ tryStack' = <<>>
    BY <1>4 DEF StartInit, NewMachine, LInv
  <2> QED
    BY <1>2, <2>1
<1>5. CASE StartExec
  <2>1. /\ status = "success" /\ status' = "idle" /\ callStack' = <<>> /\ tryStack' = <<>>
    BY <1>5 DEF StartExec, NewMachine, LInv
  <2>2. MappedOutcome # "running" /\ MappedOutcome' = "running"
    BY <2>1 DEF MappedOutcome
  <2>3. MappedTries' = <<0>>
    BY <2>1, EmptyTries DEF MappedTries
  <2> QED
    BY <2>2, <2>3, MappedActions
<1>6. CASE Machine /\ VM!Step
  <2>1. stage = "compiled" /\ OfCode /\ Stacks /\ UNCHANGED cvars
    BY <1>6 DEF Machine, LInv
  <2>2. status = "running"
    BY <1>6 DEF VM!Step, VM!FetchPanics, VM!Abort, VM!Halt, VM!Operate, VM!Underflow,
       VM!BadOperand, VM!UnknownOpcode, VM!Nop, VM!Swap, VM!PrintTop, VM!Store, VM!Delete,
       VM!AgentDeclare, VM!Emit, VM!Jmp, VM!JmpIf, VM!Call, VM!Ret, VM!Try, VM!EndTry, VM!Err,
       VM!Require, VM!Executes, VM!Fetched
  <2>3. PICK at : Running(at)
    BY <2>2 DEF LInv
  <2>4. Pos \in Nat
    BY LenProperties DEF Emits, Typed, CodeOK, Pos
  <2>5. Effect(at)
    BY <1>6, <2>1, <2>3, MachineEffect
  <2> QED
    BY <2>1, <2>2, <2>3, <2>4, <2>5, EffectRefines
<1>7. CASE (Machine /\ VM!Run) \/ Invoke
  <2>1. stage = "compiled" /\ OfCode /\ UNCHANGED cvars
    BY <1>7 DEF Machine, Invoke, LInv
  <2>2. VM!Run \/ \E f \in DOMAIN functions : \E args : VM!RunFunction(f, args)
    BY <1>7 DEF Invoke
  <2>3. /\ status = "idle"
        /\ \/ VM!Run /\ UNCHANGED <<callStack, tryStack>>
           \/ callStack' = Append(callStack, Pos - 1) /\ UNCHANGED tryStack
           \/ UNCHANGED <<callStack, tryStack>>
        /\ \/ status' = "running"
           \/ status' = "rejected" /\ UNCHANGED <<callStack, tryStack>>
    BY <2>1, <2>2, StartRuns
  <2>4. callStack = <<>> /\ tryStack = <<>> /\ MappedOutcome = "running"
    BY <1>1, <2>3 DEF LInv
  <2>5. CASE status' = "rejected" /\ UNCHANGED <<callStack, tryStack>>
    <3>1. MappedOutcome' = "failed" /\ UNCHANGED MappedTries
      BY <2>5 DEF MappedOutcome, MappedTries
    <3> QED
      BY <2>4, <3>1, MappedActions
  <2>6. CASE status' = "running" /\ UNCHANGED <<callStack, tryStack>>
    <3>1. UNCHANGED MappedOutcome /\ UNCHANGED MappedTries
      BY <2>4, <2>6 DEF MappedOutcome, MappedTries
    <3> QED
      BY <3>1 DEF Mapped
  <2>7. CASE status' = "running" /\ callStack' = Append(callStack, Pos - 1) /\ UNCHANGED tryStack
    <3>1. PICK h : h = Pos - 1
      OBVIOUS
    <3>2. callStack' = <<h>> /\ tryStack' = <<>>
      BY <2>4, <2>7, <3>1
    <3>3. Stacks' /\ \E at : Running(at)'
      BY <2>1, <2>2, <2>7, StartRuns
    <3>4. Len(callStack') = 1 /\ Len(tryStack') = 0
      BY <3>2
    <3>5. MappedTries' = Shape(1, 0)
      BY <3>3, <3>4, RunningTriesNext
    <3>6. MappedTries = Shape(0, 0)
      BY <2>4, EmptyTries, Shapes DEF MappedTries
    <3>7. Shape(1, 0) = Append(Shape(0, 0), 0)
      <4>1. Append(Shape(0, 0), 0) = Shape(0 + 1, 0) /\ 0 + 1 = 1
        BY Shapes
      <4> QED
        BY <4>1
    <3>8. MappedTries' = Append(MappedTries, 0) /\ UNCHANGED MappedOutcome
      BY <2>4, <2>7, <3>5, <3>6, <3>7 DEF MappedOutcome
    <3> QED
      BY <2>4, <3>8, MappedActions
  <2> QED
    BY <2>3, <2>5, <2>6, <2>7
<1> QED
  BY <1>3, <1>4, <1>5, <1>6, <1>7 DEF LNext, Machine

LEMMA StartRefines == LInit => Structured!Init
<1> SUFFICES ASSUME LInit PROVE Structured!Init
  OBVIOUS
<1>1. callStack = <<>> /\ tryStack = <<>> /\ status = "idle"
  BY DEF LInit
<1>2. MappedTries = <<0>> /\ MappedOutcome = "running"
  BY <1>1, EmptyTries DEF MappedTries, MappedOutcome
<1> QED
  BY <1>2, MappedVariables

(***************************************************************************)
(* Calls, returns, tries and caught errors of compiled programs nest: what *)
(* vm.go does with a callStack and a tryStack that know nothing of each    *)
(* other (:625, :643, :929, :944, :1036) is what StructuredControl does    *)
(* with activations that own their try blocks.                             *)
(***************************************************************************)
THEOREM LifecycleImplementsStructured ==
  ASSUME StructuredPrograms
  PROVE  LSpec => StructuredControlFlow
<1>1. Emits /\ LInv /\ [LNext]_lvars => [Structured!Next]_(Structured!svars)
  <2>1. UNCHANGED Mapped => UNCHANGED Structured!svars
    BY DEF Mapped, MappedTries, MappedOutcome, Tries, Structured!svars
  <2> QED
    BY <2>1, StepRefines
<1> QED
  BY <1>1, StartRefines, AlwaysFollows, PTL DEF LSpec, StructuredControlFlow, Structured!Spec

----------------------------------------------------------------------------
(* The machine within the lifecycle, to which the theorems of SynxVMProofs *)
(* apply: it is the same machine, and what the lifecycle gives it fits the *)
(* assumptions on its artifacts and requests.                              *)

MP == INSTANCE SynxVMProofs WITH Artifacts <- {}, Requests <- {}

LEMMA SameValues ==
  /\ MP!Values = Values /\ VM!Values = Values
  /\ MP!Instructions = Instructions
  /\ MP!TypeOK <=> VM!TypeOK
<1>1. MP!Values = Values /\ VM!Values = Values
  BY DEF MP!Values, VM!Values, Values, MP!Kinds, VM!Kinds, Kinds
<1>2. MP!Instructions = Instructions
  BY DEF MP!Instructions, Instructions, MP!Opcodes, Opcodes
<1>3. MP!TypeOK <=> VM!TypeOK
  BY DEF MP!TypeOK, VM!TypeOK, MP!Outcomes, VM!Outcomes, MP!TryFrames, VM!TryFrames, MP!Values,
         VM!Values, MP!Kinds, VM!Kinds, MP!GlobalScopeSlot, VM!GlobalScopeSlot
<1> QED
  BY <1>1, <1>2, <1>3

LEMMA MachineAssumption == MP!SynxVMAssumption
BY SameValues, LifecycleAssumption DEF MP!SynxVMAssumption

LEMMA SameStep == VM!Step => MP!Step
<1> USE DEF VM!Executes, MP!Executes, VM!Fetched, MP!Fetched, VM!At, MP!At, VM!Code, MP!Code,
            VM!Depth, MP!Depth, VM!Rest, MP!Rest, VM!Top, MP!Top, VM!Under, MP!Under, VM!Target,
            MP!Target, VM!Operators, MP!Operators, VM!Literals, MP!Literals, VM!Unary, MP!Unary,
            VM!Binary, MP!Binary, VM!Ternary, MP!Ternary, VM!Pops, MP!Pops, VM!GetFuncArgs,
            MP!GetFuncArgs, VM!Kept, MP!Kept, VM!MayPanic, MP!MayPanic, VM!Results, MP!Results,
            VM!LiteralResults, MP!LiteralResults, VM!ObjectResults, MP!ObjectResults, VM!AgentResults,
            MP!AgentResults, VM!TextResults, MP!TextResults, VM!ExternResults, MP!ExternResults,
            VM!AddResults, MP!AddResults, VM!ArithResults, MP!ArithResults, VM!CompareResults,
            MP!CompareResults, VM!EqualityResults, MP!EqualityResults, VM!LogicResults,
            MP!LogicResults, VM!ValuesEqual, MP!ValuesEqual, VM!Numeric, MP!Numeric, VM!Truth,
            MP!Truth, VM!ToBool, MP!ToBool, VM!OfKind, MP!OfKind, VM!IntV, MP!IntV, VM!FloatV,
            MP!FloatV, VM!BoolV, MP!BoolV, VM!ObjV, MP!ObjV, VM!StrV, MP!StrV, VM!NilV, MP!NilV,
            VM!AgentObj, MP!AgentObj, VM!ErrorObj, MP!ErrorObj, VM!Value, MP!Value, VM!Lookup,
            MP!Lookup, VM!Put, MP!Put, VM!CallArgs, MP!CallArgs, VM!Range, MP!Range, VM!TryFrame,
            MP!TryFrame, VM!ErrMap, MP!ErrMap, VM!Caught, MP!Caught, VM!Resliced, MP!Resliced,
            VM!Last, MP!Last, VM!Front, MP!Front, VM!Cardinality, MP!Cardinality
<1>1. VM!FetchPanics => MP!FetchPanics
  BY DEF VM!FetchPanics, MP!FetchPanics
<1>2. VM!Abort => MP!Abort
  BY DEF VM!Abort, MP!Abort
<1>3. VM!Halt => MP!Halt
  BY DEF VM!Halt, MP!Halt
<1>4. VM!Operate => MP!Operate
  BY DEF VM!Operate, MP!Operate
<1>5. VM!Underflow => MP!Underflow
  BY DEF VM!Underflow, MP!Underflow
<1>6. VM!BadOperand => MP!BadOperand
  BY DEF VM!BadOperand, MP!BadOperand
<1>7. VM!UnknownOpcode => MP!UnknownOpcode
  BY DEF VM!UnknownOpcode, MP!UnknownOpcode
<1>8. VM!Nop => MP!Nop
  BY DEF VM!Nop, MP!Nop
<1>9. VM!Swap => MP!Swap
  BY DEF VM!Swap, MP!Swap
<1>10. VM!PrintTop => MP!PrintTop
  BY DEF VM!PrintTop, MP!PrintTop
<1>11. VM!Store => MP!Store
  BY DEF VM!Store, MP!Store
<1>12. VM!Delete => MP!Delete
  BY DEF VM!Delete, MP!Delete
<1>13. VM!AgentDeclare => MP!AgentDeclare
  BY DEF VM!AgentDeclare, MP!AgentDeclare
<1>14. VM!Emit => MP!Emit
  BY DEF VM!Emit, MP!Emit
<1>15. VM!Jmp => MP!Jmp
  BY DEF VM!Jmp, MP!Jmp
<1>16. VM!JmpIf => MP!JmpIf
  BY DEF VM!JmpIf, MP!JmpIf
<1>17. VM!Call => MP!Call
  BY DEF VM!Call, MP!Call
<1>18. VM!Ret => MP!Ret
  BY DEF VM!Ret, MP!Ret
<1>19. VM!Try => MP!Try
  BY DEF VM!Try, MP!Try
<1>20. VM!EndTry => MP!EndTry
  BY DEF VM!EndTry, MP!EndTry
<1>21. VM!Err => MP!Err
  BY DEF VM!Err, MP!Err
<1>22. VM!Require => MP!Require
  BY DEF VM!Require, MP!Require
<1> HIDE DEF VM!Executes, MP!Executes, VM!Fetched, MP!Fetched, VM!At, MP!At, VM!Code, MP!Code,
             VM!Depth, MP!Depth, VM!Rest, MP!Rest, VM!Top, MP!Top, VM!Under, MP!Under, VM!Target,
             MP!Target, VM!Operators, MP!Operators, VM!Literals, MP!Literals, VM!Unary, MP!Unary,
             VM!Binary, MP!Binary, VM!Ternary, MP!Ternary, VM!Pops, MP!Pops, VM!GetFuncArgs,
             MP!GetFuncArgs, VM!Kept, MP!Kept, VM!MayPanic, MP!MayPanic, VM!Results, MP!Results,
             VM!LiteralResults, MP!LiteralResults, VM!ObjectResults, MP!ObjectResults, VM!AgentResults,
             MP!AgentResults, VM!TextResults, MP!TextResults, VM!ExternResults, MP!ExternResults,
             VM!AddResults, MP!AddResults, VM!ArithResults, MP!ArithResults, VM!CompareResults,
             MP!CompareResults, VM!EqualityResults, MP!EqualityResults, VM!LogicResults,
             MP!LogicResults, VM!ValuesEqual, MP!ValuesEqual, VM!Numeric, MP!Numeric, VM!Truth,
             MP!Truth, VM!ToBool, MP!ToBool, VM!OfKind, MP!OfKind, VM!IntV, MP!IntV, VM!FloatV,
             MP!FloatV, VM!BoolV, MP!BoolV, VM!ObjV, MP!ObjV, VM!StrV, MP!StrV, VM!NilV, MP!NilV,
             VM!AgentObj, MP!AgentObj, VM!ErrorObj, MP!ErrorObj, VM!Value, MP!Value, VM!Lookup,
             MP!Lookup, VM!Put, MP!Put, VM!CallArgs, MP!CallArgs, VM!Range, MP!Range, VM!TryFrame,
             MP!TryFrame, VM!ErrMap, MP!ErrMap, VM!Caught, MP!Caught, VM!Resliced, MP!Resliced,
             VM!Last, MP!Last, VM!Front, MP!Front, VM!Cardinality, MP!Cardinality
<1> QED
  BY <1>1, <1>2, <1>3, <1>4, <1>5, <1>6, <1>7, <1>8, <1>9, <1>10, <1>11, <1>12, <1>13,
     <1>14, <1>15, <1>16, <1>17, <1>18, <1>19, <1>20, <1>21, <1>22
     DEF VM!Step, MP!Step

LEMMA SameStart ==
  /\ VM!Run => MP!Run
  /\ \A f, args : VM!RunFunction(f, args) => MP!RunFunction(f, args)
<1>1. VM!Run => MP!Run
  BY DEF VM!Run, MP!Run
<1>2. ASSUME NEW f, NEW args
      PROVE  VM!RunFunction(f, args) => MP!RunFunction(f, args)
  BY DEF VM!RunFunction, MP!RunFunction, VM!BindArgs, MP!BindArgs, VM!Put, MP!Put,
         VM!HaltAddr, MP!HaltAddr, VM!Code, MP!Code, VM!GlobalScopeSlot, MP!GlobalScopeSlot,
         VM!ObjV, MP!ObjV, VM!Value, MP!Value, VM!Range, MP!Range
<1> QED
  BY <1>1, <1>2

\* A machine just made of an artifact has its types.
LEMMA NewMachineTyped ==
  ASSUME NEW art, MP!Loadable(art), NewMachine(art)
  PROVE  MP!Typed' /\ mode' = "none" /\ status' = "idle"
<1>1. VM!FreshStorage(art) =
        [s \in DOMAIN art.initStorage \cup {0} |->
           IF s \in DOMAIN art.initStorage THEN art.initStorage[s] ELSE ObjV(0)]
  BY DEF VM!FreshStorage, VM!GlobalScopeSlot, VM!Lookup, VM!ObjV, VM!Value, ObjV, Value
<1>2. \A s \in DOMAIN art.initStorage : art.initStorage[s] \in Values
  BY SameValues DEF MP!Loadable
<1>3. ObjV(0) \in Values /\ NilV \in Values
  BY DEF ObjV, NilV, Value, Values, Kinds
<1>4. 0 \in DOMAIN storage' /\ \A s \in DOMAIN storage' : storage'[s] \in Values
  BY <1>1, <1>2, <1>3 DEF NewMachine
<1>5. /\ stack' \in Seq(Values) /\ Len(stack') = 0 /\ callStack' \in Seq(Nat)
      /\ tryStack' \in Seq(MP!TryFrames)
  BY EmptySeq DEF NewMachine
<1>6. MP!TypeOK'
  BY <1>3, <1>4, <1>5, SameValues, LifecycleAssumption
     DEF NewMachine, MP!TypeOK, MP!GlobalScopeSlot, MP!Outcomes
<1> QED
  BY <1>6 DEF NewMachine, MP!Typed

\* The slots of parameters, which the compiler puts in the artifact.
ArgSlots == \A f \in DOMAIN functions : functions[f].args \in Seq(Nat)

LEMMA NextArgSlots == Typed /\ ArgSlots /\ [Next]_cvars => ArgSlots'
<1> SUFFICES ASSUME Typed, ArgSlots, [Next]_cvars PROVE ArgSlots'
  OBVIOUS
<1>1. CASE ~(\E f \in Funcs : EnterFunc(f))
  BY <1>1, DeclsKept DEF ArgSlots
<1>2. ASSUME NEW g \in Funcs, EnterFunc(g)
      PROVE  ArgSlots'
  <2>1. Len(Params[g]) \in Nat /\ DOMAIN Params[g] = 1..Len(Params[g]) /\ nextSlot \in Nat
    BY CompilerAssumption, LenProperties DEF Typed, ScopeTyped
  <2>2. ParamSlots(g) \in Seq(Nat)
    BY <2>1 DEF ParamSlots
  <2>3. functions' = Put(functions, g, FuncMeta(g)) /\ FuncMeta(g).args = ParamSlots(g)
    BY <1>2 DEF EnterFunc, FuncMeta
  <2> QED
    BY <2>2, <2>3 DEF ArgSlots, Put
<1> QED
  BY <1>1, <1>2

LEMMA AlwaysArgSlots == Spec => []ArgSlots
<1>1. Init => ArgSlots
  BY DEF Init, ArgSlots, NoEntries
<1> QED
  BY <1>1, NextArgSlots, AlwaysScoped, PTL DEF Spec

LEMMA CompiledLoads ==
  ASSUME Typed, ArgSlots, CompiledIsWellFormed, stage = "compiled"
  PROVE  MP!Loadable(Compiled)
<1>1. code \in Seq(Emitted) /\ pool \in Seq(Values)
  BY DEF Typed, CodeOK
<1>2. Emitted \subseteq Instructions
  <2>1. PlainOps \cup Jumps \cup {"CALL", "CONST"} \subseteq Opcodes
    BY DEF PlainOps, Jumps, Opcodes
  <2>2. 0..(Byte - 1) \subseteq Nat
    OBVIOUS
  <2> QED
    BY <2>1, <2>2 DEF Emitted, Instructions
<1>3. code \in Seq(Instructions)
  BY <1>1, <1>2
<1>4. code # <<>>
  BY DEF CompiledIsWellFormed, WellFormed, Compiled, Artifact
<1>5. \A f \in DOMAIN functions : functions[f].addr \in Nat
  BY LenProperties DEF Typed, CodeOK, Pos
<1> QED
  BY <1>1, <1>3, <1>4, <1>5, SameValues
     DEF MP!Loadable, Compiled, Artifact, NoEntries, ArgSlots

\* The way through JSON turns integers into floats.
LEMMA ReceivedLoads ==
  ASSUME NEW art, NEW c, NEW pl, NEW fs, NEW fn, NEW st, art = Artifact(c, pl, fs, fn, st),
         MP!Loadable(art)
  PROVE  MP!Loadable(Received(art))
<1>1. \A v \in Values : FromJSON(v) \in Values
  BY DEF FromJSON, FloatV, Value, Values, Kinds
<1>2. pl \in Seq(Values) /\ \A s \in DOMAIN st : st[s] \in Values
  BY SameValues DEF MP!Loadable, Artifact
<1>3. [i \in DOMAIN pl |-> FromJSON(pl[i])] \in Seq(Values)
  <2>1. Len(pl) \in Nat /\ DOMAIN pl = 1..Len(pl) /\ \A i \in 1..Len(pl) : pl[i] \in Values
    BY <1>2, LenProperties, ElementOfSeq
  <2>2. \A i \in 1..Len(pl) : FromJSON(pl[i]) \in Values
    BY <1>1, <2>1
  <2> QED
    BY <2>1, <2>2
<1>4. Received(art) = Artifact(c, [i \in DOMAIN pl |-> FromJSON(pl[i])], fs, fn,
                               [s \in DOMAIN st |-> FromJSON(st[s])])
  <2>1. art.pool = pl /\ art.initStorage = st
    BY DEF Artifact
  <2>2. Received(art) = [art EXCEPT !.pool = [i \in DOMAIN pl |-> FromJSON(pl[i])],
                                    !.initStorage = [s \in DOMAIN st |-> FromJSON(st[s])]]
    BY <2>1 DEF Received
  <2> QED
    BY <2>2 DEF Artifact
<1> QED
  BY <1>1, <1>2, <1>3, <1>4, SameValues DEF MP!Loadable, Artifact

\* The types of LTypeOK, and what keeps them: the artifact is the compiled code's,
\* and a machine that initialises it runs no function.
LTyped ==
  /\ phase \in {"build", "init", "deployed", "exec", "refused"}
  /\ phase \in {"build", "refused"} \/ stage = "compiled"
  /\ phase = "build" \/ stage = "panicked" \/ MP!Typed
  /\ phase = "init" => mode \in {"none", "init"} /\ OfCode
  /\ phase = "deployed" => status = "success" /\ mode = "init" /\ OfCode

\* The compiler's state that the machine is made of.
Compiles == Typed /\ ArgSlots /\ CompiledIsWellFormed

LEMMA NextLTyped ==
  ASSUME Compiles, LTyped, [LNext]_lvars
  PROVE  LTyped'
<1>1. CASE Compile
  BY <1>1 DEF Compile, LTyped
<1>2. CASE StartInit
  <2>1. MP!Typed' /\ mode' = "none"
    BY <1>2, CompiledLoads, NewMachineTyped, MachineAssumption DEF StartInit, Compiles
  <2>2. OfCode'
    BY <1>2 DEF StartInit, NewMachine, Compiled, OfCode, cvars, decls
  <2> QED
    BY <1>2, <2>1, <2>2 DEF StartInit, LTyped, cvars
<1>3. CASE BuildPanics
  BY <1>3 DEF BuildPanics, LTyped, cvars
<1>4. CASE Machine
  <2>1. phase \in {"init", "exec"} /\ stage = "compiled" /\ MP!Typed /\ UNCHANGED <<cvars, phase>>
    BY <1>4 DEF Machine, LTyped
  <2>2. (phase = "init" /\ MP!Run) \/ MP!Step
    BY <1>4, SameStart, SameStep DEF Machine
  <2>3. MP!Typed'
    BY <2>1, <2>2, MP!RunTyped, MP!StepTyped, MachineAssumption
  <2>4. UNCHANGED artifact /\ (phase = "init" => mode' \in {"none", "init"})
    <3>1. CASE MP!Run
      BY <3>1 DEF MP!Run
    <3>2. CASE MP!Step
      BY <3>2, <2>1 DEF LTyped, MP!Step, MP!FetchPanics, MP!Abort, MP!Halt, MP!Operate,
         MP!Underflow, MP!BadOperand, MP!UnknownOpcode, MP!Nop, MP!Swap, MP!PrintTop, MP!Store,
         MP!Delete, MP!AgentDeclare, MP!Emit, MP!Jmp, MP!JmpIf, MP!Call, MP!Ret, MP!Try,
         MP!EndTry, MP!Err, MP!Require
    <3> QED
      BY <2>2, <3>1, <3>2
  <2> QED
    BY <2>1, <2>3, <2>4 DEF LTyped, OfCode, cvars, decls
<1>5. CASE InitEnds
  <2>1. /\ phase = "init" /\ stage = "compiled" /\ MP!Typed /\ OfCode
        /\ UNCHANGED <<cvars, mode, status, ip, stack, callStack, tryStack, storage,
                       errors, lastError, journal>>
    BY <1>5 DEF InitEnds, LTyped
  <2>2. PICK pl, st : artifact = Artifact(code, pl, functions, functionName, st)
    BY <2>1 DEF OfCode
  <2>3. artifact' = Artifact(code, pl, functions, functionName, storage)
    BY <1>5, <2>2 DEF InitEnds, Artifact
  <2>4. OfCode'
    BY <2>1, <2>3 DEF OfCode, cvars, decls
  <2>5. MP!Loadable(artifact) /\ MP!TypeOK
    BY <2>1 DEF MP!Typed
  <2>6. \A s \in DOMAIN storage : storage[s] \in Values
    BY <2>5, SameValues DEF MP!TypeOK
  <2>7. MP!Loadable(artifact')
    BY <2>2, <2>3, <2>5, <2>6, SameValues DEF MP!Loadable, Artifact
  <2>8. MP!TypeOK'
    BY <2>1, <2>5 DEF MP!TypeOK
  <2>9. MP!Typed'
    BY <2>7, <2>8 DEF MP!Typed
  <2>10. mode = "init" /\ phase' \in {"deployed", "refused"}
         /\ (phase' = "deployed" => status = "success")
    BY <1>5, <2>1, <2>5 DEF InitEnds, AfterInit, LTyped, MP!TypeOK, VM!Done, VM!Outcomes
  <2> QED
    BY <2>1, <2>4, <2>9, <2>10 DEF LTyped, cvars
<1>6. CASE StartExec
  <2>1. stage = "compiled" /\ MP!Typed /\ OfCode /\ UNCHANGED cvars
    BY <1>6 DEF StartExec, LTyped
  <2>2. PICK pl, st : artifact = Artifact(code, pl, functions, functionName, st)
    BY <2>1 DEF OfCode
  <2>3. MP!Loadable(artifact)
    BY <2>1 DEF MP!Typed
  <2>4. MP!Loadable(Received(artifact))
    BY <2>2, <2>3, ReceivedLoads, MachineAssumption
  <2>5. MP!Typed'
    BY <1>6, <2>4, NewMachineTyped, MachineAssumption DEF StartExec
  <2> QED
    BY <1>6, <2>1, <2>5 DEF StartExec, LTyped, cvars
<1>7. CASE Invoke
  <2>1. phase = "exec" /\ stage = "compiled" /\ MP!Typed /\ UNCHANGED <<cvars, phase>>
    BY <1>7 DEF Invoke, LTyped
  <2>2. PICK f \in DOMAIN functions : \E args \in [DOMAIN functions[f].args -> Arguments] :
          MP!RunFunction(f, args)
    BY <1>7, SameStart DEF Invoke
  <2>3. PICK args \in [DOMAIN functions[f].args -> Arguments] : MP!RunFunction(f, args)
    BY <2>2
  <2>4. functions[f].args \in Seq(Nat)
    BY DEF Compiles, ArgSlots
  <2>5. Len(functions[f].args) \in Nat /\ DOMAIN functions[f].args = 1..Len(functions[f].args)
    BY <2>4, LenProperties
  <2>6. args \in Seq(MP!Values)
    BY <2>3, <2>5, LifecycleAssumption, SameValues
  <2>7. MP!Typed'
    BY <2>1, <2>3, <2>6, MP!RunFunctionTyped, MachineAssumption
  <2> QED
    BY <2>1, <2>7 DEF LTyped, cvars
<1>8. CASE UNCHANGED lvars
  <2>1. UNCHANGED <<vmvars, cvars, phase>>
    BY <1>8 DEF lvars
  <2>2. MP!Typed => MP!Typed'
    BY <2>1 DEF vmvars, MP!Typed, MP!Loadable, MP!TypeOK
  <2> QED
    BY <2>1, <2>2 DEF LTyped, OfCode, vmvars, cvars, decls
<1> QED
  BY <1>1, <1>2, <1>3, <1>4, <1>5, <1>6, <1>7, <1>8 DEF LNext

LEMMA AlwaysLTyped == LSpec => [](Compiles /\ LTyped)
<1>1. LInit => LTyped
  BY DEF LInit, LTyped
<1>2. LSpec => []Compiles
  BY CompilesInside, AlwaysScoped, AlwaysArgSlots, CompiledWellFormed, PTL DEF Compiles
<1>3. Compiles /\ LTyped /\ [LNext]_lvars => LTyped'
  BY NextLTyped
<1> QED
  BY <1>1, <1>2, <1>3, PTL DEF LSpec

(***************************************************************************)
(* Every machine of a contract's life has its types: whatever the compiler *)
(* emits, the machine loads, JSON carries over and RunFunction is given     *)
(* (vm.go:73, build.go:43, runtime.go:184).                                *)
(***************************************************************************)
THEOREM LifecycleTypeCorrect == LSpec => []LTypeOK
<1>1. LTyped => LTypeOK
  BY SameValues DEF LTyped, LTypeOK, MP!Typed
<1> QED
  BY <1>1, AlwaysLTyped, PTL

----------------------------------------------------------------------------
(* The operands of compiled code, along the heights of                     *)
(* CompilerControlProofs.                                                  *)

\* An instruction pops no more than the heights count on.
LEMMA PopsTakes ==
  ASSUME NEW i \in Emitted, i.op # "CALL"
  PROVE  /\ VM!Pops(i) \in Nat /\ VM!Pops(i) <= Takes(i)
         /\ i.op \in VM!Operators => VM!Pops(i) = Takes(i) /\ Gives(i) = 1 /\ i.op # "DUP"
<1>1. i.a \in Nat /\ i.op \in PlainOps \cup Jumps \cup {"CONST"}
  BY DEF Emitted
<1> QED
  BY <1>1 DEF VM!Pops, Takes, Gives, OneTaken, TwoTaken, Literals, PlainOps, Jumps,
     VM!Operators, VM!Literals, VM!Unary, VM!Binary, VM!Ternary

\* The machine is where the heights count on no more than there is, and every other
\* address it holds counts on nothing.
Supplied(h, Z) ==
  /\ Heights(h, Z) /\ Marked(Z)
  /\ ip \in 0..Pos /\ h[ip] <= Len(stack)
  /\ \A k \in 1..Len(callStack) : callStack[k] \in Z
  /\ \A k \in 1..Len(tryStack) : tryStack[k].handlerAddr \in Z

\* The compiled code, and the machine's sequences.
Loaded ==
  /\ Typed /\ stage = "compiled" /\ OfCode
  /\ \E S : stack \in Seq(S)
  /\ callStack \in Seq(Nat) /\ \E S : tryStack \in Seq(S)

LEMMA ExecutedFlows ==
  ASSUME Loaded, NEW h, NEW Z, Supplied(h, Z), NEW ops, VM!Executes(ops)
  PROVE  /\ Pos \in Nat /\ ip \in Nat /\ ip + 1 \in 0..Pos /\ h[ip] \in Nat /\ h[ip + 1] \in Nat
         /\ VM!At \in Emitted /\ VM!At.op \in ops \ {"CALL"}
         /\ Flows(VM!At, h[ip], h[ip + 1]) /\ Takes(VM!At) <= Len(stack)
         /\ VM!At.op \in Jumps => VM!At.a \in Z
<1>1. Pos \in Nat /\ code \in Seq(Emitted)
  BY LenProperties DEF Loaded, Typed, CodeOK, Pos
<1>2. artifact.code = code
  BY DEF Loaded, OfCode, Artifact
<1>3. ip \in 0..Pos /\ ip < Pos /\ VM!At = code[ip + 1] /\ VM!At.op \in ops
  BY <1>2 DEF VM!Executes, VM!Fetched, VM!At, VM!Code, Supplied, Pos
<1>4. ip + 1 \in 1..Pos /\ (ip + 1) - 1 = ip /\ ip + 1 \in 0..Pos
  BY <1>1, <1>3
<1>5. VM!At \in Emitted
  BY <1>1, <1>3, <1>4, ElementOfSeq DEF Pos
<1>6. PICK i : i = ip + 1
  OBVIOUS
<1>7. Flows(code[i], h[i - 1], h[i]) /\ (code[i].op \in Jumps => code[i].a \in Z)
  BY <1>4, <1>6 DEF Supplied, Heights
<1>8. h[ip] \in Nat /\ h[ip + 1] \in Nat /\ h[ip] <= Len(stack)
  BY <1>3, <1>4 DEF Supplied, Heights
<1>9. Takes(VM!At) \in Nat /\ Len(stack) \in Nat
  BY <1>5, Counts, LenProperties DEF Loaded
<1> QED
  BY <1>1, <1>3, <1>4, <1>5, <1>6, <1>7, <1>8, <1>9 DEF Flows

LEMMA StackCut ==
  ASSUME Loaded
  PROVE  /\ Len(stack) \in Nat
         /\ \A n \in 0..Len(stack) : Len(SubSeq(stack, 1, n)) = n
         /\ \A n \in 0..Len(stack) : \A v : Len(Append(SubSeq(stack, 1, n), v)) = n + 1
         /\ stack = <<>> <=> Len(stack) = 0
<1>1. PICK S : stack \in Seq(S)
  BY DEF Loaded
<1>2. \A n \in 0..Len(stack) : SubSeq(stack, 1, n) \in Seq(S) /\ Len(SubSeq(stack, 1, n)) = n
  BY <1>1, PrefixProperties
<1>3. ASSUME NEW n \in 0..Len(stack), NEW v
      PROVE  Len(Append(SubSeq(stack, 1, n), v)) = n + 1
  <2>1. SubSeq(stack, 1, n) \in Seq(S \cup {v}) /\ Len(SubSeq(stack, 1, n)) = n
    BY <1>2
  <2> QED
    BY <2>1, AppendedProperties
<1> QED
  BY <1>1, <1>2, <1>3, ShortStacks

\* A step falls through, with what the instruction leaves, or leads to an address in Z.
Passes ==
  /\ VM!Executes({VM!At.op})
  /\ ip' = ip + 1 /\ Len(stack') = (Len(stack) - Takes(VM!At)) + Gives(VM!At)
Lands(Z) == ip' \in Z /\ Len(stack') \in Nat
Holds(Z) ==
  /\ \/ UNCHANGED callStack
     \/ callStack # <<>> /\ callStack' = Front(callStack)
  /\ \/ UNCHANGED tryStack
     \/ tryStack # <<>> /\ tryStack' = Front(tryStack)
     \/ \E t : tryStack' = Append(tryStack, t) /\ t.handlerAddr \in Z
Proceeds(Z) == UNCHANGED <<artifact, status>> /\ (Passes \/ Lands(Z)) /\ Holds(Z)

LEMMA MachineProceeds ==
  ASSUME Loaded, NEW h, NEW Z, Supplied(h, Z), VM!Step,
         \E S : stack' \in Seq(S)
  PROVE  UNCHANGED artifact /\ (status' \in VM!Outcomes \/ Proceeds(Z))
<1>1. /\ Len(stack) \in Nat /\ Len(stack') \in Nat
      /\ \A n \in 0..Len(stack) : Len(SubSeq(stack, 1, n)) = n
      /\ \A n \in 0..Len(stack) : \A v : Len(Append(SubSeq(stack, 1, n), v)) = n + 1
      /\ stack = <<>> <=> Len(stack) = 0
  BY StackCut, LenProperties
<1>2. CASE \/ VM!FetchPanics \/ VM!Abort \/ VM!Halt \/ VM!Underflow \/ VM!BadOperand
           \/ VM!UnknownOpcode
  BY <1>2 DEF VM!FetchPanics, VM!Abort, VM!Halt, VM!Underflow, VM!BadOperand, VM!UnknownOpcode,
     VM!Outcomes
<1>3. ASSUME NEW ops, VM!Executes(ops)
      PROVE  /\ VM!At \in Emitted /\ VM!At.op \in ops /\ VM!At.op # "CALL"
             /\ VM!Executes({VM!At.op}) /\ VM!At.a \in Nat
             /\ Takes(VM!At) \in Nat /\ Gives(VM!At) \in Nat /\ Takes(VM!At) <= Len(stack)
             /\ VM!At.op \in Jumps => VM!At.a \in Z
  <2>1. VM!At \in Emitted /\ VM!At.op \in ops \ {"CALL"} /\ Takes(VM!At) <= Len(stack)
        /\ (VM!At.op \in Jumps => VM!At.a \in Z)
    BY <1>3, ExecutedFlows
  <2>2. VM!Executes({VM!At.op})
    BY <1>3 DEF VM!Executes
  <2> QED
    BY <2>1, <2>2, Counts DEF Emitted
<1>4. CASE VM!Operate
  <2>1. VM!Executes(VM!Operators)
    BY <1>4 DEF VM!Operate
  <2>2. /\ VM!At \in Emitted /\ VM!At.op \in VM!Operators /\ VM!At.op # "CALL"
        /\ VM!Executes({VM!At.op})
        /\ Takes(VM!At) \in Nat /\ Takes(VM!At) <= Len(stack)
    BY <1>3, <2>1
  <2>3. VM!Pops(VM!At) = Takes(VM!At) /\ Gives(VM!At) = 1 /\ VM!At.op # "DUP"
    BY <2>2, PopsTakes
  <2>4. PICK n : n = Len(stack) - Takes(VM!At)
    OBVIOUS
  <2>5. n \in 0..Len(stack) /\ VM!Kept(VM!At) = n
    BY <1>1, <2>2, <2>3, <2>4 DEF VM!Kept, VM!Depth
  <2>6. PICK v : stack' = Append(SubSeq(stack, 1, n), v)
    BY <1>4, <2>5 DEF VM!Operate
  <2>7. Len(stack') = n + 1
    BY <1>1, <2>5, <2>6
  <2>8. ip' = ip + 1 /\ UNCHANGED <<artifact, status, callStack, tryStack>>
    BY <1>4 DEF VM!Operate
  <2>9. Passes
    BY <2>2, <2>3, <2>4, <2>7, <2>8 DEF Passes
  <2> QED
    BY <2>8, <2>9 DEF Proceeds, Holds
<1>5. CASE VM!Nop \/ VM!Delete \/ VM!AgentDeclare \/ VM!Call \/ VM!Require
  <2>1. VM!Executes({"NOP", "DELETE", "AGENT_DECLARE", "CALL", "REQUIRE"})
    BY <1>5 DEF VM!Nop, VM!Delete, VM!AgentDeclare, VM!Call, VM!Require, VM!Executes
  <2>2. VM!At \in Emitted /\ VM!At.op \in {"NOP", "DELETE", "AGENT_DECLARE", "REQUIRE"}
    BY <1>3, <2>1
  <2> QED
    BY <2>2 DEF Emitted, PlainOps, Jumps
<1>6. ASSUME NEW op, op \in {"STORE", "ERR", "JMP_IF", "PRINT"}, VM!Executes({op}),
             stack' = SubSeq(stack, 1, Len(stack) - 1)
      PROVE  Len(stack) # 0 /\ Len(stack') = (Len(stack) - Takes(VM!At)) + Gives(VM!At)
  <2>1. VM!At.op = op /\ Takes(VM!At) <= Len(stack)
    BY <1>3, <1>6
  <2>2. Takes(VM!At) = 1 /\ Gives(VM!At) = 0
    BY <1>6, <2>1 DEF Takes, Gives, OneTaken, TwoTaken, Literals
  <2>3. PICK n : n = Len(stack) - 1
    OBVIOUS
  <2>4. n \in 0..Len(stack) /\ Len(stack) # 0
    BY <1>1, <2>1, <2>2, <2>3
  <2>5. Len(stack') = n
    BY <1>1, <1>6, <2>3, <2>4
  <2> QED
    BY <1>1, <2>2, <2>3, <2>4, <2>5
<1>7. CASE VM!Store
  <2>1. VM!Executes({"STORE"}) /\ stack' = SubSeq(stack, 1, Len(stack) - 1)
        /\ ip' = ip + 1 /\ UNCHANGED <<artifact, status, callStack, tryStack>>
    BY <1>7 DEF VM!Store, VM!Rest, VM!Depth
  <2>2. Passes
    BY <1>3, <1>6, <2>1 DEF Passes
  <2> QED
    BY <2>1, <2>2 DEF Proceeds, Holds
<1>8. CASE VM!PrintTop
  <2>1. VM!Executes({"PRINT"}) /\ ip' = ip + 1
        /\ UNCHANGED <<artifact, status, callStack, tryStack>>
        /\ stack' = (IF stack = <<>> THEN stack ELSE SubSeq(stack, 1, Len(stack) - 1))
    BY <1>8 DEF VM!PrintTop, VM!Rest, VM!Depth
  <2>2. VM!At.op = "PRINT" /\ Takes(VM!At) <= Len(stack)
    BY <1>3, <2>1
  <2>3. Takes(VM!At) = 1
    BY <2>2 DEF Takes, OneTaken, TwoTaken
  <2>4. stack # <<>>
    BY <1>1, <2>2, <2>3
  <2>5. Passes
    BY <1>3, <1>6, <2>1, <2>4 DEF Passes
  <2> QED
    BY <2>1, <2>5 DEF Proceeds, Holds
<1>9. CASE VM!Swap
  <2>1. VM!Executes({"SWAP"}) /\ ip' = ip + 1
        /\ UNCHANGED <<artifact, status, callStack, tryStack>>
    BY <1>9 DEF VM!Swap
  <2>0. VM!At.op \in {"SWAP"} /\ Takes(VM!At) <= Len(stack)
    BY <1>3, <2>1
  <2>2. VM!At.op = "SWAP" /\ Takes(VM!At) <= Len(stack) /\ VM!Executes({VM!At.op})
    BY <2>0, <2>1 DEF VM!Executes
  <2>3. Takes(VM!At) = 2 /\ Gives(VM!At) = 2
    BY <2>2 DEF Takes, Gives, OneTaken, TwoTaken, Literals
  <2>4. PICK n, t, u : n = Len(stack) - 2 /\ t = VM!Top /\ u = VM!Under
    OBVIOUS
  <2>5. n \in 0..Len(stack) /\ stack' = SubSeq(stack, 1, n) \o <<t, u>>
    BY <1>1, <1>9, <2>2, <2>3, <2>4 DEF VM!Swap, VM!Rest, VM!Depth
  <2>6. PICK S : stack \in Seq(S)
    BY DEF Loaded
  <2>7. SubSeq(stack, 1, n) \in Seq(S \cup {t, u}) /\ Len(SubSeq(stack, 1, n)) = n
    BY <2>5, <2>6, PrefixProperties
  <2>8. <<t, u>> \in Seq(S \cup {t, u}) /\ Len(<<t, u>>) = 2
    OBVIOUS
  <2>9. Len(stack') = n + 2
    BY <2>5, <2>7, <2>8, ExtendedProperties
  <2>10. Passes
    BY <1>1, <2>1, <2>2, <2>3, <2>4, <2>9 DEF Passes
  <2> QED
    BY <2>1, <2>10 DEF Proceeds, Holds
<1>10. CASE VM!Emit
  <2>1. VM!Executes({"EMIT"}) /\ ip' = ip + 1 /\ stack' = SubSeq(stack, 1, Len(stack) - 2)
        /\ UNCHANGED <<artifact, status, callStack, tryStack>>
    BY <1>10 DEF VM!Emit, VM!Rest, VM!Depth
  <2>0. VM!At.op \in {"EMIT"} /\ Takes(VM!At) <= Len(stack)
    BY <1>3, <2>1
  <2>2. VM!At.op = "EMIT" /\ Takes(VM!At) <= Len(stack) /\ VM!Executes({VM!At.op})
    BY <2>0, <2>1 DEF VM!Executes
  <2>3. Takes(VM!At) = 2 /\ Gives(VM!At) = 0
    BY <2>2 DEF Takes, Gives, OneTaken, TwoTaken, Literals
  <2>4. PICK n : n = Len(stack) - 2
    OBVIOUS
  <2>5. n \in 0..Len(stack) /\ Len(stack') = n
    BY <1>1, <2>1, <2>2, <2>3, <2>4
  <2>6. Passes
    BY <1>1, <2>1, <2>2, <2>3, <2>4, <2>5 DEF Passes
  <2> QED
    BY <2>1, <2>6 DEF Proceeds, Holds
<1>11. CASE VM!Jmp \/ VM!JmpIf
  <2>1. /\ VM!Executes({"JMP", "JMP_IF"})
        /\ UNCHANGED <<artifact, status, callStack, tryStack>>
        /\ ip' = VM!At.a \/ (VM!JmpIf /\ ip' = ip + 1)
    BY <1>11 DEF VM!Jmp, VM!JmpIf, VM!Target, VM!Executes
  <2>2. CASE ip' = VM!At.a
    <3>1. VM!At.a \in Z
      BY <1>3, <2>1 DEF Jumps
    <3> QED
      BY <1>1, <2>1, <2>2, <3>1 DEF Proceeds, Lands, Holds
  <2>3. CASE VM!JmpIf /\ ip' = ip + 1
    <3>1. VM!Executes({"JMP_IF"}) /\ stack' = SubSeq(stack, 1, Len(stack) - 1)
      BY <2>3 DEF VM!JmpIf, VM!Rest, VM!Depth
    <3>2. Passes
      BY <1>3, <1>6, <2>3, <3>1 DEF Passes
    <3> QED
      BY <2>1, <3>2 DEF Proceeds, Holds
  <2> QED
    BY <2>1, <2>2, <2>3
<1>12. ASSUME NEW op, op \in {"RET", "TRY", "END_TRY"}, VM!Executes({op}),
              UNCHANGED stack, ip' = ip + 1
       PROVE  Passes
  <2>0. VM!At.op \in {op}
    BY <1>3, <1>12
  <2>1. VM!At.op = op /\ VM!Executes({VM!At.op})
    BY <1>12, <2>0 DEF VM!Executes
  <2>2. Takes(VM!At) = 0 /\ Gives(VM!At) = 0
    BY <1>12, <2>1 DEF Takes, Gives, OneTaken, TwoTaken, Literals
  <2> QED
    BY <1>1, <1>12, <2>1, <2>2 DEF Passes
<1>13. CASE VM!Ret
  <2>1. VM!Executes({"RET"}) /\ UNCHANGED <<artifact, status, stack, tryStack>>
    BY <1>13 DEF VM!Ret
  <2>2. CASE callStack = <<>>
    <3>1. ip' = ip + 1 /\ UNCHANGED callStack
      BY <1>13, <2>2 DEF VM!Ret
    <3> QED
      BY <1>12, <2>1, <3>1 DEF Proceeds, Holds
  <2>3. CASE callStack # <<>>
    <3>1. ip' = Last(callStack) /\ callStack' = Front(callStack)
      BY <1>13, <2>3, SameEnds DEF VM!Ret
    <3>2. Len(callStack) \in 1..Len(callStack) /\ Last(callStack) = callStack[Len(callStack)]
      <4>1. callStack \in Seq(Nat)
        BY DEF Loaded
      <4>2. Len(callStack) \in Nat /\ Len(callStack) # 0
        BY <2>3, <4>1, ShortStacks
      <4> QED
        <5>1. Last(callStack) = callStack[Len(callStack)]
          BY <2>3, <4>1, FrontProperties
        <5> QED
          BY <4>2, <5>1
    <3>3. ip' \in Z
      BY <3>1, <3>2 DEF Supplied
    <3> QED
      BY <1>1, <2>1, <2>3, <3>1, <3>3 DEF Proceeds, Lands, Holds
  <2> QED
    BY <2>2, <2>3
<1>14. CASE VM!Try
  <2>1. VM!Executes({"TRY"}) /\ ip' = ip + 1 /\ UNCHANGED <<artifact, status, stack, callStack>>
    BY <1>14 DEF VM!Try
  <2>2. PICK t : t = VM!TryFrame(VM!Target, VM!At.b)
    OBVIOUS
  <2>3. tryStack' = Append(tryStack, t) /\ t.handlerAddr = VM!At.a
    BY <1>14, <2>2 DEF VM!Try, VM!TryFrame, VM!Target
  <2>4. VM!At.a \in Z
    BY <1>3, <2>1 DEF Jumps
  <2>5. Passes
    BY <1>12, <2>1
  <2> QED
    BY <2>1, <2>3, <2>4, <2>5 DEF Proceeds, Holds
<1>15. CASE VM!EndTry
  <2>1. CASE tryStack = <<>>
    BY <1>15, <2>1 DEF VM!EndTry, VM!Outcomes
  <2>2. CASE tryStack # <<>>
    <3>1. /\ VM!Executes({"END_TRY"}) /\ ip' = ip + 1 /\ tryStack' = Front(tryStack)
          /\ UNCHANGED <<artifact, status, stack, callStack>>
      BY <1>15, <2>2, SameEnds DEF VM!EndTry
    <3>2. Passes
      BY <1>12, <3>1
    <3> QED
      BY <2>2, <3>1, <3>2 DEF Proceeds, Holds
  <2> QED
    BY <2>1, <2>2
<1>16. CASE VM!Err
  <2>1. VM!Executes({"ERR"}) /\ UNCHANGED <<artifact, status, callStack>>
    BY <1>16 DEF VM!Err
  <2>2. CASE tryStack # <<>>
    <3>1. PICK T : tryStack \in Seq(T)
      BY DEF Loaded
    <3>2. Len(tryStack) \in 1..Len(tryStack) /\ Last(tryStack) = tryStack[Len(tryStack)]
      <4>1. Len(tryStack) \in Nat /\ Len(tryStack) # 0
        BY <2>2, <3>1, ShortStacks
      <4> QED
        <5>1. Last(tryStack) = tryStack[Len(tryStack)]
          BY <2>2, <3>1, FrontProperties
        <5> QED
          BY <4>1, <5>1
    <3>3. tryStack' = Front(tryStack) /\ ip' = Last(tryStack).handlerAddr
      BY <1>16, <2>2, SameEnds DEF VM!Err, VM!Caught
    <3>4. ip' \in Z
      BY <3>2, <3>3 DEF Supplied
    <3> QED
      BY <1>1, <2>1, <2>2, <3>3, <3>4 DEF Proceeds, Lands, Holds
  <2>3. CASE tryStack = <<>>
    <3>1. stack' = SubSeq(stack, 1, Len(stack) - 1) /\ ip' = ip + 1 /\ UNCHANGED tryStack
      BY <1>16, <2>3 DEF VM!Err, VM!Rest, VM!Depth
    <3>2. Passes
      BY <1>3, <1>6, <2>1, <3>1 DEF Passes
    <3> QED
      BY <2>1, <3>1, <3>2 DEF Proceeds, Holds
  <2> QED
    BY <2>2, <2>3
<1> QED
  BY <1>2, <1>4, <1>5, <1>7, <1>8, <1>9, <1>10, <1>11, <1>13, <1>14, <1>15, <1>16 DEF VM!Step

LEMMA ProceedsSupplied ==
  ASSUME Loaded, NEW h, NEW Z, Supplied(h, Z), Proceeds(Z), UNCHANGED cvars
  PROVE  Supplied(h, Z)'
<1>1. Pos \in Nat /\ Pos' = Pos
  BY LenProperties DEF Loaded, Typed, CodeOK, Pos, cvars
<1>2. Heights(h, Z)' /\ Marked(Z)'
  BY <1>1 DEF Supplied, Heights, Marked, cvars, decls, scope
<1>3. ip' \in 0..Pos /\ h[ip'] <= Len(stack')
  <2>1. CASE Passes
    <3>1. VM!Executes({VM!At.op}) /\ ip' = ip + 1
          /\ Len(stack') = (Len(stack) - Takes(VM!At)) + Gives(VM!At)
      BY <2>1 DEF Passes
    <3>2. /\ ip + 1 \in 0..Pos /\ h[ip] \in Nat /\ h[ip + 1] \in Nat
          /\ VM!At \in Emitted /\ Flows(VM!At, h[ip], h[ip + 1])
      BY <3>1, ExecutedFlows
    <3>3. h[ip] <= Len(stack) /\ Len(stack) \in Nat /\ Takes(VM!At) \in Nat /\ Gives(VM!At) \in Nat
      BY <3>2, Counts, StackCut DEF Supplied
    <3>4. h[ip + 1] <= (h[ip] - Takes(VM!At)) + Gives(VM!At)
      BY <3>2 DEF Flows
    <3> QED
      BY <3>1, <3>2, <3>3, <3>4
  <2>2. CASE Lands(Z)
    <3>1. ip' \in Z /\ Len(stack') \in Nat
      BY <2>2 DEF Lands
    <3>2. ip' \in 0..Pos /\ h[ip'] = 0
      BY <3>1 DEF Supplied, Heights
    <3> QED
      BY <3>1, <3>2
  <2> QED
    BY <2>1, <2>2 DEF Proceeds
<1>4. \A k \in 1..Len(callStack') : callStack'[k] \in Z
  <2>1. CASE UNCHANGED callStack
    BY <2>1 DEF Supplied
  <2>2. CASE callStack # <<>> /\ callStack' = Front(callStack)
    <3>1. callStack \in Seq(Nat) /\ Len(callStack) \in Nat
      BY LenProperties DEF Loaded
    <3>2. /\ Len(callStack') = Len(callStack) - 1
          /\ \A k \in 1..(Len(callStack) - 1) : callStack'[k] = callStack[k] /\ k \in 1..Len(callStack)
      BY <2>2, <3>1, FrontProperties
    <3> QED
      BY <3>2 DEF Supplied
  <2> QED
    BY <2>1, <2>2 DEF Proceeds, Holds
<1>5. \A k \in 1..Len(tryStack') : tryStack'[k].handlerAddr \in Z
  <2>0. PICK T : tryStack \in Seq(T) /\ Len(tryStack) \in Nat
    BY LenProperties DEF Loaded
  <2>1. CASE UNCHANGED tryStack
    BY <2>1 DEF Supplied
  <2>2. CASE tryStack # <<>> /\ tryStack' = Front(tryStack)
    <3>1. /\ Len(tryStack') = Len(tryStack) - 1
          /\ \A k \in 1..(Len(tryStack) - 1) : tryStack'[k] = tryStack[k] /\ k \in 1..Len(tryStack)
      BY <2>0, <2>2, FrontProperties
    <3> QED
      BY <3>1 DEF Supplied
  <2>3. ASSUME NEW t, tryStack' = Append(tryStack, t), t.handlerAddr \in Z
        PROVE  \A k \in 1..Len(tryStack') : tryStack'[k].handlerAddr \in Z
    <3>1. tryStack \in Seq(T \cup {t})
      BY <2>0
    <3>2. /\ Len(tryStack') = Len(tryStack) + 1
          /\ \A k \in 1..Len(tryStack) : tryStack'[k] = tryStack[k]
          /\ tryStack'[Len(tryStack) + 1] = t
      BY <2>3, <3>1, AppendedProperties
    <3>3. \A k \in 1..Len(tryStack') : k \in 1..Len(tryStack) \/ k = Len(tryStack) + 1
      BY <2>0, <3>2
    <3> QED
      BY <2>3, <3>2, <3>3 DEF Supplied
  <2> QED
    BY <2>1, <2>2, <2>3 DEF Proceeds, Holds
<1> QED
  BY <1>1, <1>2, <1>3, <1>4, <1>5 DEF Supplied

\* The invariant of the lifecycle: a machine that runs has what the heights count on.
Fed ==
  /\ phase \in {"init", "deployed", "exec"} => stage = "compiled" /\ OfCode
  /\ phase = "build" => status = "idle"
  /\ phase = "deployed" => status = "success"
  /\ phase \in {"init", "exec"} /\ status = "idle" => ip = 0 /\ callStack = <<>> /\ tryStack = <<>>
  /\ status = "running" => phase \in {"init", "exec"} /\ \E h, Z : Supplied(h, Z)

LEMMA FedLoaded ==
  ASSUME Typed, LTyped, Fed, phase \in {"init", "exec"}
  PROVE  Loaded
<1>1. stage = "compiled" /\ OfCode /\ MP!TypeOK
  BY DEF LTyped, Fed, MP!Typed
<1>2. stack \in Seq(MP!Values) /\ callStack \in Seq(Nat) /\ tryStack \in Seq(MP!TryFrames)
  BY <1>1 DEF MP!TypeOK
<1> QED
  BY <1>1, <1>2 DEF Loaded

LEMMA StartFed ==
  ASSUME Loaded, Balanced, UNCHANGED cvars,
         ip = 0, callStack = <<>>, tryStack = <<>>,
         VM!Run \/ \E f \in DOMAIN functions : \E args : VM!RunFunction(f, args)
  PROVE  /\ UNCHANGED artifact
         /\ \/ status' = "rejected"
            \/ status' = "running" /\ \E h, Z : Supplied(h, Z)'
<1>1. PICK h, Z : Heights(h, Z) /\ Marked(Z)
  BY DEF Balanced
<1>2. Pos \in Nat /\ Pos' = Pos /\ stage = "compiled"
  BY LenProperties DEF Loaded, Typed, CodeOK, Pos, cvars
<1>3. Heights(h, Z)' /\ Marked(Z)'
  BY <1>1, <1>2 DEF Heights, Marked, cvars, decls, scope
<1>4. /\ 0 \in Z /\ Pos - 1 \in Z /\ \A f \in DOMAIN functions : functions[f].addr \in Z
      /\ \A z \in Z : z \in 0..Pos /\ h[z] = 0
  BY <1>1, <1>2 DEF Heights, Marked
<1>5. Len(stack) \in Nat
  BY StackCut
<1>6. artifact.code = code /\ artifact.functions = functions
  BY DEF Loaded, OfCode, Artifact
<1>7. CASE VM!Run
  <2>1. status' = "running" /\ UNCHANGED <<artifact, ip, stack, callStack, tryStack>>
    BY <1>7 DEF VM!Run
  <2>2. Supplied(h, Z)'
    BY <1>2, <1>3, <1>4, <1>5, <2>1 DEF Supplied
  <2> QED
    BY <2>1, <2>2
<1>8. ASSUME NEW f \in DOMAIN functions, NEW args, VM!RunFunction(f, args)
      PROVE  /\ UNCHANGED artifact
             /\ \/ status' = "rejected"
                \/ status' = "running" /\ Supplied(h, Z)'
  <2>1. UNCHANGED <<artifact, stack, tryStack>>
    BY <1>8 DEF VM!RunFunction
  <2>2. \/ status' = "rejected"
        \/ /\ status' = "running" /\ ip' = functions[f].addr
           /\ callStack' = Append(callStack, Len(code) - 1)
    BY <1>6, <1>8 DEF VM!RunFunction, VM!HaltAddr, VM!Code
  <2>3. CASE /\ status' = "running" /\ ip' = functions[f].addr
             /\ callStack' = Append(callStack, Len(code) - 1)
    <3>1. PICK r : r = Pos - 1
      OBVIOUS
    <3>2. r \in Z /\ callStack' = <<r>>
      BY <1>4, <2>3, <3>1 DEF Pos
    <3>3. \A k \in 1..Len(callStack') : callStack'[k] \in Z
      BY <3>2
    <3>4. ip' \in 0..Pos /\ h[ip'] <= Len(stack')
      BY <1>4, <1>5, <2>1, <2>3
    <3>5. \A k \in 1..Len(tryStack') : tryStack'[k].handlerAddr \in Z
      BY <2>1
    <3>6. Supplied(h, Z)'
      BY <1>2, <1>3, <3>3, <3>4, <3>5 DEF Supplied
    <3> QED
      BY <2>1, <2>3, <3>6
  <2> QED
    BY <2>1, <2>2, <2>3
<1> QED
  BY <1>7, <1>8

LEMMA NextFed ==
  ASSUME Compiles, Balanced, LTyped, LTyped', Fed, [LNext]_lvars
  PROVE  Fed'
<1>1. "success" # "idle" /\ "running" \notin VM!Outcomes /\ "idle" \notin VM!Outcomes
      /\ "success" \in VM!Outcomes /\ "rejected" \in VM!Outcomes
  BY DEF VM!Outcomes
<1>2. CASE Compile \/ BuildPanics
  BY <1>2 DEF Compile, BuildPanics, Fed, vmvars
<1>3. CASE StartInit \/ StartExec
  <2>1. PICK art : NewMachine(art) /\ (StartInit => art = Compiled)
                   /\ (StartExec => art = Received(artifact))
    BY <1>3 DEF StartInit, StartExec
  <2>2. stage' = "compiled" /\ phase' \in {"init", "exec"} /\ UNCHANGED cvars
    BY <1>3 DEF StartInit, StartExec, Fed, cvars
  <2>3. /\ artifact' = art /\ status' = "idle" /\ ip' = 0
        /\ callStack' = <<>> /\ tryStack' = <<>>
    BY <2>1 DEF NewMachine
  <2>4. \E pl, st : art = Artifact(code, pl, functions, functionName, st)
    <3>1. CASE StartInit
      BY <2>1, <3>1 DEF Compiled
    <3>2. CASE StartExec
      <4>1. PICK pl, st : artifact = Artifact(code, pl, functions, functionName, st)
        BY <3>2 DEF StartExec, Fed, OfCode
      <4> QED
        BY <2>1, <3>2, <4>1 DEF Received, Artifact
    <3> QED
      BY <1>3, <3>1, <3>2
  <2>5. OfCode'
    BY <2>2, <2>3, <2>4 DEF OfCode, cvars, decls
  <2> QED
    BY <1>1, <2>2, <2>3, <2>5 DEF Fed
<1>4. ASSUME phase \in {"init", "exec"}, UNCHANGED <<cvars, phase, artifact>>
      PROVE  OfCode' /\ phase' \in {"init", "exec"} /\ stage' = "compiled"
  BY <1>4 DEF Fed, OfCode, cvars, decls
<1>5. CASE Machine /\ VM!Step
  <2>1. phase \in {"init", "exec"} /\ UNCHANGED <<cvars, phase>>
    BY <1>5 DEF Machine
  <2>2. status = "running"
    BY <1>5 DEF VM!Step, VM!FetchPanics, VM!Abort, VM!Halt, VM!Operate, VM!Underflow,
       VM!BadOperand, VM!UnknownOpcode, VM!Nop, VM!Swap, VM!PrintTop, VM!Store, VM!Delete,
       VM!AgentDeclare, VM!Emit, VM!Jmp, VM!JmpIf, VM!Call, VM!Ret, VM!Try, VM!EndTry, VM!Err,
       VM!Require, VM!Executes, VM!Fetched
  <2>3. PICK h, Z : Supplied(h, Z)
    BY <2>2 DEF Fed
  <2>4. Loaded
    BY <2>1, FedLoaded DEF Compiles
  <2>5. stack' \in Seq(MP!Values)
    BY <2>1 DEF LTyped, MP!Typed, MP!TypeOK, cvars, Fed
  <2>6. UNCHANGED artifact /\ (status' \in VM!Outcomes \/ Proceeds(Z))
    BY <1>5, <2>3, <2>4, <2>5, MachineProceeds
  <2>7. OfCode' /\ phase' \in {"init", "exec"} /\ stage' = "compiled"
    BY <1>4, <2>1, <2>6
  <2>8. CASE status' \in VM!Outcomes
    BY <1>1, <2>7, <2>8 DEF Fed
  <2>9. CASE Proceeds(Z)
    <3>1. Supplied(h, Z)' /\ status' = "running"
      BY <2>1, <2>2, <2>3, <2>4, <2>9, ProceedsSupplied DEF Proceeds
    <3> QED
      BY <1>1, <2>7, <3>1 DEF Fed
  <2> QED
    BY <2>6, <2>8, <2>9
<1>6. CASE (Machine /\ VM!Run) \/ Invoke
  <2>1. phase \in {"init", "exec"} /\ UNCHANGED <<cvars, phase>>
    BY <1>6 DEF Machine, Invoke
  <2>2. VM!Run \/ \E f \in DOMAIN functions : \E args : VM!RunFunction(f, args)
    BY <1>6 DEF Invoke
  <2>3. ip = 0 /\ callStack = <<>> /\ tryStack = <<>>
    BY <2>1, <2>2 DEF VM!Run, VM!RunFunction, Fed
  <2>4. Loaded
    BY <2>1, FedLoaded DEF Compiles
  <2>5. /\ UNCHANGED artifact
        /\ \/ status' = "rejected"
           \/ status' = "running" /\ \E h, Z : Supplied(h, Z)'
    BY <2>1, <2>2, <2>3, <2>4, StartFed
  <2>6. OfCode' /\ phase' \in {"init", "exec"} /\ stage' = "compiled"
    BY <1>4, <2>1, <2>5
  <2> QED
    BY <1>1, <2>5, <2>6 DEF Fed
<1>7. CASE InitEnds
  <2>1. /\ phase = "init" /\ stage = "compiled" /\ OfCode /\ UNCHANGED <<cvars, status>>
    BY <1>7 DEF InitEnds, Fed
  <2>2. PICK pl, st : artifact = Artifact(code, pl, functions, functionName, st)
    BY <2>1 DEF OfCode
  <2>3. artifact' = Artifact(code, pl, functions, functionName, storage)
    BY <1>7, <2>2 DEF InitEnds, Artifact
  <2>4. OfCode' /\ stage' = "compiled" /\ status \in VM!Outcomes
    BY <1>7, <2>1, <2>3 DEF InitEnds, VM!Done, OfCode, cvars, decls
  <2>5. phase' \in {"deployed", "refused"} /\ (phase' = "deployed" => status' = "success")
    BY <1>7, <2>1 DEF InitEnds, AfterInit
  <2> QED
    BY <1>1, <2>1, <2>4, <2>5 DEF Fed
<1>8. CASE UNCHANGED lvars
  <2>1. UNCHANGED <<cvars, phase, artifact, status, ip, stack, callStack, tryStack>>
    BY <1>8 DEF lvars, vmvars
  <2>2. Pos' = Pos /\ (OfCode => OfCode') /\ UNCHANGED stage
    BY <2>1 DEF Pos, OfCode, cvars, decls
  <2>3. ASSUME NEW h, NEW Z, Supplied(h, Z)
        PROVE  Supplied(h, Z)'
    <3>1. Heights(h, Z)' /\ Marked(Z)'
      BY <2>1, <2>2, <2>3 DEF Supplied, Heights, Marked, cvars, decls, scope
    <3> QED
      BY <2>1, <2>2, <2>3, <3>1 DEF Supplied
  <2> QED
    BY <2>1, <2>2, <2>3 DEF Fed
<1> QED
  BY <1>2, <1>3, <1>5, <1>6, <1>7, <1>8 DEF LNext, Machine

(***************************************************************************)
(* No instruction of a compiled contract finds its operands missing, on    *)
(* which pop panics (vm.go:328): neither of the contract's own code nor of *)
(* a function, whatever the branches, loops and caught errors, as long as  *)
(* the program is without the words that leave an operand out.             *)
(***************************************************************************)
THEOREM OperandsArePresent ==
  ASSUME BalancedPrograms
  PROVE  LSpec => []OperandsPresent
<1>1. LInit => Fed
  BY DEF LInit, Fed
<1>2. LSpec => [](Typed /\ Balanced)
  BY CompilesInside, AlwaysBalanced, PTL
<1>3. Compiles /\ Balanced /\ LTyped /\ LTyped' /\ Fed /\ [LNext]_lvars => Fed'
  BY NextFed
<1>4. LSpec => []Fed
  BY <1>1, <1>2, <1>3, AlwaysLTyped, PTL DEF LSpec
<1>5. ASSUME Compiles, LTyped, Fed
      PROVE  OperandsPresent
  <2> SUFFICES ASSUME VM!Executes({VM!At.op})
               PROVE  VM!Pops(VM!At) <= Len(stack)
    BY DEF OperandsPresent
  <2>1. status = "running"
    BY DEF VM!Executes, VM!Fetched
  <2>2. PICK h, Z : Supplied(h, Z)
    BY <1>5, <2>1 DEF Fed
  <2>3. Loaded
    BY <1>5, <2>1, FedLoaded DEF Fed, Compiles
  <2>4. VM!At \in Emitted /\ VM!At.op # "CALL" /\ Takes(VM!At) <= Len(stack)
    BY <2>2, <2>3, ExecutedFlows
  <2>5. VM!Pops(VM!At) \in Nat /\ VM!Pops(VM!At) <= Takes(VM!At)
    BY <2>4, PopsTakes
  <2>6. Len(stack) \in Nat /\ Takes(VM!At) \in Nat
    BY <2>3, <2>4, StackCut, Counts
  <2> QED
    BY <2>4, <2>5, <2>6
<1> QED
  BY <1>4, <1>5, AlwaysLTyped, PTL
=============================================================================
