--------------------------- MODULE DeploymentProofs ---------------------------
(***************************************************************************)
(* Proofs about Deployment, for every set of programs and every bound.     *)
(*                                                                         *)
(* Typed says that the variables have their types and, of the code, that   *)
(* each instruction that takes a value follows the one that gives it. The  *)
(* queue of the compiler is what the declarations have left (QueueFollows).*)
(* On these rest the hashes that storage may hold (HashesOwned); what      *)
(* each declaration has come to, from the code that will store it to the   *)
(* slot that holds it (Standing); and the chain of imports that the calls  *)
(* of the loader are in (LoaderWalks), with the paths it has been down, to *)
(* which the modules correspond (LoaderVisits).                            *)
(***************************************************************************)
EXTENDS Deployment, SequenceLemmas, FiniteSetTheorems

-----------------------------------------------------------------------------
(* The sets that the variables range over.                                 *)

All == UNION {UNION {ToSet(p[f]) : f \in DOMAIN p} : p \in Programs}

Phases == {"resolving", "analyzing", "compiling", "initializing", "hashing"} \cup Ended

Objects == {This} \cup {Registry(d) : d \in All} \cup {Object(d.kind, FieldsOf(d)) : d \in All}
Values == Objects \cup {AgentData(v) : v \in Objects}

Instructions ==
  {[op |-> "NOP"], [op |-> "ERR"]}
  \cup {[op |-> "AGENT_DECLARE", agent |-> d] : d \in All}
  \cup {[op |-> "AGENT_GET", name |-> d.name] : d \in All}
  \cup {[op |-> "AGENT_VALIDATE", version |-> d.version] : d \in All}
  \cup {[op |-> "OBJECT", object |-> Object(d.kind, FieldsOf(d))] : d \in All}
  \cup {[op |-> "STORE", slot |-> s] : s \in Nat \ {0}}

Gives == {"AGENT_GET", "AGENT_VALIDATE", "OBJECT"}       \* leave a value on the stack
Takes == {"AGENT_VALIDATE", "STORE"}                     \* find one there

-----------------------------------------------------------------------------
(* The invariant of types.                                                 *)

LoaderOK ==
  /\ program \in Programs /\ phase \in Phases
  /\ frames \in Seq([file : Files, next : Nat \ {0}]) /\ Len(frames) \in 1..MaxFrames
  /\ modules \in Seq(Files)

CompilerOK ==
  /\ queue \in Seq(All) /\ code \in Seq(Instructions)
  /\ nextSlot \in Nat \ {0}
  /\ \A n \in DOMAIN symbols : symbols[n] \in 1..(nextSlot - 1)
  /\ phase \in {"resolving", "analyzing"} =>
       queue = <<>> /\ code = <<>> /\ nextSlot = 1 /\ symbols = <<>>

MachineOK ==
  /\ stack = <<>> \/ \E v \in Values : stack = <<v>>
  /\ DOMAIN storage \subseteq Nat /\ IsFiniteSet(DOMAIN storage)
  /\ 0 \in DOMAIN storage
  /\ \A k \in DOMAIN storage : storage[k] \in Values
  /\ phase \in {"resolving", "analyzing", "compiling"} =>
       stack = <<>> /\ storage = [k \in {0} |-> This]

\* What an instruction leaves on the stack is what the next one takes from it.
Paired(c) ==
  \A j \in 1..Len(c) :
    c[j].op \in Gives <=> j < Len(c) /\ c[j + 1].op \in Takes
Waiting(c) == c # <<>> /\ c[1].op \in Takes

StackFits == Paired(code) /\ (stack # <<>> <=> Waiting(code))

Typed == LoaderOK /\ CompilerOK /\ MachineOK /\ StackFits

LEMMA TypedTypeOK == Typed => TypeOK
<1> SUFFICES ASSUME Typed PROVE TypeOK
  OBVIOUS
<1>1. "main" \in Files
  BY ProgramsAssumption DEF Typed, LoaderOK, Files
<1>2. Len(stack) <= 1
  <2>1. CASE stack = <<>>
    BY <2>1
  <2>2. CASE \E v \in Values : stack = <<v>>
    <3>1. PICK v \in Values : stack = <<v>>
      BY <2>2
    <3> QED
      BY ONLY <3>1
  <2> QED
    BY <2>1, <2>2 DEF Typed, MachineOK
<1>3. phase \in Phases /\ Len(frames) \in 1..MaxFrames /\ modules \in Seq(Files)
  BY DEF Typed, LoaderOK
<1>4. nextSlot \in Nat /\ \A n \in DOMAIN symbols : symbols[n] \in 1..(nextSlot - 1)
  BY DEF Typed, CompilerOK
<1>5. DOMAIN storage \subseteq Nat
  BY DEF Typed, MachineOK
<1> QED
  BY <1>1, <1>2, <1>3, <1>4, <1>5 DEF TypeOK, Phases

-----------------------------------------------------------------------------
(* Declarations and code.                                                  *)

LEMMA FilesHoldDeclarations ==
  ASSUME NEW p \in Programs, NEW f \in DOMAIN p
  PROVE  p[f] \in Seq(All)
<1>1. p[f] \in Seq(ToSet(p[f]))
  BY ProgramsAssumption
<1>2. ToSet(p[f]) \subseteq All
  BY DEF All
<1> HIDE DEF All
<1>3. \A i \in 1..Len(p[f]) : p[f][i] \in All
  BY <1>1, <1>2, ElementOfSeq
<1> QED
  BY <1>1, <1>3, SeqDef, LenProperties

LEMMA FlattenedFiles ==
  ASSUME NEW p \in Programs, NEW m \in Seq(DOMAIN p)
  PROVE  FlattenSeq([i \in DOMAIN m |-> p[m[i]]]) \o p["main"] \in Seq(All)
<1> DEFINE n == Len(m)
           ss == [i \in DOMAIN m |-> p[m[i]]]
<1>1. n \in Nat /\ DOMAIN m = 1..n
  BY LenProperties
<1>2. \A i \in 1..n : m[i] \in DOMAIN p
  BY ElementOfSeq
<1>3. \A i \in 1..n : p[m[i]] \in Seq(All)
  BY <1>2, FilesHoldDeclarations
<1> HIDE DEF n
<1>4. ss \in [1..n -> Seq(All)]
  BY <1>1, <1>3
<1> HIDE DEF ss
<1>5. ss \in Seq(Seq(All)) /\ Len(ss) = n
  BY <1>1, <1>4
<1>6. FlattenSeq(ss) \in Seq(All)
  BY <1>1, <1>4, <1>5, FlattenedProperties
<1>7. p["main"] \in Seq(All)
  BY ProgramsAssumption, FilesHoldDeclarations
<1> QED
  BY <1>6, <1>7, ConcatProperties DEF ss

LEMMA DeclarationsTyped ==
  /\ LoaderOK => Declarations \in Seq(All)
  /\ LoaderOK' => Declarations' \in Seq(All)
BY FlattenedFiles DEF LoaderOK, Files, Declarations

-----------------------------------------------------------------------------
(* Every step keeps the types.                                             *)

Loads == resolveModule \/ NotAnImport \/ EndOfFile
Stops == FileMissing \/ StackExhausted \/ PromptUnreadable \/ InitFailed

LEMMA AdvancedTyped ==
  ASSUME LoaderOK
  PROVE  /\ Advanced \in Seq([file : Files, next : Nat \ {0}])
         /\ Len(Advanced) = Len(frames) /\ frames # <<>>
<1> DEFINE F == [file : Files, next : Nat \ {0}]
           e == [file |-> frames[Len(frames)].file, next |-> frames[Len(frames)].next + 1]
<1>1. frames \in Seq(F) /\ frames # <<>> /\ Len(frames) \in 1..Len(frames)
  BY EmptySeq, LenProperties DEF LoaderOK
<1>2. frames[Len(frames)] \in F
  BY <1>1, ElementOfSeq
<1>3. e \in F
  BY <1>2
<1>4. Advanced = [frames EXCEPT ![Len(frames)] = e]
  <2>1. ASSUME NEW x \in F PROVE [x EXCEPT !.next = @ + 1] = [file |-> x.file, next |-> x.next + 1]
    OBVIOUS
  <2>2. [frames[Len(frames)] EXCEPT !.next = @ + 1] = e
    BY <1>2, <2>1
  <2> HIDE DEF e
  <2> QED
    BY <2>2, Zenon DEF Advanced
<1> HIDE DEF e, F
<1>5. Advanced \in Seq(F) /\ Len(Advanced) = Len(frames)
  BY <1>1, <1>3, <1>4, LastRewritten
<1> QED
  BY <1>1, <1>5 DEF F

LEMMA NextLoader ==
  ASSUME Typed, [Next]_vars
  PROVE  LoaderOK'
<1> DEFINE F == [file : Files, next : Nat \ {0}]
<1> USE DEF Phases, Ended
<1>1. LoaderOK /\ frames \in Seq(F) /\ Len(frames) \in 1..MaxFrames
  BY DEF Typed, LoaderOK
<1>2. CASE resolveModule
  <2>1. Statement.file \in Files
    BY <1>2 DEF resolveModule
  <2>2. PICK f \in Files : f = Statement.file
    BY <2>1
  <2>3. [file |-> f, next |-> 1] \in F
    OBVIOUS
  <2> HIDE DEF F
  <2>4. Advanced \in Seq(F) /\ Len(Advanced) = Len(frames)
    BY <1>1, AdvancedTyped DEF F
  <2>5. frames' = Append(Advanced, [file |-> f, next |-> 1])
    BY <1>2, <2>2 DEF resolveModule, Opened
  <2>6. frames' \in Seq(F) /\ Len(frames') = Len(frames) + 1
    BY <2>3, <2>4, <2>5, AppendProperties
  <2>7. Len(frames) < MaxFrames
    BY <1>2 DEF resolveModule
  <2>8. Len(frames') \in 1..MaxFrames
    BY <1>1, <2>6, <2>7, FramesAssumption
  <2>9. modules' \in Seq(Files)
    <3>1. modules' = Append(modules, f)
      BY <1>2, <2>2 DEF resolveModule, Loaded
    <3> QED
      BY <1>1, <3>1, AppendProperties DEF LoaderOK
  <2> QED
    BY <1>1, <1>2, <2>6, <2>8, <2>9 DEF resolveModule, LoaderOK, Files, F
<1>3. CASE NotAnImport
  BY <1>1, <1>3, AdvancedTyped DEF NotAnImport, LoaderOK, Files
<1>4. CASE EndOfFile
  <2>1. CASE Len(frames) > 1
    <3> HIDE DEF F
    <3>1. frames # <<>>
      BY <1>1, AdvancedTyped
    <3>2. Front(frames) \in Seq(F) /\ Len(Front(frames)) = Len(frames) - 1
      BY <1>1, <3>1, FrontProperties
    <3>3. Len(frames) - 1 \in 1..MaxFrames
      BY <1>1, <2>1, FramesAssumption
    <3> QED
      BY <1>1, <1>4, <2>1, <3>2, <3>3 DEF EndOfFile, LoaderOK, Files, F
  <2>2. CASE ~(Len(frames) > 1)
    BY <1>1, <1>4, <2>2 DEF EndOfFile, LoaderOK, Files
  <2> QED
    BY <2>1, <2>2
<1>5. CASE UNCHANGED <<program, loader>> /\ phase' \in Phases
  BY <1>1, <1>5 DEF LoaderOK, Files, loader
<1>6. CASE Stops
  BY <1>5, <1>6 DEF Stops, FileMissing, StackExhausted, PromptUnreadable, InitFailed, Refuse
<1>7. CASE AnalyzeProgram
  BY <1>5, <1>7 DEF AnalyzeProgram
<1>8. CASE Compile
  BY <1>1, <1>5, <1>6, <1>8 DEF Compile, Stops, compileAgentStmt, compileObject, compileVarDecl,
    compileFunc, compileImport, CompileEnd, LoaderOK
<1>9. CASE Initialize
  BY <1>1, <1>5, <1>6, <1>9 DEF Initialize, Stops, execNop, execAgentDeclare, execAgentGet,
    execAgentValidate, execObject, execStore, InitEnd, Step, LoaderOK
<1>10. CASE agentHashFromStorage
  BY <1>5, <1>10 DEF agentHashFromStorage
<1>11. CASE UNCHANGED vars
  BY <1>1, <1>5, <1>11 DEF vars, LoaderOK
<1> QED
  BY <1>2, <1>3, <1>4, <1>6, <1>7, <1>8, <1>9, <1>10, <1>11 DEF Next, Resolve, Stops

LEMMA BlocksPaired ==
  ASSUME NEW a, NEW n, NEW e, NEW o, NEW s
  PROVE  /\ LET b == <<[op |-> "AGENT_DECLARE", agent |-> a], [op |-> "AGENT_GET", name |-> n],
                       [op |-> "AGENT_VALIDATE", version |-> e], [op |-> "STORE", slot |-> s]>>
            IN  Paired(b) /\ ~Waiting(b)
         /\ LET b == <<[op |-> "OBJECT", object |-> o], [op |-> "STORE", slot |-> s]>>
            IN  Paired(b) /\ ~Waiting(b)
         /\ Paired(<<[op |-> "ERR"]>>) /\ ~Waiting(<<[op |-> "ERR"]>>)
         /\ Paired(<<[op |-> "NOP"]>>) /\ ~Waiting(<<[op |-> "NOP"]>>)
         /\ Paired(<<>>) /\ ~Waiting(<<>>)
<1> DEFINE b4 == <<[op |-> "AGENT_DECLARE", agent |-> a], [op |-> "AGENT_GET", name |-> n],
                   [op |-> "AGENT_VALIDATE", version |-> e], [op |-> "STORE", slot |-> s]>>
           b2 == <<[op |-> "OBJECT", object |-> o], [op |-> "STORE", slot |-> s]>>
<1>1. Paired(b4) /\ ~Waiting(b4)
  <2>1. /\ Len(b4) = 4 /\ b4[1].op = "AGENT_DECLARE" /\ b4[2].op = "AGENT_GET"
        /\ b4[3].op = "AGENT_VALIDATE" /\ b4[4].op = "STORE"
    OBVIOUS
  <2> HIDE DEF b4
  <2>2. \A j \in 1..4 : j = 1 \/ j = 2 \/ j = 3 \/ j = 4
    OBVIOUS
  <2>3. 1 < 4 /\ 2 < 4 /\ 3 < 4 /\ ~(4 < 4) /\ 1 + 1 = 2 /\ 2 + 1 = 3 /\ 3 + 1 = 4
    OBVIOUS
  <2> QED
    BY <2>1, <2>2, <2>3 DEF Paired, Waiting, Gives, Takes
<1>2. Paired(b2) /\ ~Waiting(b2)
  <2>1. Len(b2) = 2 /\ b2[1].op = "OBJECT" /\ b2[2].op = "STORE"
    OBVIOUS
  <2> HIDE DEF b2
  <2>2. \A j \in 1..2 : j = 1 \/ j = 2
    OBVIOUS
  <2> QED
    BY <2>1, <2>2 DEF Paired, Waiting, Gives, Takes
<1>3. \A x : x.op \notin Gives /\ x.op \notin Takes => Paired(<<x>>) /\ ~Waiting(<<x>>)
  BY DEF Paired, Waiting
<1>4. [op |-> "ERR"].op \notin Gives \cup Takes /\ [op |-> "NOP"].op \notin Gives \cup Takes
  BY DEF Gives, Takes
<1>5. Paired(<<>>) /\ ~Waiting(<<>>)
  BY DEF Paired, Waiting
<1> HIDE DEF b4, b2
<1> QED
  BY <1>1, <1>2, <1>3, <1>4, <1>5 DEF b4, b2

\* The code that each declaration emits, with what it stands for.
Block(d, s) ==
  IF d.kind = "agent"
  THEN <<[op |-> "AGENT_DECLARE", agent |-> d], [op |-> "AGENT_GET", name |-> d.name],
         [op |-> "AGENT_VALIDATE", version |-> d.version], [op |-> "STORE", slot |-> s]>>
  ELSE <<[op |-> "OBJECT", object |-> Object(d.kind, FieldsOf(d))], [op |-> "STORE", slot |-> s]>>

LEMMA BlockTyped ==
  ASSUME NEW d \in All, NEW s \in Nat \ {0}
  PROVE  /\ Block(d, s) \in Seq(Instructions)
         /\ <<[op |-> "ERR"]>> \in Seq(Instructions) /\ <<[op |-> "NOP"]>> \in Seq(Instructions)
         /\ Paired(Block(d, s)) /\ ~Waiting(Block(d, s))
<1>1. /\ [op |-> "NOP"] \in Instructions /\ [op |-> "ERR"] \in Instructions
      /\ [op |-> "AGENT_DECLARE", agent |-> d] \in Instructions
      /\ [op |-> "AGENT_GET", name |-> d.name] \in Instructions
      /\ [op |-> "AGENT_VALIDATE", version |-> d.version] \in Instructions
      /\ [op |-> "OBJECT", object |-> Object(d.kind, FieldsOf(d))] \in Instructions
      /\ [op |-> "STORE", slot |-> s] \in Instructions
  BY DEF Instructions
<1>2. Block(d, s) \in Seq(Instructions)
  BY <1>1, ShortSequences DEF Block
<1>3. Paired(Block(d, s)) /\ ~Waiting(Block(d, s))
  BY BlocksPaired DEF Block
<1> QED
  BY <1>1, <1>2, <1>3, ShortSequences

\* A step of the compiler reaches one declaration: it emits the block of one that
\* has a slot, after an error if a variable is declared again, makes room for a
\* function, or marks an import.
Gets(d) ==
  /\ d.kind \in Slotted
  /\ AllocSlot(d.name)
  /\ code' = code \o Block(d, nextSlot) \/ code' = (code \o <<[op |-> "ERR"]>>) \o Block(d, nextSlot)
  /\ info' = IF d.kind = "agent" THEN InfoOf(d) ELSE info
Skips(d) ==
  /\ d.kind \notin Slotted
  /\ UNCHANGED <<symbols, info>>
  /\ \/ d.kind = "fn" /\ d.slots \in Nat /\ nextSlot' = nextSlot + d.slots /\ code' = code
     \/ d.kind # "fn" /\ nextSlot' = nextSlot /\ code' = code \o <<[op |-> "NOP"]>>

LEMMA CompileStep ==
  ASSUME Typed, Compile, ~PromptUnreadable, ~CompileEnd
  PROVE  /\ phase = "compiling" /\ queue # <<>> /\ queue' = Tail(queue) /\ Head(queue) \in All
         /\ UNCHANGED <<program, phase, loader, machine>>
         /\ Gets(Head(queue)) \/ Skips(Head(queue))
<1> DEFINE d == Head(queue)
<1>1. /\ phase = "compiling" /\ queue # <<>> /\ queue' = Tail(queue)
      /\ UNCHANGED <<program, phase, loader, machine>>
  BY DEF Compile, compileAgentStmt, compileObject, compileVarDecl, compileFunc, compileImport,
    Compiling
<1>2. d \in All /\ code \in Seq(Instructions) /\ nextSlot \in Nat \ {0}
  BY <1>1, HeadTailProperties DEF Typed, CompilerOK
<1>3. CASE compileAgentStmt
  <2>1. /\ d.kind = "agent" /\ AllocSlot(d.name) /\ info' = InfoOf(d)
        /\ code' = code \o Block(d, nextSlot)
    BY <1>3 DEF compileAgentStmt, Compiling, Emit, Block
  <2> QED
    BY <1>1, <1>2, <2>1 DEF Gets, Slotted
<1>4. CASE compileObject
  <2>1. /\ d.kind \in {"policy", "type"} /\ AllocSlot(d.name) /\ info' = info
        /\ code' = code \o Block(d, nextSlot)
    BY <1>4 DEF compileObject, Compiling, Emit, Block
  <2> QED
    BY <1>1, <1>2, <2>1 DEF Gets, Slotted
<1>5. CASE compileVarDecl
  <2>1. /\ d.kind = "let" /\ AllocSlot(d.name) /\ info' = info
        /\ code' = code \o ((IF d.name \in DOMAIN symbols THEN <<[op |-> "ERR"]>> ELSE <<>>) \o
                            Block(d, nextSlot))
    BY <1>5 DEF compileVarDecl, Compiling, Emit, Block
  <2>2. Block(d, nextSlot) \in Seq(Instructions) /\ <<[op |-> "ERR"]>> \in Seq(Instructions)
    BY <1>2, BlockTyped
  <2> HIDE DEF d
  <2>3. code' = code \o Block(d, nextSlot) \/ code' = (code \o <<[op |-> "ERR"]>>) \o Block(d, nextSlot)
    <3> DEFINE b == Block(d, nextSlot)
               e == <<[op |-> "ERR"]>>
    <3> HIDE DEF b, e
    <3>1. b \in Seq(Instructions) /\ e \in Seq(Instructions)
      BY <2>2 DEF b, e
    <3>2. code' = code \o (<<>> \o b) \/ code' = code \o (e \o b)
      BY <2>1 DEF b, e
    <3>3. <<>> \o b = b /\ code \o (e \o b) = (code \o e) \o b
      BY <1>2, <3>1, ConcatEmptySeq, ConcatAssociative
    <3> QED
      BY <3>2, <3>3 DEF b, e
  <2> QED
    BY <1>1, <1>2, <2>1, <2>3 DEF Gets, Slotted, d
<1>6. CASE compileFunc
  <2>1. d.kind = "fn"
    BY <1>6 DEF compileFunc, Compiling
  <2>2. d.slots \in Nat
    BY <1>2, <2>1, ProgramsAssumption DEF All
  <2>3. UNCHANGED <<symbols, code, info>> /\ nextSlot' = nextSlot + d.slots
    BY <1>6 DEF compileFunc
  <2> HIDE DEF d
  <2>4. Skips(d)
    BY <2>1, <2>2, <2>3 DEF Skips, Slotted
  <2> QED
    BY <1>1, <1>2, <2>4 DEF d
<1>7. CASE compileImport
  <2>1. d.kind = "import" /\ UNCHANGED <<symbols, nextSlot, info>> /\ code' = code \o <<[op |-> "NOP"]>>
    BY <1>7 DEF compileImport, Compiling, Emit
  <2> QED
    BY <1>1, <1>2, <2>1 DEF Skips, Slotted
<1> QED
  BY <1>3, <1>4, <1>5, <1>6, <1>7 DEF Compile

LEMMA NextCompiler ==
  ASSUME Typed, [Next]_vars
  PROVE  CompilerOK'
<1>1. CompilerOK /\ LoaderOK
  BY DEF Typed
<1>2. CASE Resolve
  <2>1. UNCHANGED <<compiler, code>> /\ (phase \in {"resolving", "analyzing"})
    BY <1>2 DEF Resolve, resolveModule, NotAnImport, EndOfFile, FileMissing, StackExhausted, Refuse
  <2> QED
    BY <1>1, <2>1 DEF CompilerOK, compiler
<1>3. CASE AnalyzeProgram
  <2>1. Declarations \in Seq(All)
    BY <1>1, DeclarationsTyped
  <2>2. phase' \notin {"resolving", "analyzing"}
    BY <1>3 DEF AnalyzeProgram
  <2> QED
    BY <1>1, <1>3, <2>1, <2>2 DEF AnalyzeProgram, CompilerOK
<1>4. CASE PromptUnreadable \/ CompileEnd
  BY <1>1, <1>4 DEF PromptUnreadable, CompileEnd, Refuse, CompilerOK, compiler
<1>5. CASE Compile /\ ~PromptUnreadable /\ ~CompileEnd
  <2> DEFINE d == Head(queue)
  <2>1. /\ phase' = "compiling" /\ queue # <<>> /\ queue' = Tail(queue) /\ d \in All
        /\ (Gets(d) \/ Skips(d))
    BY <1>5, CompileStep
  <2>2. queue' \in Seq(All)
    BY <1>1, <2>1, HeadTailProperties DEF CompilerOK
  <2>3. code \in Seq(Instructions) /\ nextSlot \in Nat \ {0}
    BY <1>1 DEF CompilerOK
  <2>4. /\ Block(d, nextSlot) \in Seq(Instructions)
        /\ <<[op |-> "ERR"]>> \in Seq(Instructions) /\ <<[op |-> "NOP"]>> \in Seq(Instructions)
    BY <2>1, <2>3, BlockTyped
  <2> HIDE DEF d
  <2>5. CASE Gets(d)
    <3>1. nextSlot' = nextSlot + 1 /\ symbols' = Bound(d.name)
      BY <2>5 DEF Gets, AllocSlot
    <3>2. \A m \in DOMAIN symbols' : symbols'[m] = nextSlot \/ symbols'[m] \in 1..(nextSlot - 1)
      BY <1>1, <3>1 DEF Bound, CompilerOK
    <3>3. \A s : s = nextSlot \/ s \in 1..(nextSlot - 1) => s \in 1..(nextSlot' - 1)
      BY <2>3, <3>1
    <3>4. code' \in Seq(Instructions)
      <4> DEFINE b == Block(d, nextSlot)
                 e == <<[op |-> "ERR"]>>
      <4> HIDE DEF b, e
      <4>1. b \in Seq(Instructions) /\ e \in Seq(Instructions)
        BY <2>4 DEF b, e
      <4>2. code' = code \o b \/ code' = (code \o e) \o b
        BY <2>5 DEF Gets, b, e
      <4>3. code \o e \in Seq(Instructions)
        BY <2>3, <4>1, ConcatProperties
      <4>4. code \o b \in Seq(Instructions) /\ (code \o e) \o b \in Seq(Instructions)
        BY <2>3, <4>1, <4>3, ConcatProperties
      <4> QED
        BY <4>2, <4>4
    <3>5. nextSlot' \in Nat \ {0}
      BY <2>3, <3>1
    <3> QED
      BY <2>1, <2>2, <3>2, <3>3, <3>4, <3>5 DEF CompilerOK
  <2>6. CASE Skips(d)
    <3>1. PICK k \in Nat : nextSlot' = nextSlot + k
      <4>1. nextSlot' = nextSlot => nextSlot' = nextSlot + 0
        BY <2>3
      <4>2. nextSlot' = nextSlot \/ (d.slots \in Nat /\ nextSlot' = nextSlot + d.slots)
        BY <2>6 DEF Skips
      <4> QED
        BY <4>1, <4>2
    <3>2. nextSlot' \in Nat \ {0} /\ \A s \in 1..(nextSlot - 1) : s \in 1..(nextSlot' - 1)
      BY <2>3, <3>1
    <3>3. code' \in Seq(Instructions) /\ symbols' = symbols
      BY <2>3, <2>4, <2>6, ConcatProperties DEF Skips
    <3> QED
      BY <1>1, <2>1, <2>2, <3>2, <3>3 DEF CompilerOK
  <2> QED
    BY <2>1, <2>5, <2>6
<1>6. CASE Initialize
  <2>1. UNCHANGED compiler /\ phase' \notin {"resolving", "analyzing"}
    BY <1>6 DEF Initialize, execNop, execAgentDeclare, execAgentGet, execAgentValidate, execObject,
      execStore, InitFailed, InitEnd, Refuse, Step, Executes
  <2>2. code' = code \/ (code # <<>> /\ code' = Tail(code))
    BY <1>6 DEF Initialize, execNop, execAgentDeclare, execAgentGet, execAgentValidate, execObject,
      execStore, InitFailed, InitEnd, Refuse, Step, Executes
  <2>3. code' \in Seq(Instructions)
    BY <1>1, <2>2, HeadTailProperties DEF CompilerOK
  <2> QED
    BY <1>1, <2>1, <2>3 DEF CompilerOK, compiler
<1>7. CASE agentHashFromStorage
  BY <1>1, <1>7 DEF agentHashFromStorage, CompilerOK, compiler
<1>8. CASE UNCHANGED vars
  BY <1>1, <1>8 DEF vars, compiler, CompilerOK
<1> QED
  BY <1>2, <1>3, <1>4, <1>5, <1>6, <1>7, <1>8 DEF Next

-----------------------------------------------------------------------------
(* The machine.                                                            *)

LEMMA ValueFields ==
  ASSUME NEW v \in Values
  PROVE  /\ v = [kind |-> v.kind, name |-> v.name, version |-> v.version, hash |-> v.hash]
         /\ AgentData(v) = [kind |-> "agent", name |-> v.name, version |-> v.version, hash |-> v.hash]
         /\ AgentData(v) \in Values
<1>1. \A k, f : Object(k, f) = [kind |-> k, name |-> f.name, version |-> f.version, hash |-> f.hash]
  BY DEF Object
<1>2. ASSUME NEW w \in Objects
      PROVE  w = [kind |-> w.kind, name |-> w.name, version |-> w.version, hash |-> w.hash]
  <2>1. PICK k, f : w = Object(k, f)
    BY DEF Objects, Registry, This
  <2> QED
    BY <1>1, <2>1
<1>3. ASSUME NEW k, NEW n, NEW e, NEW h
      PROVE  AgentData([kind |-> k, name |-> n, version |-> e, hash |-> h])
               = [kind |-> "agent", name |-> n, version |-> e, hash |-> h]
  BY DEF AgentData
<1>4. \A w \in Objects :
        AgentData(w) = [kind |-> "agent", name |-> w.name, version |-> w.version, hash |-> w.hash]
  <2> TAKE w \in Objects
  <2>1. PICK k, n, e, h : w = [kind |-> k, name |-> n, version |-> e, hash |-> h]
    BY <1>2
  <2> QED
    BY <1>3, <2>1
<1>5. CASE v \in Objects
  BY <1>2, <1>4, <1>5 DEF Values
<1>6. CASE \E w \in Objects : v = AgentData(w)
  <2>1. PICK w \in Objects : v = AgentData(w)
    BY <1>6
  <2>2. v = [kind |-> "agent", name |-> w.name, version |-> w.version, hash |-> w.hash]
    BY <1>4, <2>1
  <2>3. AgentData(v) = v
    BY <1>3, <2>2
  <2> QED
    BY <2>2, <2>3
<1> QED
  BY <1>5, <1>6 DEF Values

LEMMA InstructionFields ==
  ASSUME NEW i \in Instructions
  PROVE  /\ i.op = "AGENT_DECLARE" => i.agent \in All
         /\ i.op = "AGENT_GET" => \E d \in All : i.name = d.name
         /\ i.op = "OBJECT" => \E d \in All : i.object = Object(d.kind, FieldsOf(d))
         /\ i.op = "STORE" => i.slot \in Nat \ {0}
BY DEF Instructions

LEMMA StackOfOne ==
  ASSUME NEW v
  PROVE  Last(<<v>>) = v /\ Front(<<v>>) = <<>> /\ Append(<<>>, v) = <<v>> /\ <<v>> # <<>>
BY DEF Last, Front

LEMMA PutProperties ==
  ASSUME NEW k, NEW v
  PROVE  /\ DOMAIN Put(k, v) = DOMAIN storage \cup {k}
         /\ Put(k, v)[k] = v
         /\ \A j \in DOMAIN storage : j # k => Put(k, v)[j] = storage[j]
BY DEF Put

LEMMA RegistryKeyTyped ==
  ASSUME MachineOK
  PROVE  RegistryKey \in Nat \ {0} /\ RegistryKey = Cardinality(DOMAIN storage) + 1
<1>1. Cardinality(DOMAIN storage) \in Nat
  BY FS_CardinalityType DEF MachineOK
<1> QED
  BY <1>1 DEF RegistryKey

\* The operand an instruction finds, and that none is left when it finds none.
LEMMA Operand ==
  ASSUME Typed, code # <<>>
  PROVE  /\ Head(code) \in Instructions /\ Head(code) = code[1]
         /\ Head(code).op \in Takes => \E v \in Values : stack = <<v>>
         /\ Head(code).op \notin Takes => stack = <<>>
<1>1. code \in Seq(Instructions) /\ MachineOK /\ StackFits
  BY DEF Typed, CompilerOK
<1>2. Head(code) \in Instructions /\ Head(code) = code[1]
  BY <1>1, HeadTailProperties
<1> QED
  BY <1>1, <1>2 DEF MachineOK, StackFits, Waiting

LEMMA NextMachine ==
  ASSUME Typed, [Next]_vars
  PROVE  MachineOK'
<1>1. MachineOK
  BY DEF Typed
<1>2. CASE UNCHANGED machine /\ (phase' = phase \/ phase \notin {"initializing", "hashing"} \cup Ended
                                  \/ phase' \notin {"resolving", "analyzing", "compiling"})
  BY <1>1, <1>2, NextLoader DEF MachineOK, machine, Typed, LoaderOK, Phases
<1>3. CASE Resolve
  BY <1>2, <1>3 DEF Resolve, resolveModule, NotAnImport, EndOfFile, FileMissing, StackExhausted,
    Refuse, Ended
<1>4. CASE AnalyzeProgram
  BY <1>2, <1>4 DEF AnalyzeProgram, Ended
<1>5. CASE Compile
  BY <1>2, <1>5 DEF Compile, compileAgentStmt, compileObject, compileVarDecl, compileFunc,
    compileImport, PromptUnreadable, CompileEnd, Refuse
<1>6. CASE Initialize
  <2>1. CASE execNop \/ InitFailed \/ InitEnd
    BY <1>2, <2>1 DEF execNop, InitFailed, InitEnd, Refuse, Step
  <2> SUFFICES ASSUME ~(execNop \/ InitFailed \/ InitEnd) PROVE MachineOK'
    BY <2>1
  <2>2. /\ phase' = "initializing" /\ code # <<>>
        /\ Head(code) \in Instructions
        /\ Head(code).op \in Takes => \E v \in Values : stack = <<v>>
        /\ Head(code).op \notin Takes => stack = <<>>
    BY <1>6, Operand DEF Initialize, execAgentDeclare, execAgentGet, execAgentValidate,
      execObject, execStore, Step, Executes
  <2>3. ASSUME NEW k \in Nat, NEW v \in Values, storage' = Put(k, v),
               stack' = <<>> \/ \E w \in Values : stack' = <<w>>
        PROVE  MachineOK'
    <3>1. DOMAIN storage' = DOMAIN storage \cup {k}
      BY <2>3, PutProperties
    <3>2. \A j \in DOMAIN storage' : storage'[j] \in Values
      BY <1>1, <2>3, <3>1, PutProperties DEF MachineOK
    <3>3. IsFiniteSet(DOMAIN storage')
      BY <1>1, <3>1, FS_AddElement DEF MachineOK
    <3> QED
      BY <1>1, <2>2, <2>3, <3>1, <3>2, <3>3 DEF MachineOK
  <2>4. ASSUME NEW v \in Values, stack' = <<v>>, storage' = storage
        PROVE  MachineOK'
    BY <1>1, <2>2, <2>4 DEF MachineOK
  <2>5. CASE execAgentDeclare
    <3>1. RegistryKey \in Nat
      BY <1>1, RegistryKeyTyped
    <3>2. Registry(Head(code).agent) \in Values
      BY <2>2, <2>5, InstructionFields DEF execAgentDeclare, Executes, Values, Objects
    <3>3. storage' = Put(RegistryKey, Registry(Head(code).agent)) /\ stack' = stack
      BY <2>5 DEF execAgentDeclare
    <3> QED
      BY <1>1, <2>3, <3>1, <3>2, <3>3 DEF MachineOK
  <2>6. CASE execAgentGet
    <3>1. stack = <<>>
      BY <2>2, <2>6 DEF execAgentGet, Executes, Takes
    <3>2. PICK k \in DOMAIN storage : stack' = Append(stack, storage[k])
      BY <2>6 DEF execAgentGet, Found
    <3>3. storage[k] \in Values /\ stack' = <<storage[k]>>
      BY <1>1, <3>1, <3>2, StackOfOne DEF MachineOK
    <3> QED
      BY <2>4, <2>6, <3>3 DEF execAgentGet
  <2>7. CASE execAgentValidate
    <3>1. PICK v \in Values : stack = <<v>>
      BY <2>2, <2>7 DEF execAgentValidate, Executes, Takes
    <3>2. stack' = <<AgentData(v)>>
      BY <2>7, <3>1, StackOfOne DEF execAgentValidate
    <3> QED
      BY <2>4, <2>7, <3>2, ValueFields DEF execAgentValidate
  <2>8. CASE execObject
    <3>1. stack = <<>>
      BY <2>2, <2>8 DEF execObject, Executes, Takes
    <3>2. Head(code).object \in Values
      BY <2>2, <2>8, InstructionFields DEF execObject, Executes, Values, Objects
    <3>3. stack' = <<Head(code).object>>
      BY <2>8, <3>1, StackOfOne DEF execObject
    <3> QED
      BY <2>4, <2>8, <3>2, <3>3 DEF execObject
  <2>9. CASE execStore
    <3>1. PICK v \in Values : stack = <<v>>
      BY <2>2, <2>9 DEF execStore, Executes, Takes
    <3>2. stack' = <<>> /\ storage' = Put(Head(code).slot, v)
      BY <2>9, <3>1, StackOfOne DEF execStore
    <3>3. Head(code).slot \in Nat
      BY <2>2, <2>9, InstructionFields DEF execStore, Executes
    <3> QED
      BY <2>3, <3>2, <3>3
  <2> QED
    BY <1>6, <2>5, <2>6, <2>7, <2>8, <2>9 DEF Initialize
<1>7. CASE agentHashFromStorage
  BY <1>2, <1>7 DEF agentHashFromStorage
<1>8. CASE UNCHANGED vars
  BY <1>2, <1>8 DEF vars
<1> QED
  BY <1>3, <1>4, <1>5, <1>6, <1>7, <1>8 DEF Next

-----------------------------------------------------------------------------
(* The code and the stack.                                                 *)

LEMMA TailPositions ==
  ASSUME NEW c \in Seq(Instructions), c # <<>>
  PROVE  /\ Tail(c) \in Seq(Instructions) /\ Len(Tail(c)) = Len(c) - 1
         /\ \A j \in 1..Len(Tail(c)) : j + 1 \in 2..Len(c) /\ Tail(c)[j] = c[j + 1]
         /\ Len(c) \in Nat \ {0} /\ Head(c) = c[1]
<1>1. Len(c) \in Nat \ {0}
  BY EmptySeq
<1>2. Tail(c) \in Seq(Instructions) /\ Len(Tail(c)) = Len(c) - 1 /\ Head(c) = c[1]
      /\ \A j \in 1..Len(Tail(c)) : Tail(c)[j] = c[j + 1]
  BY HeadTailProperties
<1> QED
  BY <1>1, <1>2

LEMMA PairedTail ==
  ASSUME NEW c \in Seq(Instructions), c # <<>>, Paired(c)
  PROVE  Paired(Tail(c)) /\ (Waiting(Tail(c)) <=> c[1].op \in Gives)
<1> DEFINE t == Tail(c)
<1>1. /\ t \in Seq(Instructions) /\ Len(t) = Len(c) - 1 /\ Len(c) \in Nat \ {0}
      /\ \A j \in 1..Len(t) : j + 1 \in 1..Len(c) /\ t[j] = c[j + 1]
  BY TailPositions
<1> HIDE DEF t
<1>2. ASSUME NEW j \in 1..Len(t)
      PROVE  t[j].op \in Gives <=> j < Len(t) /\ t[j + 1].op \in Takes
  <2>1. j + 1 \in 1..Len(c) /\ t[j] = c[j + 1]
    BY <1>1
  <2>2. t[j].op \in Gives <=> j + 1 < Len(c) /\ c[(j + 1) + 1].op \in Takes
    BY <2>1 DEF Paired
  <2>3. j + 1 < Len(c) <=> j < Len(t)
    BY <1>1, <2>1
  <2>4. j < Len(t) => j + 1 \in 1..Len(t)
    BY <1>1
  <2>5. j < Len(t) => t[j + 1] = c[(j + 1) + 1]
    BY <1>1, <2>4
  <2> QED
    BY <2>2, <2>3, <2>5
<1>3. c[1].op \in Gives <=> 1 < Len(c) /\ c[1 + 1].op \in Takes
  BY <1>1 DEF Paired
<1>4. t # <<>> <=> Len(t) # 0
  BY <1>1, EmptySeq
<1>5. Len(t) # 0 => 1 \in 1..Len(t) /\ t[1] = c[1 + 1] /\ 1 < Len(c)
  BY <1>1
<1>6. 1 < Len(c) => Len(t) # 0
  BY <1>1
<1>7. Waiting(t) <=> c[1].op \in Gives
  BY <1>3, <1>4, <1>5, <1>6 DEF Waiting
<1> QED
  BY <1>2, <1>7 DEF Paired, t

LEMMA PairedAppended ==
  ASSUME NEW c \in Seq(Instructions), Paired(c), NEW b \in Seq(Instructions), Paired(b),
         ~Waiting(b), ~Waiting(c)
  PROVE  Paired(c \o b) /\ ~Waiting(c \o b)
<1> DEFINE e == c \o b
<1>1. /\ e \in Seq(Instructions) /\ Len(e) = Len(c) + Len(b)
      /\ \A i \in 1..Len(c) : e[i] = c[i]
      /\ \A i \in 1..Len(e) : i > Len(c) => i - Len(c) \in 1..Len(b) /\ e[i] = b[i - Len(c)]
      /\ Len(c) \in Nat /\ Len(b) \in Nat
  BY ExtendedProperties, LenProperties
<1> HIDE DEF e
<1>2. Len(b) > 0 => b[1].op \notin Takes
  BY EmptySeq DEF Waiting
<1>3. ASSUME NEW j \in 1..Len(e)
      PROVE  e[j].op \in Gives <=> j < Len(e) /\ e[j + 1].op \in Takes
  <2>1. CASE j < Len(c)
    <3>1. j \in 1..Len(c) /\ j + 1 \in 1..Len(c) /\ j < Len(e)
      BY <1>1, <2>1
    <3> QED
      BY <1>1, <2>1, <3>1 DEF Paired
  <2>2. CASE j = Len(c)
    <3>1. e[j].op \notin Gives
      BY <1>1, <2>2 DEF Paired
    <3>2. CASE j < Len(e)
      <4>1. j + 1 \in 1..Len(e) /\ j + 1 > Len(c) /\ (j + 1) - Len(c) = 1 /\ Len(b) > 0
        BY <1>1, <2>2, <3>2
      <4> QED
        BY <1>1, <1>2, <3>1, <4>1
    <3> QED
      BY <3>1, <3>2
  <2>3. CASE j > Len(c)
    <3> DEFINE i == j - Len(c)
    <3>1. i \in 1..Len(b) /\ e[j] = b[i] /\ (j < Len(e) <=> i < Len(b))
      BY <1>1, <2>3
    <3>2. j < Len(e) => e[j + 1] = b[i + 1]
      <4>1. j < Len(e) => j + 1 \in 1..Len(e) /\ j + 1 > Len(c) /\ (j + 1) - Len(c) = i + 1
        BY <1>1, <2>3
      <4> QED
        BY <1>1, <4>1
    <3> HIDE DEF i
    <3>3. b[i].op \in Gives <=> i < Len(b) /\ b[i + 1].op \in Takes
      BY <3>1 DEF Paired
    <3> QED
      BY <3>1, <3>2, <3>3
  <2> QED
    BY <1>1, <2>1, <2>2, <2>3
<1>4. ~Waiting(e)
  <2> SUFFICES ASSUME e # <<>> PROVE e[1].op \notin Takes
    BY DEF Waiting
  <2>1. 1 \in 1..Len(e)
    BY <1>1, EmptySeq
  <2>2. CASE Len(c) > 0
    BY <1>1, <2>2, EmptySeq DEF Waiting
  <2>3. CASE Len(c) = 0
    BY <1>1, <1>2, <2>1, <2>3
  <2> QED
    BY <1>1, <2>2, <2>3
<1> QED
  BY <1>3, <1>4 DEF Paired, e


LEMMA NextStackFits ==
  ASSUME Typed, [Next]_vars
  PROVE  StackFits'
<1>1. Paired(code) /\ (stack # <<>> <=> Waiting(code)) /\ code \in Seq(Instructions)
  BY DEF Typed, StackFits, CompilerOK
<1>2. CASE UNCHANGED <<code, stack>>
  BY <1>1, <1>2 DEF StackFits, Paired, Waiting
<1>3. CASE Resolve \/ AnalyzeProgram
  BY <1>2, <1>3 DEF Resolve, resolveModule, NotAnImport, EndOfFile, FileMissing, StackExhausted,
    Refuse, AnalyzeProgram, machine
<1>4. CASE PromptUnreadable \/ CompileEnd \/ InitFailed \/ InitEnd
  BY <1>2, <1>4 DEF PromptUnreadable, CompileEnd, InitFailed, InitEnd, Refuse, machine
<1>5. CASE Compile /\ ~PromptUnreadable /\ ~CompileEnd
  <2> DEFINE d == Head(queue)
  <2>1. /\ phase = "compiling" /\ d \in All /\ stack' = stack
        /\ Gets(d) \/ Skips(d)
    BY <1>5, CompileStep DEF machine
  <2>2. stack = <<>> /\ ~Waiting(code) /\ nextSlot \in Nat \ {0}
    BY <1>1, <2>1 DEF Typed, MachineOK, CompilerOK
  <2>3. /\ Block(d, nextSlot) \in Seq(Instructions)
        /\ <<[op |-> "ERR"]>> \in Seq(Instructions) /\ <<[op |-> "NOP"]>> \in Seq(Instructions)
        /\ Paired(Block(d, nextSlot)) /\ ~Waiting(Block(d, nextSlot))
    BY <2>1, <2>2, BlockTyped
  <2>4. /\ Paired(<<[op |-> "ERR"]>>) /\ ~Waiting(<<[op |-> "ERR"]>>)
        /\ Paired(<<[op |-> "NOP"]>>) /\ ~Waiting(<<[op |-> "NOP"]>>)
    BY BlocksPaired
  <2> DEFINE faulty == code \o <<[op |-> "ERR"]>>
  <2>5. faulty \in Seq(Instructions) /\ Paired(faulty) /\ ~Waiting(faulty)
    BY <1>1, <2>2, <2>3, <2>4, PairedAppended, ConcatProperties
  <2>6. \/ code' = code \/ code' = code \o Block(d, nextSlot) \/ code' = faulty \o Block(d, nextSlot)
        \/ code' = code \o <<[op |-> "NOP"]>>
    BY <2>1 DEF Gets, Skips
  <2> HIDE DEF d, faulty
  <2>7. Paired(code \o Block(d, nextSlot)) /\ ~Waiting(code \o Block(d, nextSlot))
    BY <1>1, <2>2, <2>3, PairedAppended
  <2>8. Paired(faulty \o Block(d, nextSlot)) /\ ~Waiting(faulty \o Block(d, nextSlot))
    BY <2>3, <2>5, PairedAppended
  <2>9. Paired(code \o <<[op |-> "NOP"]>>) /\ ~Waiting(code \o <<[op |-> "NOP"]>>)
    BY <1>1, <2>2, <2>3, <2>4, PairedAppended
  <2>10. PICK c : c = code' /\ Paired(c) /\ ~Waiting(c)
    BY <1>1, <2>2, <2>6, <2>7, <2>8, <2>9
  <2> QED
    BY <2>1, <2>2, <2>10 DEF StackFits, Paired, Waiting
<1>6. CASE Initialize /\ ~InitFailed /\ ~InitEnd
  <2>1. code # <<>> /\ code' = Tail(code)
    BY <1>6 DEF Initialize, execNop, execAgentDeclare, execAgentGet, execAgentValidate, execObject,
      execStore, Step, Executes
  <2>2. /\ Head(code) = code[1]
        /\ Head(code).op \in Takes => \E v \in Values : stack = <<v>>
        /\ Head(code).op \notin Takes => stack = <<>>
    BY <2>1, Operand
  <2>3. stack' # <<>> <=> Head(code).op \in Gives
    BY <1>6, <2>2, StackOfOne DEF Initialize, execNop, execAgentDeclare, execAgentGet,
      execAgentValidate, execObject, execStore, Executes, machine, Gives, Takes
  <2>4. PICK c : c = code' /\ Paired(c) /\ (Waiting(c) <=> Head(code).op \in Gives)
    BY <1>1, <2>1, <2>2, PairedTail
  <2> QED
    BY <2>3, <2>4 DEF StackFits, Paired, Waiting
<1>7. CASE agentHashFromStorage \/ UNCHANGED vars
  BY <1>2, <1>7 DEF agentHashFromStorage, vars, machine
<1> QED
  BY <1>3, <1>4, <1>5, <1>6, <1>7 DEF Next, Compile, Initialize

-----------------------------------------------------------------------------

LEMMA InitTyped == Init => Typed
<1> SUFFICES ASSUME Init PROVE Typed
  OBVIOUS
<1>1. LoaderOK
  <2>1. Entry \in [file : Files, next : Nat \ {0}]
    BY ProgramsAssumption DEF Init, Entry, Files
  <2>2. frames \in Seq([file : Files, next : Nat \ {0}]) /\ Len(frames) = 1
    BY <2>1, ShortSequences DEF Init
  <2>3. modules \in Seq(Files)
    BY EmptySeq DEF Init
  <2> QED
    BY <2>2, <2>3, FramesAssumption DEF Init, LoaderOK, Phases
<1>2. CompilerOK
  BY EmptySeq DEF Init, CompilerOK
<1>3. MachineOK
  <2>1. stack = <<>> /\ storage = [k \in {0} |-> This] /\ phase = "resolving"
    BY DEF Init
  <2>2. DOMAIN storage = {0} /\ storage[0] = This
    BY ONLY <2>1
  <2>3. This \in Values
    BY DEF Values, Objects
  <2>4. IsFiniteSet({0})
    BY ONLY FS_Singleton
  <2> QED
    BY ONLY <2>1, <2>2, <2>3, <2>4 DEF MachineOK
<1>4. StackFits
  BY DEF Init, StackFits, Paired, Waiting
<1> QED
  BY <1>1, <1>2, <1>3, <1>4 DEF Typed

LEMMA AlwaysTyped == Spec => []Typed
<1>1. Typed /\ [Next]_vars => Typed'
  BY NextLoader, NextCompiler, NextMachine, NextStackFits DEF Typed
<1> QED
  BY <1>1, InitTyped, PTL DEF Spec

\* Every variable keeps its type: above all, the stack of the top-level code never
\* holds more than the one value that the next instruction takes.
THEOREM DeploymentTypeCorrect == Spec => []TypeOK
BY AlwaysTyped, TypedTypeOK, PTL


-----------------------------------------------------------------------------
(* The compiler takes the declarations in their order.                     *)

Rest(D, q) == Len(q) <= Len(D) /\ \A i \in 1..Len(q) : q[i] = D[Len(D) - Len(q) + i]
QueueFollows == Rest(Declarations, queue)

LEMMA DeclarationsKept ==
  ASSUME [Next]_vars, ~resolveModule
  PROVE  program' = program /\ modules' = modules /\ Declarations' = Declarations
<1>1. program' = program /\ modules' = modules
  BY DEF Next, vars, loader, Resolve, NotAnImport, EndOfFile, FileMissing, StackExhausted, Refuse,
    AnalyzeProgram, Compile, compileAgentStmt, compileObject, compileVarDecl, compileFunc,
    compileImport, PromptUnreadable, CompileEnd, Initialize, execNop, execAgentDeclare, execAgentGet,
    execAgentValidate, execObject, execStore, InitFailed, InitEnd, Step, agentHashFromStorage
<1> QED
  BY <1>1 DEF Declarations

LEMMA NextQueueFollows ==
  ASSUME Typed, QueueFollows, [Next]_vars
  PROVE  QueueFollows'
<1>1. Declarations' \in Seq(All) /\ Declarations \in Seq(All) /\ queue \in Seq(All)
  BY NextLoader, DeclarationsTyped DEF Typed, CompilerOK, LoaderOK
<1>2. PICK D \in Seq(All) : D = Declarations'
  BY <1>1
<1>3. Rest(D, <<>>)
  BY LenProperties DEF Rest
<1>4. CASE resolveModule
  <2>1. queue' = <<>>
    BY <1>4 DEF resolveModule, compiler, Typed, CompilerOK
  <2> QED
    BY <1>2, <1>3, <2>1 DEF QueueFollows, Rest
<1>5. CASE ~resolveModule
  <2>1. D = Declarations /\ Rest(D, queue)
    BY <1>2, <1>5, DeclarationsKept DEF QueueFollows, Rest
  <2>2. CASE queue' = queue
    BY <1>2, <2>1, <2>2 DEF QueueFollows, Rest
  <2>3. CASE AnalyzeProgram
    <3>1. queue' = queue \/ queue' = D
      BY <2>1, <2>3 DEF AnalyzeProgram
    <3>2. Rest(D, D)
      BY LenProperties DEF Rest
    <3> QED
      BY <1>2, <2>2, <3>1, <3>2 DEF QueueFollows, Rest
  <2>4. CASE Compile /\ ~PromptUnreadable /\ ~CompileEnd
    <3>1. queue # <<>> /\ queue' = Tail(queue)
      BY <2>4, CompileStep
    <3>2. PICK t \in Seq(All) : t = queue' /\ Len(t) = Len(queue) - 1
                                /\ \A i \in 1..Len(t) : t[i] = queue[i + 1]
      BY <1>1, <3>1, HeadTailProperties
    <3>3. Rest(D, t)
      <4>1. Len(D) \in Nat /\ Len(queue) \in Nat /\ Len(t) \in Nat
        BY <1>1, LenProperties
      <4>2. \A i \in 1..Len(t) : i + 1 \in 1..Len(queue)
                                 /\ Len(D) - Len(queue) + (i + 1) = Len(D) - Len(t) + i
        BY <3>2, <4>1
      <4> QED
        BY <2>1, <3>2, <4>1, <4>2 DEF Rest
    <3> QED
      BY <1>2, <3>2, <3>3 DEF QueueFollows, Rest
  <2>5. CASE ~AnalyzeProgram /\ ~(Compile /\ ~PromptUnreadable /\ ~CompileEnd)
    <3>1. queue' = queue
      BY <1>5, <2>5 DEF Next, vars, compiler, Resolve, NotAnImport, EndOfFile, FileMissing,
        StackExhausted, Refuse, PromptUnreadable, CompileEnd, Initialize, execNop, execAgentDeclare,
        execAgentGet, execAgentValidate, execObject, execStore, InitFailed, InitEnd, Step,
        agentHashFromStorage
    <3> QED
      BY <2>2, <3>1
  <2> QED
    BY <2>3, <2>4, <2>5
<1> QED
  BY <1>4, <1>5

LEMMA HeadDeclared ==
  ASSUME Typed, QueueFollows, queue # <<>>
  PROVE  /\ Len(Declarations) - Len(queue) + 1 \in 1..Len(Declarations)
         /\ Len(Declarations) - Len(queue) + 1 \in DOMAIN Declarations
         /\ Head(queue) = Declarations[Len(Declarations) - Len(queue) + 1]
         /\ Len(Declarations) \in Nat /\ Len(queue) \in 1..Len(Declarations)
         /\ Len(Tail(queue)) = Len(queue) - 1
<1>1. Declarations \in Seq(All) /\ queue \in Seq(All)
  BY DeclarationsTyped DEF Typed, CompilerOK
<1>2. Len(Declarations) \in Nat /\ Len(queue) \in Nat \ {0} /\ Head(queue) = queue[1]
      /\ DOMAIN Declarations = 1..Len(Declarations) /\ Len(Tail(queue)) = Len(queue) - 1
  BY <1>1, EmptySeq, LenProperties, HeadTailProperties
<1>3. Len(queue) <= Len(Declarations)
  BY DEF QueueFollows, Rest
<1>4. 1 \in 1..Len(queue)
  BY <1>2
<1>5. queue[1] = Declarations[Len(Declarations) - Len(queue) + 1]
  BY <1>4 DEF QueueFollows, Rest
<1> QED
  BY <1>2, <1>3, <1>5

-----------------------------------------------------------------------------
(* The hash of a single agent.                                             *)

One(D) ==
  /\ \A i, j \in DOMAIN D : D[i].kind = "agent" /\ D[j].kind = "agent" => D[i] = D[j]
  /\ \A i \in DOMAIN D : D[i].kind \in {"policy", "type", "let"} => D[i].fields.hash = <<>>

\* No object of the code has a hash, and every agent declared is one of D, the one
\* that i is about.
Harmless(D, i, instr) ==
  /\ instr.op = "OBJECT" => instr.object.hash = <<>>
  /\ instr.op = "AGENT_DECLARE" =>
       /\ Digest(instr.agent) = Digest(i)
       /\ \E k \in DOMAIN D : D[k] = instr.agent /\ D[k].kind = "agent"

Owned(i, v) == v.hash = <<>> \/ v.hash = Digest(i)

HashesOwned ==
  /\ info = [name |-> info.name, version |-> info.version, hash |-> info.hash]
  /\ One(Declarations) =>
       /\ \A j \in 1..Len(code) : Harmless(Declarations, info, code[j])
       /\ \A k \in DOMAIN storage : Owned(info, storage[k])
       /\ \A v : stack = <<v>> => Owned(info, v)
       /\ phase = "deployed" => info.hash = Digest(info)

LEMMA ConcatElements ==
  ASSUME NEW c \in Seq(Instructions), NEW b \in Seq(Instructions)
  PROVE  \A j \in 1..Len(c \o b) :
           (\E k \in 1..Len(c) : (c \o b)[j] = c[k]) \/ (\E k \in 1..Len(b) : (c \o b)[j] = b[k])
<1>1. /\ Len(c \o b) = Len(c) + Len(b) /\ Len(c) \in Nat /\ Len(b) \in Nat
      /\ \A i \in 1..Len(c) : (c \o b)[i] = c[i]
      /\ \A i \in 1..Len(c \o b) : i > Len(c) => i - Len(c) \in 1..Len(b) /\ (c \o b)[i] = b[i - Len(c)]
  BY ExtendedProperties, LenProperties
<1> TAKE j \in 1..Len(c \o b)
<1>2. j \in 1..Len(c) \/ j > Len(c)
  BY <1>1
<1> QED
  BY <1>1, <1>2

\* What a step of the compiler adds to the code.
LEMMA CompiledElements ==
  ASSUME Typed, NEW d \in All, Gets(d) \/ Skips(d)
  PROVE  \A j \in 1..Len(code') :
           \/ \E k \in 1..Len(code) : code'[j] = code[k]
           \/ code'[j].op \in {"ERR", "NOP"}
           \/ Gets(d) /\ \E k \in 1..Len(Block(d, nextSlot)) : code'[j] = Block(d, nextSlot)[k]
<1> DEFINE b == Block(d, nextSlot)
           e == <<[op |-> "ERR"]>>
           n == <<[op |-> "NOP"]>>
<1>1. code \in Seq(Instructions) /\ b \in Seq(Instructions) /\ e \in Seq(Instructions)
      /\ n \in Seq(Instructions)
  BY BlockTyped DEF Typed, CompilerOK
<1>2. \A k \in 1..Len(e) : e[k].op = "ERR"
  OBVIOUS
<1>3. \A k \in 1..Len(n) : n[k].op = "NOP"
  OBVIOUS
<1>4. \/ code' = code \/ code' = code \o n
      \/ Gets(d) /\ (code' = code \o b \/ code' = (code \o e) \o b)
  BY DEF Gets, Skips
<1> HIDE DEF b, e, n
<1>5. code \o e \in Seq(Instructions)
  BY <1>1, ConcatProperties
<1>6. CASE code' = code
  BY <1>6
<1>7. CASE code' = code \o n
  BY <1>1, <1>3, <1>7, ConcatElements
<1>8. CASE Gets(d) /\ code' = code \o b
  BY <1>1, <1>8, ConcatElements DEF b
<1>9. CASE Gets(d) /\ code' = (code \o e) \o b
  <2>1. \A j \in 1..Len(code') :
          (\E k \in 1..Len(code \o e) : code'[j] = (code \o e)[k]) \/ (\E k \in 1..Len(b) : code'[j] = b[k])
    BY <1>1, <1>5, <1>9, ConcatElements
  <2>2. \A m \in 1..Len(code \o e) :
          (\E k \in 1..Len(code) : (code \o e)[m] = code[k]) \/ (\E k \in 1..Len(e) : (code \o e)[m] = e[k])
    BY <1>1, ConcatElements
  <2> QED
    BY <1>2, <1>9, <2>1, <2>2 DEF b
<1> QED
  BY <1>4, <1>6, <1>7, <1>8, <1>9

LEMMA NextHashesOwned ==
  ASSUME Typed, QueueFollows, HashesOwned, [Next]_vars
  PROVE  HashesOwned'
<1>1. PICK D : D = Declarations'
  OBVIOUS
<1>2. PICK i : i = info'
  OBVIOUS
<1> DEFINE Goal == /\ i = [name |-> i.name, version |-> i.version, hash |-> i.hash]
                   /\ One(D) =>
                        /\ \A j \in 1..Len(code') : Harmless(D, i, code'[j])
                        /\ \A k \in DOMAIN storage' : Owned(i, storage'[k])
                        /\ \A v : stack' = <<v>> => Owned(i, v)
                        /\ phase' = "deployed" => i.hash = Digest(i)
<1>3. Goal => HashesOwned'
  BY <1>1, <1>2 DEF HashesOwned, One, Harmless, Owned, Digest
<1>4. info = [name |-> info.name, version |-> info.version, hash |-> info.hash]
  BY DEF HashesOwned
<1>5. This.hash = <<>>
  BY DEF This, Object, NoFields
<1>6. stack = <<>> => \A v : stack # <<v>>
  OBVIOUS
<1>7. CASE phase \in {"resolving", "analyzing"} /\ ~UNCHANGED vars
  <2>1. /\ UNCHANGED <<code, stack, storage, info>> /\ phase' # "deployed"
    BY <1>7 DEF Next, Resolve, resolveModule, NotAnImport, EndOfFile, FileMissing, StackExhausted, Refuse,
      AnalyzeProgram, machine, Compile, compileAgentStmt, compileObject, compileVarDecl, compileFunc,
      compileImport, PromptUnreadable, CompileEnd, Compiling, Initialize, execNop, execAgentDeclare,
      execAgentGet, execAgentValidate, execObject, execStore, Executes, InitFailed, InitEnd,
      agentHashFromStorage
  <2>2. code = <<>> /\ stack = <<>> /\ storage = [k \in {0} |-> This]
    BY <1>7 DEF Typed, CompilerOK, MachineOK
  <2>3. code' = <<>> /\ stack' = <<>> /\ i = info /\ storage' = [k \in {0} |-> This]
    BY <1>2, <2>1, <2>2
  <2>4. Len(code') = 0
    BY <2>3
  <2> QED
    BY <1>3, <1>4, <1>5, <2>1, <2>3, <2>4 DEF Owned
<1>8. CASE UNCHANGED vars
  <2>1. D = Declarations /\ UNCHANGED <<code, stack, storage, info, phase>>
    BY <1>1, <1>8 DEF vars, machine, loader, Declarations
  <2> QED
    BY <1>2, <1>3, <2>1 DEF HashesOwned
<1>9. CASE phase \notin {"resolving", "analyzing"} /\ Next
  <2>1. D = Declarations
    BY <1>1, <1>9, DeclarationsKept DEF resolveModule
  <2>2. ~Resolve /\ ~AnalyzeProgram
    BY <1>9 DEF Resolve, resolveModule, NotAnImport, EndOfFile, FileMissing, StackExhausted,
      AnalyzeProgram
  <2>3. SUFFICES ASSUME One(D) PROVE Goal
    <3>1. i = [name |-> i.name, version |-> i.version, hash |-> i.hash]
      <4>1. CASE info' = info
        BY <1>2, <1>4, <4>1
      <4>2. CASE \E d : info' = InfoOf(d)
        BY <1>2, <4>2 DEF InfoOf
      <4>3. CASE \E h : info' = [info EXCEPT !.hash = h]
        BY <1>2, <1>4, <4>3
      <4> QED
        BY <1>9, <2>2, <4>1, <4>2, <4>3 DEF Next, Compile, compileAgentStmt, compileObject,
          compileVarDecl, compileFunc, compileImport, PromptUnreadable, CompileEnd, Refuse, Initialize,
          execNop, execAgentDeclare, execAgentGet, execAgentValidate, execObject, execStore, InitFailed,
          InitEnd, Step, agentHashFromStorage
    <3> QED
      BY <1>3, <2>3, <3>1
  <2>4. /\ \A j \in 1..Len(code) : Harmless(D, info, code[j])
        /\ \A k \in DOMAIN storage : Owned(info, storage[k])
        /\ \A v : stack = <<v>> => Owned(info, v)
        /\ phase = "deployed" => info.hash = Digest(info)
    BY <2>1, <2>3 DEF HashesOwned
  <2>5. CASE PromptUnreadable \/ CompileEnd \/ InitFailed \/ InitEnd
    <3>1. UNCHANGED <<code, stack, storage, info>> /\ phase' # "deployed"
      BY <2>5 DEF PromptUnreadable, CompileEnd, InitFailed, InitEnd, Refuse, machine
    <3> QED
      BY <1>2, <1>4, <2>4, <3>1
  <2>6. CASE Compile /\ ~PromptUnreadable /\ ~CompileEnd
    <3> DEFINE d == Head(queue)
    <3>1. /\ phase' = "compiling" /\ d \in All /\ UNCHANGED <<stack, storage>>
          /\ Gets(d) \/ Skips(d)
          /\ queue # <<>>
      BY <2>6, CompileStep DEF machine
    <3>2. stack' = <<>> /\ storage' = [k \in {0} |-> This]
      BY <2>6, <3>1, CompileStep DEF Typed, MachineOK
    <3>3. PICK m \in DOMAIN D : d = D[m]
      BY <2>1, <2>6, CompileStep, HeadDeclared
    <3>4. nextSlot \in Nat \ {0}
      BY DEF Typed, CompilerOK
    <3> HIDE DEF d
    <3>5. i = [name |-> i.name, version |-> i.version, hash |-> i.hash]
      BY <1>2, <1>4, <3>1 DEF Gets, Skips, InfoOf
    <3>6. d.kind = "agent" /\ Gets(d) => Digest(i) = Digest(d)
      BY <1>2 DEF Gets, InfoOf, Digest
    <3>7. ~(d.kind = "agent" /\ Gets(d)) => i = info
      BY <1>2, <3>1 DEF Gets, Skips
    <3>8. ASSUME NEW k \in 1..Len(code)
          PROVE  Harmless(D, i, code[k])
      <4>1. Harmless(D, info, code[k])
        BY <2>4
      <4>2. CASE d.kind = "agent" /\ Gets(d)
        <5>1. code[k].op = "AGENT_DECLARE" => code[k].agent = d
          BY <2>3, <3>3, <4>1, <4>2 DEF Harmless, One
        <5> QED
          BY <3>6, <4>1, <4>2, <5>1 DEF Harmless
      <4> QED
        BY <3>7, <4>1, <4>2
    <3>9. ASSUME Gets(d), NEW k \in 1..Len(Block(d, nextSlot))
          PROVE  Harmless(D, i, Block(d, nextSlot)[k])
      <4>1. CASE d.kind = "agent"
        <5>1. /\ Block(d, nextSlot)[k].op # "OBJECT"
              /\ Block(d, nextSlot)[k].op = "AGENT_DECLARE" => Block(d, nextSlot)[k].agent = d
          BY <3>9, <4>1 DEF Block
        <5> QED
          BY <3>3, <3>6, <3>9, <4>1, <5>1 DEF Harmless
      <4>2. CASE d.kind # "agent"
        <5>1. d.fields.hash = <<>>
          BY <2>3, <3>3, <3>9, <4>2 DEF One, Gets, Slotted
        <5>2. Object(d.kind, FieldsOf(d)).hash = <<>>
          BY <5>1 DEF Object, FieldsOf
        <5>3. /\ Block(d, nextSlot)[k].op # "AGENT_DECLARE"
              /\ Block(d, nextSlot)[k].op = "OBJECT" =>
                   Block(d, nextSlot)[k].object = Object(d.kind, FieldsOf(d))
          BY <3>9, <4>2 DEF Block
        <5> QED
          BY <5>2, <5>3 DEF Harmless
      <4> QED
        BY <4>1, <4>2
    <3>10. \A x : x.op \in {"ERR", "NOP"} => Harmless(D, i, x)
      BY DEF Harmless
    <3>11. \A j \in 1..Len(code') : Harmless(D, i, code'[j])
      BY <3>1, <3>8, <3>9, <3>10, CompiledElements
    <3> QED
      BY <1>5, <3>1, <3>2, <3>5, <3>11 DEF Owned
  <2>7. CASE Initialize /\ ~InitFailed /\ ~InitEnd
    <3>1. code # <<>> /\ code' = Tail(code) /\ info' = info /\ phase' # "deployed"
      BY <2>7 DEF Initialize, execNop, execAgentDeclare, execAgentGet, execAgentValidate, execObject,
        execStore, Step, Executes
    <3>2. code \in Seq(Instructions) /\ i = info
      BY <1>2, <3>1 DEF Typed, CompilerOK
    <3>3. \A j \in 1..Len(code') : Harmless(D, i, code'[j])
      <4>1. \A j \in 1..Len(code') : j + 1 \in 1..Len(code) /\ code'[j] = code[j + 1]
        BY <3>1, <3>2, TailPositions
      <4> QED
        BY <2>4, <3>2, <4>1
    <3>4. /\ Head(code) = code[1] /\ Harmless(D, i, Head(code))
          /\ Head(code).op \in Takes => \E v \in Values : stack = <<v>>
          /\ Head(code).op \notin Takes => stack = <<>>
      <4>1. 1 \in 1..Len(code) /\ Head(code) = code[1]
        BY <3>1, <3>2, TailPositions
      <4> QED
        BY <2>4, <3>1, <3>2, <4>1, Operand
    <3>5. ASSUME NEW k, NEW w, Owned(i, w), storage' = Put(k, w), stack' = <<>> \/ stack' = stack
          PROVE  Goal
      <4>1. \A j \in DOMAIN storage' : Owned(i, storage'[j])
        <5>1. /\ DOMAIN storage' = DOMAIN storage \cup {k} /\ storage'[k] = w
              /\ \A j \in DOMAIN storage : j # k => storage'[j] = storage[j]
          BY ONLY storage' = Put(k, w) DEF Put
        <5> QED
          BY <2>4, <3>2, <3>5, <5>1
      <4>2. \A v : stack' = <<v>> => Owned(i, v)
        BY <2>4, <3>2, <3>5
      <4> QED
        BY <1>4, <3>1, <3>2, <3>3, <4>1, <4>2
    <3>6. ASSUME NEW w, Owned(i, w), storage' = storage, stack' = <<w>>
          PROVE  Goal
      <4>1. \A v : stack' = <<v>> => v = w
        BY <3>6
      <4> QED
        BY <1>4, <2>4, <3>1, <3>2, <3>3, <3>6, <4>1
    <3>7. CASE execNop
      BY <1>4, <2>4, <3>1, <3>2, <3>3, <3>7 DEF execNop, machine
    <3>8. CASE execAgentDeclare
      <4>1. Registry(Head(code).agent).hash = Digest(i)
        BY <3>4, <3>8 DEF execAgentDeclare, Executes, Harmless, Registry, Object
      <4> QED
        BY <3>5, <3>8, <4>1 DEF execAgentDeclare, Owned
    <3>9. CASE execAgentGet
      <4>1. PICK k \in DOMAIN storage : stack' = Append(stack, storage[k])
        BY <3>9 DEF execAgentGet, Found
      <4>2. stack' = <<storage[k]>>
        BY <3>4, <3>9, <4>1, StackOfOne DEF execAgentGet, Executes, Takes
      <4> QED
        BY <2>4, <3>2, <3>6, <3>9, <4>2 DEF execAgentGet
    <3>10. CASE execAgentValidate
      <4>1. PICK v \in Values : stack = <<v>>
        BY <3>4, <3>10 DEF execAgentValidate, Executes, Takes
      <4>2. stack' = <<AgentData(v)>>
        BY <3>10, <4>1, StackOfOne DEF execAgentValidate
      <4>3. AgentData(v).hash = v.hash
        BY ValueFields
      <4>4. Owned(i, AgentData(v))
        BY <2>4, <3>2, <4>1, <4>3 DEF Owned
      <4> QED
        BY <3>6, <3>10, <4>2, <4>4 DEF execAgentValidate
    <3>11. CASE execObject
      <4>1. stack' = <<Head(code).object>>
        BY <3>4, <3>11, StackOfOne DEF execObject, Executes, Takes
      <4>2. Owned(i, Head(code).object)
        BY <3>4, <3>11 DEF execObject, Executes, Harmless, Owned
      <4> QED
        BY <3>6, <3>11, <4>1, <4>2 DEF execObject
    <3>12. CASE execStore
      <4>1. PICK v \in Values : stack = <<v>>
        BY <3>4, <3>12 DEF execStore, Executes, Takes
      <4>2. stack' = <<>> /\ storage' = Put(Head(code).slot, v)
        BY <3>12, <4>1, StackOfOne DEF execStore
      <4> QED
        BY <2>4, <3>2, <3>5, <4>1, <4>2
    <3> QED
      BY <2>7, <3>7, <3>8, <3>9, <3>10, <3>11, <3>12 DEF Initialize
  <2>8. CASE agentHashFromStorage
    <3>1. UNCHANGED <<code, stack, storage>>
      BY <2>8 DEF agentHashFromStorage, machine
    <3>2. CASE Hashes = {}
      BY <1>2, <1>4, <2>4, <2>8, <3>1, <3>2 DEF agentHashFromStorage
    <3>3. CASE Hashes # {}
      <4>1. PICK h \in Hashes : info' = [info EXCEPT !.hash = h]
        BY <2>8, <3>3 DEF agentHashFromStorage
      <4>2. i = [name |-> info.name, version |-> info.version, hash |-> h]
        BY <1>2, <1>4, <4>1
      <4>3. Digest(i) = Digest(info) /\ i.hash = h
        BY <4>2 DEF Digest
      <4>4. h = Digest(info)
        BY <2>4, <4>1 DEF Hashes, Owned
      <4> QED
        BY <2>4, <3>1, <4>2, <4>3, <4>4 DEF Harmless, Owned
    <3> QED
      BY <3>2, <3>3
  <2> QED
    BY <1>9, <2>2, <2>5, <2>6, <2>7, <2>8 DEF Next, Compile, Initialize
<1> QED
  BY <1>7, <1>8, <1>9

LEMMA AlwaysFollows == Spec => [](Typed /\ QueueFollows)
<1>1. Init => QueueFollows
  <2> SUFFICES ASSUME Init PROVE QueueFollows
    OBVIOUS
  <2>1. Declarations \in Seq(All) /\ queue = <<>>
    BY InitTyped, DeclarationsTyped DEF Typed, Init
  <2> QED
    BY <2>1, LenProperties DEF QueueFollows, Rest
<1>2. Typed /\ QueueFollows /\ [Next]_vars => QueueFollows'
  BY NextQueueFollows
<1> QED
  BY <1>1, <1>2, AlwaysTyped, PTL DEF Spec

\* When a contract has one agent, and no other object has a field named hash, the
\* hash that Build reports is that agent's, in whatever order the storage is visited.
THEOREM AgentHashFound == Spec => []SingleAgentHash
<1>1. Init => HashesOwned
  <2> SUFFICES ASSUME Init PROVE HashesOwned
    OBVIOUS
  <2>1. This.hash = <<>>
    BY DEF This, Object, NoFields
  <2>2. Len(code) = 0 /\ \A v : stack # <<v>>
    BY DEF Init
  <2>3. info = [name |-> info.name, version |-> info.version, hash |-> info.hash]
    BY DEF Init, NoAgent
  <2>4. \A k \in DOMAIN storage : Owned(info, storage[k])
    BY <2>1 DEF Init, Owned
  <2>5. \A j \in 1..Len(code) : Harmless(Declarations, info, code[j])
    BY <2>2
  <2>6. phase # "deployed"
    BY DEF Init
  <2> QED
    BY <2>2, <2>3, <2>4, <2>5, <2>6 DEF HashesOwned
<1>2. Typed /\ QueueFollows /\ HashesOwned /\ [Next]_vars => HashesOwned'
  BY NextHashesOwned
<1>3. HashesOwned => SingleAgentHash
  BY DEF HashesOwned, One, SingleAgentHash, OneAgent, AgentHashIsItsOwn
<1> QED
  BY <1>1, <1>2, <1>3, AlwaysFollows, PTL DEF Spec

-----------------------------------------------------------------------------
(* Slots.  The declarations D are compiled in order to stores of growing   *)
(* slots; what a slot is to hold is on its way in the code until the       *)
(* storage has it, and from then on every store and every registry goes    *)
(* to a greater key.                                                       *)

\* The stores of c have growing slots, below n.
Ordered(c, n) ==
  \A j \in 1..Len(c) : c[j].op = "STORE" =>
    /\ c[j].slot < n
    /\ \A k \in 1..Len(c) : k > j /\ c[k].op = "STORE" => c[j].slot < c[k].slot

\* Every slot below n has its store in c.
Covered(c, n) == \A s \in 1..(n - 1) : \E j \in 1..Len(c) : c[j].op = "STORE" /\ c[j].slot = s

\* When an agent is declared, every slot below its own will be in use.
Filled(c, sto) ==
  \A j \in 1..Len(c) : c[j].op = "AGENT_DECLARE" =>
    /\ j + 3 \in 1..Len(c) /\ c[j + 3].op = "STORE"
    /\ \A s \in 0..(c[j + 3].slot - 1) :
         s \in DOMAIN sto \/ \E k \in 1..(j - 1) : c[k].op = "STORE" /\ c[k].slot = s

\* An object that passes for an agent's registry has the agent's hash.
Genuine(D, v) ==
  \A i \in DOMAIN D :
    /\ D[i].kind = "agent" /\ v.name = D[i].name /\ v.version = D[i].version
    /\ v.hash \notin {<<>>, <<"String">>}
    => v.hash = Digest(D[i])

\* The code and the stack are about to store in slot s what d declares, or have done so.
Pending(c, st, d, s) ==
  \E j \in 1..Len(c) :
    /\ c[j].op = "STORE" /\ c[j].slot = s
    /\ j = 1 => st = <<Declared(d)>>
    /\ d.kind # "agent" /\ j > 1 => c[j - 1].op = "OBJECT" /\ c[j - 1].object = Declared(d)
    /\ d.kind = "agent" =>
         /\ j = 2 => \E v \in Values : st = <<v>> /\ v.name = d.name
         /\ j > 1 => c[j - 1].op = "AGENT_VALIDATE" /\ c[j - 1].version = d.version
         /\ j > 2 => c[j - 2].op = "AGENT_GET" /\ c[j - 2].name = d.name
Done(c, sto, d, s) ==
  /\ s \in DOMAIN sto /\ sto[s] = Declared(d)
  /\ \A j \in 1..Len(c) : c[j].op = "STORE" => c[j].slot > s

-----------------------------------------------------------------------------
(* The compiler adds to the code.                                          *)

Extends(c, e) == Len(c) <= Len(e) /\ \A j \in 1..Len(c) : e[j] = c[j]

\* From c to e, the block of d with slot s is added, after errors at most.
Grown(c, e, d, s) ==
  /\ Extends(c, e)
  /\ e[Len(e)].op = "STORE" /\ e[Len(e)].slot = s
  /\ IF d.kind = "agent"
     THEN /\ Len(e) >= Len(c) + 4
          /\ e[Len(e) - 1].op = "AGENT_VALIDATE" /\ e[Len(e) - 1].version = d.version
          /\ e[Len(e) - 2].op = "AGENT_GET" /\ e[Len(e) - 2].name = d.name
          /\ e[Len(e) - 3].op = "AGENT_DECLARE"
          /\ \A j \in (Len(c) + 1)..(Len(e) - 4) : e[j].op = "ERR"
     ELSE /\ Len(e) >= Len(c) + 2
          /\ e[Len(e) - 1].op = "OBJECT" /\ e[Len(e) - 1].object = Object(d.kind, FieldsOf(d))
          /\ \A j \in (Len(c) + 1)..(Len(e) - 2) : e[j].op = "ERR"

Padded(c, e) == Extends(c, e) /\ \A j \in (Len(c) + 1)..Len(e) : e[j].op = "NOP"

LEMMA BlockElements ==
  ASSUME NEW d, NEW s
  PROVE  /\ d.kind = "agent" =>
              /\ Len(Block(d, s)) = 4
              /\ Block(d, s)[1].op = "AGENT_DECLARE"
              /\ Block(d, s)[2].op = "AGENT_GET" /\ Block(d, s)[2].name = d.name
              /\ Block(d, s)[3].op = "AGENT_VALIDATE" /\ Block(d, s)[3].version = d.version
              /\ Block(d, s)[4].op = "STORE" /\ Block(d, s)[4].slot = s
         /\ d.kind # "agent" =>
              /\ Len(Block(d, s)) = 2
              /\ Block(d, s)[1].op = "OBJECT" /\ Block(d, s)[1].object = Object(d.kind, FieldsOf(d))
              /\ Block(d, s)[2].op = "STORE" /\ Block(d, s)[2].slot = s
BY DEF Block

LEMMA BlockGrows ==
  ASSUME NEW c \in Seq(Instructions), NEW f \in Seq(Instructions), NEW d \in All, NEW s \in Nat \ {0},
         Extends(c, f), \A j \in (Len(c) + 1)..Len(f) : f[j].op = "ERR"
  PROVE  Grown(c, f \o Block(d, s), d, s)
<1> DEFINE b == Block(d, s)
           e == f \o b
<1>1. /\ Len(e) = Len(f) + Len(b)
      /\ \A i \in 1..Len(f) : e[i] = f[i]
      /\ \A i \in 1..Len(e) : i > Len(f) => i - Len(f) \in 1..Len(b) /\ e[i] = b[i - Len(f)]
      /\ Len(c) \in Nat /\ Len(f) \in Nat /\ Len(b) \in Nat /\ Len(c) <= Len(f)
  BY BlockTyped, ExtendedProperties, LenProperties DEF Extends
<1>2. Extends(c, e)
  BY <1>1 DEF Extends
<1> HIDE DEF e
<1>3. CASE d.kind = "agent"
  <2>1. Len(b) = 4 /\ Len(e) = Len(f) + 4
    <3>1. Len(b) = 4
      BY <1>3, BlockElements
    <3> HIDE DEF b
    <3> QED
      BY <1>1, <3>1
  <2>2. /\ Len(e) \in 1..Len(e) /\ Len(e) - 1 \in 1..Len(e) /\ Len(e) - 2 \in 1..Len(e)
        /\ Len(e) - 3 \in 1..Len(e) /\ Len(e) - 3 > Len(f) /\ Len(e) - 2 > Len(f)
        /\ Len(e) - 1 > Len(f) /\ Len(e) > Len(f)
        /\ Len(e) - Len(f) = 4 /\ (Len(e) - 1) - Len(f) = 3 /\ (Len(e) - 2) - Len(f) = 2
        /\ (Len(e) - 3) - Len(f) = 1 /\ Len(e) - 4 = Len(f) /\ Len(e) >= Len(c) + 4
    BY <1>1, <2>1
  <2>3. e[Len(e)] = b[4] /\ e[Len(e) - 1] = b[3] /\ e[Len(e) - 2] = b[2] /\ e[Len(e) - 3] = b[1]
    BY <1>1, <2>2
  <2>4. \A j \in (Len(c) + 1)..(Len(e) - 4) : e[j].op = "ERR"
    <3>1. \A j \in (Len(c) + 1)..(Len(e) - 4) : j \in 1..Len(f) /\ j \in (Len(c) + 1)..Len(f)
      BY <1>1, <2>2
    <3> QED
      BY <1>1, <3>1
  <2> QED
    BY <1>2, <1>3, <2>2, <2>3, <2>4, BlockElements DEF Grown, e
<1>4. CASE d.kind # "agent"
  <2>1. Len(b) = 2 /\ Len(e) = Len(f) + 2
    <3>1. Len(b) = 2
      BY <1>4, BlockElements
    <3> HIDE DEF b
    <3> QED
      BY <1>1, <3>1
  <2>2. /\ Len(e) \in 1..Len(e) /\ Len(e) - 1 \in 1..Len(e) /\ Len(e) - 1 > Len(f) /\ Len(e) > Len(f)
        /\ Len(e) - Len(f) = 2 /\ (Len(e) - 1) - Len(f) = 1
        /\ Len(e) - 2 = Len(f) /\ Len(e) >= Len(c) + 2
    BY <1>1, <2>1
  <2>3. e[Len(e)] = b[2] /\ e[Len(e) - 1] = b[1]
    BY <1>1, <2>2
  <2>4. \A j \in (Len(c) + 1)..(Len(e) - 2) : e[j].op = "ERR"
    <3>1. \A j \in (Len(c) + 1)..(Len(e) - 2) : j \in 1..Len(f) /\ j \in (Len(c) + 1)..Len(f)
      BY <1>1, <2>2
    <3> QED
      BY <1>1, <3>1
  <2> QED
    BY <1>2, <1>4, <2>2, <2>3, <2>4, BlockElements DEF Grown, e
<1> QED
  BY <1>3, <1>4

LEMMA CompiledCode ==
  ASSUME Typed, NEW d \in All
  PROVE  /\ Gets(d) => Grown(code, code', d, nextSlot)
         /\ Skips(d) => Padded(code, code')
<1> DEFINE e == <<[op |-> "ERR"]>>
           n == <<[op |-> "NOP"]>>
<1>1. /\ code \in Seq(Instructions) /\ e \in Seq(Instructions) /\ n \in Seq(Instructions)
      /\ nextSlot \in Nat \ {0} /\ Len(code) \in Nat
  BY BlockTyped, LenProperties DEF Typed, CompilerOK
<1>2. /\ Len(e) = 1 /\ e[1].op = "ERR" /\ Len(n) = 1 /\ n[1].op = "NOP"
  OBVIOUS
<1>3. Extends(code, code) /\ \A j \in (Len(code) + 1)..Len(code) : code[j].op = "ERR" /\ code[j].op = "NOP"
  BY <1>1 DEF Extends
<1>4. \A x \in Seq(Instructions) : Len(x) = 1 =>
        /\ code \o x \in Seq(Instructions) /\ Extends(code, code \o x)
        /\ \A j \in (Len(code) + 1)..Len(code \o x) : (code \o x)[j] = x[1]
  <2> TAKE x \in Seq(Instructions)
  <2> HAVE Len(x) = 1
  <2>1. /\ code \o x \in Seq(Instructions) /\ Len(code \o x) = Len(code) + 1
        /\ \A i \in 1..Len(code) : (code \o x)[i] = code[i]
        /\ \A i \in 1..Len(code \o x) : i > Len(code) => (code \o x)[i] = x[i - Len(code)]
    BY <1>1, ExtendedProperties
  <2>2. \A j \in (Len(code) + 1)..(Len(code) + 1) : j = Len(code) + 1 /\ j \in 1..(Len(code) + 1)
                                                  /\ j > Len(code) /\ j - Len(code) = 1
    BY <1>1
  <2>3. Len(code) <= Len(code) + 1
    BY <1>1
  <2> QED
    BY <2>1, <2>2, <2>3 DEF Extends
<1> HIDE DEF e, n
<1>5. CASE Gets(d)
  <2>1. code' = code \o Block(d, nextSlot) \/ code' = (code \o e) \o Block(d, nextSlot)
    BY <1>5 DEF Gets, e
  <2>2. Grown(code, code \o Block(d, nextSlot), d, nextSlot)
    BY <1>1, <1>3, BlockGrows
  <2>3. Grown(code, (code \o e) \o Block(d, nextSlot), d, nextSlot)
    BY <1>1, <1>2, <1>4, BlockGrows
  <2>4. ~Skips(d)
    BY <1>5 DEF Gets, Skips
  <2> QED
    BY <2>1, <2>2, <2>3, <2>4
<1>6. CASE Skips(d)
  <2>1. code' = code \/ code' = code \o n
    BY <1>6 DEF Skips, n
  <2>2. Padded(code, code) /\ Padded(code, code \o n)
    BY <1>1, <1>2, <1>3, <1>4 DEF Padded
  <2>3. ~Gets(d)
    BY <1>6 DEF Gets, Skips
  <2> QED
    BY <2>1, <2>2, <2>3
<1> QED
  BY <1>5, <1>6

LEMMA StoreSlot ==
  ASSUME NEW c \in Seq(Instructions), NEW j \in 1..Len(c), c[j].op = "STORE"
  PROVE  c[j].slot \in Nat \ {0}
<1>1. c[j] \in Instructions
  BY ElementOfSeq
<1> QED
  BY <1>1, InstructionFields

\* The new elements of the code that are stores: the last one of a block.
LEMMA NewElements ==
  ASSUME NEW c \in Seq(Instructions), NEW e \in Seq(Instructions), NEW d \in All, NEW s \in Nat \ {0}
  PROVE  /\ Padded(c, e) => \A j \in 1..Len(e) : j \in 1..Len(c) \/ e[j].op = "NOP"
         /\ Grown(c, e, d, s) =>
              \A j \in 1..Len(e) :
                \/ j \in 1..Len(c)
                \/ j > Len(c) /\ e[j].op \in {"ERR", "AGENT_VALIDATE", "AGENT_GET"}
                \/ j > Len(c) /\ d.kind # "agent" /\ e[j].op = "OBJECT"
                   /\ e[j].object = Object(d.kind, FieldsOf(d))
                \/ j > Len(c) /\ d.kind = "agent" /\ e[j].op = "AGENT_DECLARE" /\ j = Len(e) - 3
                \/ j > Len(c) /\ j = Len(e)
<1>1. Len(c) \in Nat /\ Len(e) \in Nat
  BY LenProperties
<1>2. ASSUME Padded(c, e), NEW j \in 1..Len(e)
      PROVE  j \in 1..Len(c) \/ e[j].op = "NOP"
  <2>1. j \in 1..Len(c) \/ j \in (Len(c) + 1)..Len(e)
    BY <1>1
  <2> QED
    BY <1>2, <2>1 DEF Padded
<1>3. ASSUME Grown(c, e, d, s), d.kind = "agent", NEW j \in 1..Len(e), j \notin 1..Len(c)
      PROVE  /\ j > Len(c)
             /\ \/ e[j].op \in {"ERR", "AGENT_VALIDATE", "AGENT_GET"}
                \/ e[j].op = "AGENT_DECLARE" /\ j = Len(e) - 3
                \/ j = Len(e)
  <2>1. /\ j > Len(c)
        /\ \/ j \in (Len(c) + 1)..(Len(e) - 4) \/ j = Len(e) - 3 \/ j = Len(e) - 2 \/ j = Len(e) - 1
           \/ j = Len(e)
    BY <1>1, <1>3
  <2> QED
    BY <1>3, <2>1 DEF Grown
<1>4. ASSUME Grown(c, e, d, s), d.kind # "agent", NEW j \in 1..Len(e), j \notin 1..Len(c)
      PROVE  /\ j > Len(c)
             /\ \/ e[j].op = "ERR" \/ j = Len(e)
                \/ e[j].op = "OBJECT" /\ e[j].object = Object(d.kind, FieldsOf(d))
  <2>1. j > Len(c) /\ (j \in (Len(c) + 1)..(Len(e) - 2) \/ j = Len(e) - 1 \/ j = Len(e))
    BY <1>1, <1>4
  <2> QED
    BY <1>4, <2>1 DEF Grown
<1> QED
  BY <1>2, <1>3, <1>4

LEMMA StoresKept ==
  ASSUME NEW c \in Seq(Instructions), NEW e \in Seq(Instructions), NEW n \in Nat \ {0}, Padded(c, e)
  PROVE  /\ Ordered(c, n) => Ordered(e, n)
         /\ Covered(c, n) => Covered(e, n)
         /\ \A sto : Filled(c, sto) => Filled(e, sto)
<1>1. \A j \in 1..Len(e) : j \in 1..Len(c) \/ e[j].op = "NOP"
  <2>1. CASE All = {}
    <3>1. Len(c) \in Nat /\ Len(e) \in Nat
      BY LenProperties
    <3>2. \A j \in 1..Len(e) : j \in 1..Len(c) \/ j \in (Len(c) + 1)..Len(e)
      BY <3>1
    <3> QED
      BY <3>2 DEF Padded
  <2>2. CASE All # {}
    BY <2>2, NewElements
  <2> QED
    BY <2>1, <2>2
<1>2. /\ Len(c) \in Nat /\ Len(e) \in Nat /\ Len(c) <= Len(e)
      /\ \A j \in 1..Len(c) : e[j] = c[j] /\ j \in 1..Len(e)
  BY LenProperties DEF Padded, Extends
<1>3. Ordered(c, n) => Ordered(e, n)
  BY <1>1, <1>2 DEF Ordered
<1>4. Covered(c, n) => Covered(e, n)
  BY <1>2 DEF Covered
<1>5. ASSUME NEW sto, Filled(c, sto), NEW j \in 1..Len(e), e[j].op = "AGENT_DECLARE"
      PROVE  /\ j + 3 \in 1..Len(e) /\ e[j + 3].op = "STORE"
             /\ \A s \in 0..(e[j + 3].slot - 1) :
                  s \in DOMAIN sto \/ \E k \in 1..(j - 1) : e[k].op = "STORE" /\ e[k].slot = s
  <2>1. j \in 1..Len(c) /\ c[j].op = "AGENT_DECLARE"
    BY <1>1, <1>2, <1>5
  <2>2. j + 3 \in 1..Len(c) /\ c[j + 3].op = "STORE"
    BY <1>5, <2>1 DEF Filled
  <2>3. e[j + 3] = c[j + 3] /\ \A k \in 1..(j - 1) : e[k] = c[k]
    <3>1. \A k \in 1..(j - 1) : k \in 1..Len(c)
      BY <1>2, <2>1
    <3> QED
      BY <1>2, <2>2, <3>1
  <2> QED
    BY <1>2, <1>5, <2>1, <2>2, <2>3 DEF Filled
<1> QED
  BY <1>3, <1>4, <1>5 DEF Filled

LEMMA OrderedGrown ==
  ASSUME NEW c \in Seq(Instructions), NEW e \in Seq(Instructions), NEW d \in All, NEW s \in Nat \ {0},
         Grown(c, e, d, s), Ordered(c, s)
  PROVE  Ordered(e, s + 1)
<1>1. /\ Len(c) \in Nat /\ Len(e) \in Nat /\ Len(c) <= Len(e)
      /\ \A j \in 1..Len(c) : e[j] = c[j]
  BY LenProperties DEF Grown, Extends
<1>2. \A j \in 1..Len(e) : e[j].op = "STORE" => j \in 1..Len(c) \/ (j > Len(c) /\ j = Len(e))
  BY NewElements
<1>3. e[Len(e)].slot = s
  BY DEF Grown
<1>4. \A j \in 1..Len(c) : c[j].op = "STORE" => c[j].slot \in Nat /\ c[j].slot < s
  BY StoreSlot DEF Ordered
<1>5. ASSUME NEW j \in 1..Len(e), e[j].op = "STORE"
      PROVE  /\ e[j].slot < s + 1
             /\ \A k \in 1..Len(e) : k > j /\ e[k].op = "STORE" => e[j].slot < e[k].slot
  <2>1. CASE j \in 1..Len(c)
    <3>1. e[j].slot \in Nat /\ e[j].slot < s
      BY <1>1, <1>4, <1>5, <2>1
    <3>2. ASSUME NEW k \in 1..Len(e), k > j, e[k].op = "STORE"
          PROVE  e[j].slot < e[k].slot
      BY <1>1, <1>2, <1>3, <1>5, <2>1, <3>1, <3>2 DEF Ordered
    <3> QED
      BY <3>1, <3>2
  <2>2. CASE j > Len(c) /\ j = Len(e)
    BY <1>1, <1>3, <2>2
  <2> QED
    BY <1>2, <1>5, <2>1, <2>2
<1> QED
  BY <1>5 DEF Ordered

LEMMA CoveredGrown ==
  ASSUME NEW c \in Seq(Instructions), NEW e \in Seq(Instructions), NEW d, NEW s \in Nat \ {0},
         Grown(c, e, d, s), Covered(c, s)
  PROVE  Covered(e, s + 1)
<1>1. /\ Len(c) \in Nat /\ Len(e) \in Nat /\ Len(c) <= Len(e) /\ Len(e) \in 1..Len(e)
      /\ \A j \in 1..Len(c) : e[j] = c[j] /\ j \in 1..Len(e)
      /\ e[Len(e)].op = "STORE" /\ e[Len(e)].slot = s
  BY LenProperties DEF Grown, Extends
<1>2. \A t \in 1..((s + 1) - 1) : t \in 1..(s - 1) \/ t = s
  OBVIOUS
<1> QED
  BY <1>1, <1>2 DEF Covered

LEMMA FilledGrown ==
  ASSUME NEW c \in Seq(Instructions), NEW e \in Seq(Instructions), NEW d \in All, NEW s \in Nat \ {0},
         Grown(c, e, d, s), NEW sto, 0 \in DOMAIN sto, Filled(c, sto),
         d.kind = "agent" => Covered(c, s)
  PROVE  Filled(e, sto)
<1>1. /\ Len(c) \in Nat /\ Len(e) \in Nat /\ Len(c) <= Len(e)
      /\ \A j \in 1..Len(c) : e[j] = c[j] /\ j \in 1..Len(e)
      /\ e[Len(e)].op = "STORE" /\ e[Len(e)].slot = s
  BY LenProperties DEF Grown, Extends
<1>2. \A j \in 1..Len(e) : e[j].op = "AGENT_DECLARE" =>
        j \in 1..Len(c) \/ (j > Len(c) /\ d.kind = "agent" /\ j = Len(e) - 3)
  BY <1>1, NewElements
<1> SUFFICES ASSUME NEW j \in 1..Len(e), e[j].op = "AGENT_DECLARE"
             PROVE  /\ j + 3 \in 1..Len(e) /\ e[j + 3].op = "STORE"
                    /\ \A t \in 0..(e[j + 3].slot - 1) :
                         t \in DOMAIN sto \/ \E k \in 1..(j - 1) : e[k].op = "STORE" /\ e[k].slot = t
  BY DEF Filled
<1>3. CASE j \in 1..Len(c)
  <2>1. c[j].op = "AGENT_DECLARE"
    BY <1>1, <1>3
  <2>2. j + 3 \in 1..Len(c) /\ c[j + 3].op = "STORE"
    BY <1>3, <2>1 DEF Filled
  <2>3. e[j + 3] = c[j + 3] /\ \A k \in 1..(j - 1) : e[k] = c[k]
    <3>1. \A k \in 1..(j - 1) : k \in 1..Len(c)
      BY <1>1, <1>3
    <3> QED
      BY <1>1, <2>2, <3>1
  <2> QED
    BY <1>1, <1>3, <2>1, <2>2, <2>3 DEF Filled
<1>4. CASE j > Len(c) /\ d.kind = "agent" /\ j = Len(e) - 3
  <2>1. j + 3 = Len(e) /\ j + 3 \in 1..Len(e) /\ \A k \in 1..Len(c) : k \in 1..(j - 1)
    BY <1>1, <1>4
  <2>2. \A t \in 0..(s - 1) : t = 0 \/ t \in 1..(s - 1)
    OBVIOUS
  <2>3. \A t \in 1..(s - 1) : \E k \in 1..Len(c) : c[k].op = "STORE" /\ c[k].slot = t
    BY <1>4 DEF Covered
  <2> QED
    BY <1>1, <2>1, <2>2, <2>3
<1> QED
  BY <1>2, <1>3, <1>4

LEMMA PendingKept ==
  ASSUME NEW c \in Seq(Instructions), NEW e \in Seq(Instructions), Extends(c, e),
         NEW st, NEW x, NEW s, Pending(c, st, x, s)
  PROVE  Pending(e, st, x, s)
<1>1. PICK j \in 1..Len(c) :
        /\ c[j].op = "STORE" /\ c[j].slot = s
        /\ j = 1 => st = <<Declared(x)>>
        /\ x.kind # "agent" /\ j > 1 => c[j - 1].op = "OBJECT" /\ c[j - 1].object = Declared(x)
        /\ x.kind = "agent" =>
             /\ j = 2 => \E v \in Values : st = <<v>> /\ v.name = x.name
             /\ j > 1 => c[j - 1].op = "AGENT_VALIDATE" /\ c[j - 1].version = x.version
             /\ j > 2 => c[j - 2].op = "AGENT_GET" /\ c[j - 2].name = x.name
  BY DEF Pending
<1>2. Len(c) \in Nat /\ Len(e) \in Nat
  BY LenProperties
<1>3. /\ j \in 1..Len(e) /\ e[j] = c[j]
      /\ j > 1 => e[j - 1] = c[j - 1]
      /\ j > 2 => e[j - 2] = c[j - 2]
  <2>1. j > 1 => j - 1 \in 1..Len(c)
    BY <1>2
  <2>2. j > 2 => j - 2 \in 1..Len(c)
    BY <1>2
  <2>3. j \in 1..Len(e)
    BY <1>2 DEF Extends
  <2> QED
    BY <2>1, <2>2, <2>3 DEF Extends
<1> QED
  BY <1>1, <1>3 DEF Pending

LEMMA PendingAdded ==
  ASSUME NEW c \in Seq(Instructions), NEW e \in Seq(Instructions), NEW d, NEW s, Grown(c, e, d, s),
         NEW st
  PROVE  Pending(e, st, d, s)
<1>1. /\ Len(c) \in Nat /\ Len(e) \in Nat
  BY LenProperties
<1>2. /\ Len(e) \in 1..Len(e) /\ Len(e) > 1
      /\ d.kind = "agent" => Len(e) > 2
  BY <1>1 DEF Grown
<1>3. d.kind # "agent" => Declared(d) = Object(d.kind, FieldsOf(d))
  BY DEF Declared
<1> QED
  BY <1>1, <1>2, <1>3 DEF Grown, Pending

-----------------------------------------------------------------------------
(* The machine takes from the code.                                        *)

LEMMA OrderedTail ==
  ASSUME NEW c \in Seq(Instructions), c # <<>>, NEW n, Ordered(c, n)
  PROVE  /\ Ordered(Tail(c), n)
         /\ c[1].op = "STORE" =>
              \A j \in 1..Len(Tail(c)) : Tail(c)[j].op = "STORE" => Tail(c)[j].slot > c[1].slot
<1> DEFINE t == Tail(c)
<1>1. /\ t \in Seq(Instructions) /\ Len(t) = Len(c) - 1 /\ Len(c) \in Nat \ {0}
      /\ \A j \in 1..Len(t) : j + 1 \in 1..Len(c) /\ j + 1 > 1 /\ t[j] = c[j + 1]
  BY TailPositions
<1> HIDE DEF t
<1>2. 1 \in 1..Len(c)
  BY <1>1
<1>3. \A j, k \in 1..Len(t) : k > j => k + 1 > j + 1
  OBVIOUS
<1>4. Ordered(t, n)
  BY <1>1, <1>3 DEF Ordered
<1>5. ASSUME c[1].op = "STORE", NEW j \in 1..Len(t), t[j].op = "STORE"
      PROVE  t[j].slot > c[1].slot
  <2>1. c[1].slot < c[j + 1].slot
    BY <1>1, <1>2, <1>5 DEF Ordered
  <2>2. c[1].slot \in Nat /\ c[j + 1].slot \in Nat
    BY <1>1, <1>2, <1>5, StoreSlot
  <2> QED
    BY <1>1, <2>1, <2>2
<1> QED
  BY <1>4, <1>5 DEF t

LEMMA FilledTail ==
  ASSUME NEW c \in Seq(Instructions), c # <<>>, NEW sto, NEW sto2, Filled(c, sto),
         DOMAIN sto \subseteq DOMAIN sto2,
         c[1].op = "STORE" => c[1].slot \in DOMAIN sto2
  PROVE  Filled(Tail(c), sto2)
<1> DEFINE t == Tail(c)
<1>1. /\ t \in Seq(Instructions) /\ Len(t) = Len(c) - 1 /\ Len(c) \in Nat \ {0}
      /\ \A j \in 1..Len(t) : j + 1 \in 1..Len(c) /\ t[j] = c[j + 1]
  BY TailPositions
<1> HIDE DEF t
<1> SUFFICES ASSUME NEW j \in 1..Len(t), t[j].op = "AGENT_DECLARE"
             PROVE  /\ j + 3 \in 1..Len(t) /\ t[j + 3].op = "STORE"
                    /\ \A s \in 0..(t[j + 3].slot - 1) :
                         s \in DOMAIN sto2 \/ \E k \in 1..(j - 1) : t[k].op = "STORE" /\ t[k].slot = s
  BY DEF Filled, t
<1>2. j + 1 \in 1..Len(c) /\ c[j + 1].op = "AGENT_DECLARE"
  BY <1>1
<1>3. /\ (j + 1) + 3 \in 1..Len(c) /\ c[(j + 1) + 3].op = "STORE"
      /\ \A s \in 0..(c[(j + 1) + 3].slot - 1) :
           s \in DOMAIN sto \/ \E k \in 1..((j + 1) - 1) : c[k].op = "STORE" /\ c[k].slot = s
  BY <1>2 DEF Filled
<1>4. j + 3 \in 1..Len(t) /\ t[j + 3] = c[(j + 1) + 3]
  <2>1. j + 3 \in 1..Len(t) /\ (j + 3) + 1 = (j + 1) + 3
    BY <1>1, <1>3
  <2> QED
    BY <1>1, <2>1
<1>5. ASSUME NEW s, NEW k \in 1..((j + 1) - 1), c[k].op = "STORE", c[k].slot = s
      PROVE  s \in DOMAIN sto2 \/ \E m \in 1..(j - 1) : t[m].op = "STORE" /\ t[m].slot = s
  <2>1. CASE k = 1
    BY <1>5, <2>1
  <2>2. CASE k # 1
    <3>1. k - 1 \in 1..(j - 1) /\ k - 1 \in 1..Len(t) /\ (k - 1) + 1 = k
      BY <1>1, <2>2
    <3>2. t[k - 1] = c[k]
      BY <1>1, <3>1
    <3> QED
      BY <1>5, <3>1, <3>2
  <2> QED
    BY <2>1, <2>2
<1> QED
  BY <1>3, <1>4, <1>5

\* What is pending is stored now, or the next value on the stack carries it on.
LEMMA PendingTail ==
  ASSUME NEW c \in Seq(Instructions), c # <<>>, NEW st, NEW st2, NEW x, NEW s, Pending(c, st, x, s),
         ~(c[1].op = "STORE" /\ c[1].slot = s /\ st = <<Declared(x)>>),
         c[1].op = "OBJECT" => st2 = <<c[1].object>>,
         c[1].op = "AGENT_GET" => \E v \in Values : st2 = <<v>> /\ v.name = c[1].name,
         \A v \in Values :
           /\ x.kind = "agent" /\ c[1].op = "AGENT_VALIDATE" /\ st = <<v>>
           /\ v.name = x.name /\ c[1].version = x.version
           => st2 = <<Declared(x)>>
  PROVE  Pending(Tail(c), st2, x, s)
<1> DEFINE t == Tail(c)
<1>1. /\ t \in Seq(Instructions) /\ Len(t) = Len(c) - 1 /\ Len(c) \in Nat \ {0}
      /\ \A j \in 1..Len(t) : j + 1 \in 1..Len(c) /\ t[j] = c[j + 1]
  BY TailPositions
<1> HIDE DEF t
<1>2. PICK j \in 1..Len(c) :
        /\ c[j].op = "STORE" /\ c[j].slot = s
        /\ j = 1 => st = <<Declared(x)>>
        /\ x.kind # "agent" /\ j > 1 => c[j - 1].op = "OBJECT" /\ c[j - 1].object = Declared(x)
        /\ x.kind = "agent" =>
             /\ j = 2 => \E v \in Values : st = <<v>> /\ v.name = x.name
             /\ j > 1 => c[j - 1].op = "AGENT_VALIDATE" /\ c[j - 1].version = x.version
             /\ j > 2 => c[j - 2].op = "AGENT_GET" /\ c[j - 2].name = x.name
  BY DEF Pending
<1>3. j # 1
  BY <1>2
<1>4. PICK i \in 1..Len(t) : j = i + 1
  <2>1. j - 1 \in 1..Len(t) /\ j = (j - 1) + 1
    BY <1>1, <1>3
  <2> QED
    BY <2>1
<1>5. t[i].op = "STORE" /\ t[i].slot = s
  BY <1>1, <1>2, <1>4
<1>6. j > 1 /\ j - 1 = i /\ (i > 1 => i - 1 \in 1..Len(t) /\ (i - 1) + 1 = i /\ j > 2 /\ j - 2 = i - 1)
      /\ (i > 2 => i - 2 \in 1..Len(t) /\ (i - 2) + 1 = i - 1)
  BY <1>1, <1>4
<1>7. (i > 1 => t[i - 1] = c[j - 1]) /\ (i > 2 => t[i - 2] = c[j - 2])
  BY <1>1, <1>6
<1>8. CASE x.kind # "agent"
  <2>1. c[j - 1].op = "OBJECT" /\ c[j - 1].object = Declared(x)
    BY <1>2, <1>6, <1>8
  <2>2. i = 1 => st2 = <<Declared(x)>>
    BY <1>6, <2>1
  <2> QED
    BY <1>5, <1>7, <1>8, <2>1, <2>2 DEF Pending, t
<1>9. CASE x.kind = "agent"
  <2>1. c[j - 1].op = "AGENT_VALIDATE" /\ c[j - 1].version = x.version
        /\ (i > 1 => c[j - 2].op = "AGENT_GET" /\ c[j - 2].name = x.name)
    BY <1>2, <1>6, <1>9
  <2>2. i = 1 => st2 = <<Declared(x)>>
    <3> SUFFICES ASSUME i = 1 PROVE st2 = <<Declared(x)>>
      OBVIOUS
    <3>1. PICK v \in Values : st = <<v>> /\ v.name = x.name
      BY <1>2, <1>4, <1>9
    <3>2. c[1].op = "AGENT_VALIDATE" /\ c[1].version = x.version
      BY <1>6, <2>1
    <3> QED
      BY <1>9, <3>1, <3>2
  <2>3. i = 2 => \E v \in Values : st2 = <<v>> /\ v.name = x.name
    <3> SUFFICES ASSUME i = 2 PROVE \E v \in Values : st2 = <<v>> /\ v.name = x.name
      OBVIOUS
    <3>1. c[1].op = "AGENT_GET" /\ c[1].name = x.name
      BY <1>6, <2>1
    <3> QED
      BY <3>1
  <2>4. /\ i > 1 => t[i - 1].op = "AGENT_VALIDATE" /\ t[i - 1].version = x.version
        /\ i > 2 => t[i - 2].op = "AGENT_GET" /\ t[i - 2].name = x.name
    <3>1. i > 2 => i > 1
      OBVIOUS
    <3>2. i > 1 => t[i - 1].op = "AGENT_VALIDATE" /\ t[i - 1].version = x.version
      BY <1>7, <2>1
    <3>3. i > 2 => t[i - 2].op = "AGENT_GET" /\ t[i - 2].name = x.name
      BY <1>7, <2>1, <3>1
    <3> QED
      BY <3>2, <3>3
  <2> QED
    BY <1>5, <1>9, <2>2, <2>3, <2>4 DEF Pending, t
<1> QED
  BY <1>8, <1>9

LEMMA DoneTail ==
  ASSUME NEW c \in Seq(Instructions), c # <<>>, NEW sto, NEW x, NEW s, Done(c, sto, x, s),
         NEW sto2, s \in DOMAIN sto2, sto2[s] = sto[s]
  PROVE  Done(Tail(c), sto2, x, s)
<1>1. \A j \in 1..Len(Tail(c)) : j + 1 \in 1..Len(c) /\ Tail(c)[j] = c[j + 1]
  BY TailPositions
<1> QED
  BY <1>1 DEF Done

-----------------------------------------------------------------------------
(* What may pass for an agent's registry.                                  *)

Unmistakable(D) ==
  \A i, j \in DOMAIN D :
    D[i].kind = "agent" /\ D[j].kind \in {"policy", "let"} =>
      ~(/\ D[j].fields.name = D[i].name /\ D[j].fields.version = D[i].version
        /\ D[j].fields.hash # <<>>)

LEMMA GenuineValues ==
  ASSUME NEW D
  PROVE  /\ Genuine(D, This)
         /\ \A d : Genuine(D, Registry(d))
         /\ \A v \in Values : Genuine(D, v) => Genuine(D, AgentData(v))
         /\ Unmistakable(D) =>
              \A j \in DOMAIN D : D[j].kind \in {"policy", "type", "let"} =>
                Genuine(D, Object(D[j].kind, FieldsOf(D[j])))
<1>1. Genuine(D, This)
  <2>1. This.hash = <<>>
    BY DEF This, Object, NoFields
  <2> QED
    BY <2>1 DEF Genuine
<1>2. ASSUME NEW d PROVE Genuine(D, Registry(d))
  <2>1. Registry(d).name = d.name /\ Registry(d).version = d.version /\ Registry(d).hash = Digest(d)
    BY DEF Registry, Object
  <2> QED
    BY <2>1 DEF Genuine, Digest
<1>3. ASSUME NEW v \in Values, Genuine(D, v) PROVE Genuine(D, AgentData(v))
  <2>1. AgentData(v).name = v.name /\ AgentData(v).version = v.version /\ AgentData(v).hash = v.hash
    BY ValueFields
  <2> QED
    BY <1>3, <2>1 DEF Genuine
<1>4. ASSUME Unmistakable(D), NEW j \in DOMAIN D, D[j].kind \in {"policy", "type", "let"}
      PROVE  Genuine(D, Object(D[j].kind, FieldsOf(D[j])))
  <2> DEFINE o == Object(D[j].kind, FieldsOf(D[j]))
  <2>1. CASE D[j].kind = "type"
    <3>1. o.hash \in {<<>>, <<"String">>}
      BY <2>1 DEF Object, FieldsOf
    <3> QED
      BY <3>1 DEF Genuine
  <2>2. CASE D[j].kind # "type"
    <3>1. o.name = D[j].fields.name /\ o.version = D[j].fields.version /\ o.hash = D[j].fields.hash
      BY <2>2 DEF Object, FieldsOf
    <3> HIDE DEF o
    <3>2. D[j].kind \in {"policy", "let"}
      BY <1>4, <2>2
    <3>3. Genuine(D, o)
      BY <1>4, <3>1, <3>2 DEF Genuine, Unmistakable
    <3> QED
      BY <3>3 DEF o
  <2> QED
    BY <2>1, <2>2
<1> QED
  BY <1>1, <1>2, <1>3, <1>4

\* A registry that is found by an agent's name, and is valid, declares the agent.
LEMMA ValidIsDeclared ==
  ASSUME NEW D, NEW i \in DOMAIN D, D[i].kind = "agent", NEW v \in Values, Genuine(D, v),
         v.name = D[i].name, Valid(v, D[i].version)
  PROVE  AgentData(v) = Declared(D[i])
<1>1. v.version = D[i].version /\ v.hash = Digest(D[i])
  BY DEF Valid, Genuine
<1>2. AgentData(v) = [kind |-> "agent", name |-> D[i].name, version |-> D[i].version, hash |-> Digest(D[i])]
  BY <1>1, ValueFields
<1>3. Declared(D[i]) = [kind |-> "agent", name |-> D[i].name, version |-> D[i].version, hash |-> Digest(D[i])]
  BY DEF Declared, AgentData, Registry, Object
<1> QED
  BY <1>2, <1>3

-----------------------------------------------------------------------------
(* What stands while declarations are compiled and the code runs.          *)

Gapless(D) ==
  \A i, j \in DOMAIN D :
    i < j /\ D[j].kind = "agent" => ~(D[i].kind = "fn" /\ D[i].slots > 0)

\* Of the first n declarations, i is the last one of its name.
LastSoFar(D, n, i) ==
  /\ D[i].kind \in Slotted
  /\ \A j \in 1..n : j > i /\ D[j].kind \in Slotted => D[j].name # D[i].name

Settled(D, n, c, st, sto, sym) ==
  \A i \in 1..n : LastSoFar(D, n, i) =>
    /\ D[i].name \in DOMAIN sym
    /\ Pending(c, st, D[i], sym[D[i].name]) \/ Done(c, sto, D[i], sym[D[i].name])

AllGenuine(D, c, st, sto) ==
  /\ \A j \in 1..Len(c) : c[j].op = "OBJECT" => Genuine(D, c[j].object)
  /\ \A v : st = <<v>> => Genuine(D, v)
  /\ \A k \in DOMAIN sto : Genuine(D, sto[k])

\* No function among the first n declarations has slots of its own.
Roomless(D, n) == \A i \in 1..n : ~(D[i].kind = "fn" /\ D[i].slots > 0)

Stands(D, n, c, st, sto, sym, next) ==
  /\ Ordered(c, next) /\ Filled(c, sto)
  /\ AllGenuine(D, c, st, sto)
  /\ Settled(D, n, c, st, sto, sym)

Standing ==
  Gapless(Declarations) /\ Unmistakable(Declarations) =>
    /\ phase \in {"compiling", "initializing", "hashing", "deployed"} =>
         Stands(Declarations, Len(Declarations) - Len(queue), code, stack, storage, symbols, nextSlot)
    /\ phase = "compiling" /\ Roomless(Declarations, Len(Declarations) - Len(queue)) =>
         Covered(code, nextSlot)
    /\ phase \in {"initializing", "hashing", "deployed"} => queue = <<>>
    /\ phase \in {"hashing", "deployed"} => code = <<>>

\* The compiler reaches the declaration n + 1.
LEMMA SettledGrown ==
  ASSUME NEW D \in Seq(All), NEW n \in Nat, n + 1 \in 1..Len(D),
         NEW c \in Seq(Instructions), NEW e \in Seq(Instructions), NEW st, NEW sto,
         NEW sym, NEW sym2, NEW s \in Nat \ {0},
         Settled(D, n, c, st, sto, sym),
         \A m \in DOMAIN sym : sym[m] \in 1..(s - 1),
         D[n + 1].kind \in Slotted, Grown(c, e, D[n + 1], s),
         sym2 = [m \in DOMAIN sym \cup {D[n + 1].name} |-> IF m = D[n + 1].name THEN s ELSE sym[m]],
         DOMAIN sto = {0}
  PROVE  Settled(D, n + 1, e, st, sto, sym2)
<1> SUFFICES ASSUME NEW i \in 1..(n + 1), LastSoFar(D, n + 1, i)
             PROVE  /\ D[i].name \in DOMAIN sym2
                    /\ Pending(e, st, D[i], sym2[D[i].name])
  BY DEF Settled
<1>1. CASE i = n + 1
  <2>1. D[i].name \in DOMAIN sym2 /\ sym2[D[i].name] = s
    BY <1>1
  <2> QED
    BY <1>1, <2>1, PendingAdded
<1>2. CASE i # n + 1
  <2>1. i \in 1..n /\ n + 1 > i /\ n + 1 \in 1..(n + 1)
    BY <1>2
  <2>2. D[i].name # D[n + 1].name
    BY <2>1 DEF LastSoFar
  <2>3. LastSoFar(D, n, i)
    <3>1. \A j \in 1..n : j \in 1..(n + 1)
      OBVIOUS
    <3> QED
      BY <3>1 DEF LastSoFar
  <2>4. /\ D[i].name \in DOMAIN sym
        /\ Pending(c, st, D[i], sym[D[i].name]) \/ Done(c, sto, D[i], sym[D[i].name])
    BY <2>1, <2>3 DEF Settled
  <2>5. D[i].name \in DOMAIN sym2 /\ sym2[D[i].name] = sym[D[i].name]
    BY <2>2, <2>4
  <2>6. ~Done(c, sto, D[i], sym[D[i].name])
    BY <2>4 DEF Done
  <2>7. Extends(c, e)
    BY DEF Grown
  <2> QED
    BY <2>4, <2>5, <2>6, <2>7, PendingKept
<1> QED
  BY <1>1, <1>2

LEMMA SettledPadded ==
  ASSUME NEW D \in Seq(All), NEW n \in Nat, n + 1 \in 1..Len(D),
         NEW c \in Seq(Instructions), NEW e \in Seq(Instructions), NEW st, NEW sto, NEW sym,
         NEW s \in Nat \ {0}, Settled(D, n, c, st, sto, sym),
         \A m \in DOMAIN sym : sym[m] \in 1..(s - 1),
         D[n + 1].kind \notin Slotted, Extends(c, e), DOMAIN sto = {0}
  PROVE  Settled(D, n + 1, e, st, sto, sym)
<1> SUFFICES ASSUME NEW i \in 1..(n + 1), LastSoFar(D, n + 1, i)
             PROVE  /\ D[i].name \in DOMAIN sym
                    /\ Pending(e, st, D[i], sym[D[i].name])
  BY DEF Settled
<1>1. i # n + 1
  BY DEF LastSoFar
<1>2. i \in 1..n
  BY <1>1
<1>3. LastSoFar(D, n, i)
  <2>1. \A j \in 1..n : j \in 1..(n + 1)
    OBVIOUS
  <2> QED
    BY <2>1 DEF LastSoFar
<1>4. /\ D[i].name \in DOMAIN sym
      /\ Pending(c, st, D[i], sym[D[i].name]) \/ Done(c, sto, D[i], sym[D[i].name])
  BY <1>2, <1>3 DEF Settled
<1>5. ~Done(c, sto, D[i], sym[D[i].name])
  BY <1>4 DEF Done
<1> QED
  BY <1>4, <1>5, PendingKept

LEMMA GenuineGrown ==
  ASSUME NEW D, Unmistakable(D), NEW i \in DOMAIN D, D[i] \in All, D[i].kind \in Slotted,
         NEW c \in Seq(Instructions), NEW e \in Seq(Instructions), NEW s \in Nat \ {0},
         Grown(c, e, D[i], s), NEW st, NEW sto, AllGenuine(D, c, st, sto)
  PROVE  AllGenuine(D, e, st, sto)
<1>1. \A j \in 1..Len(e) : e[j].op = "OBJECT" =>
        j \in 1..Len(c) \/ (D[i].kind # "agent" /\ e[j].object = Object(D[i].kind, FieldsOf(D[i])))
  <2>1. e[Len(e)].op = "STORE"
    BY DEF Grown
  <2> QED
    BY <2>1, NewElements
<1>2. D[i].kind # "agent" => Genuine(D, Object(D[i].kind, FieldsOf(D[i])))
  BY GenuineValues DEF Slotted
<1>3. \A j \in 1..Len(c) : e[j] = c[j]
  BY DEF Grown, Extends
<1> QED
  BY <1>1, <1>2, <1>3 DEF AllGenuine

LEMMA StandsCompile ==
  ASSUME NEW D \in Seq(All), NEW n \in Nat, n + 1 \in 1..Len(D),
         NEW c \in Seq(Instructions), NEW e \in Seq(Instructions), NEW sto, NEW st,
         NEW sym, NEW sym2, NEW s \in Nat \ {0}, NEW s2 \in Nat \ {0},
         Gapless(D), Unmistakable(D), Stands(D, n, c, st, sto, sym, s),
         Roomless(D, n) => Covered(c, s),
         \A m \in DOMAIN sym : sym[m] \in 1..(s - 1), DOMAIN sto = {0},
         \/ /\ D[n + 1].kind \in Slotted /\ Grown(c, e, D[n + 1], s) /\ s2 = s + 1
            /\ sym2 = [m \in DOMAIN sym \cup {D[n + 1].name} |-> IF m = D[n + 1].name THEN s ELSE sym[m]]
         \/ /\ D[n + 1].kind \notin Slotted /\ Padded(c, e) /\ sym2 = sym
            /\ \/ D[n + 1].kind = "fn" /\ D[n + 1].slots \in Nat /\ s2 = s + D[n + 1].slots
               \/ D[n + 1].kind # "fn" /\ s2 = s
  PROVE  /\ Stands(D, n + 1, e, st, sto, sym2, s2)
         /\ Roomless(D, n + 1) => Covered(e, s2)
<1>1. /\ Ordered(c, s) /\ Filled(c, sto) /\ AllGenuine(D, c, st, sto)
      /\ Settled(D, n, c, st, sto, sym)
  BY DEF Stands
<1>2. Roomless(D, n + 1) => Roomless(D, n)
  BY DEF Roomless
<1>3. D[n + 1] \in All /\ n + 1 \in DOMAIN D /\ DOMAIN D = 1..Len(D) /\ Len(D) \in Nat
  BY ElementOfSeq, LenProperties
<1>4. CASE /\ D[n + 1].kind \in Slotted /\ Grown(c, e, D[n + 1], s) /\ s2 = s + 1
           /\ sym2 = [m \in DOMAIN sym \cup {D[n + 1].name} |-> IF m = D[n + 1].name THEN s ELSE sym[m]]
  <2>1. Ordered(e, s2)
    BY <1>1, <1>3, <1>4, OrderedGrown
  <2>2. D[n + 1].kind = "agent" => Covered(c, s)
    <3>1. \A i \in 1..n : i \in DOMAIN D /\ i < n + 1
      BY <1>3
    <3> QED
      BY <1>3, <3>1 DEF Gapless, Roomless
  <2>3. Filled(e, sto)
    BY <1>1, <1>3, <1>4, <2>2, FilledGrown
  <2>4. AllGenuine(D, e, st, sto)
    BY <1>1, <1>3, <1>4, GenuineGrown
  <2>5. Settled(D, n + 1, e, st, sto, sym2)
    BY <1>1, <1>4, SettledGrown
  <2>6. Roomless(D, n + 1) => Covered(e, s2)
    BY <1>2, <1>4, CoveredGrown
  <2> QED
    BY <2>1, <2>3, <2>4, <2>5, <2>6 DEF Stands
<1>5. CASE /\ D[n + 1].kind \notin Slotted /\ Padded(c, e) /\ sym2 = sym
           /\ \/ D[n + 1].kind = "fn" /\ D[n + 1].slots \in Nat /\ s2 = s + D[n + 1].slots
              \/ D[n + 1].kind # "fn" /\ s2 = s
  <2>1. Ordered(c, s2) /\ s <= s2
    <3>1. s <= s2
      <4>1. CASE D[n + 1].kind = "fn" /\ D[n + 1].slots \in Nat /\ s2 = s + D[n + 1].slots
        <5>1. PICK k \in Nat : k = D[n + 1].slots
          BY <4>1
        <5> QED
          BY <4>1, <5>1
      <4> QED
        BY <1>5, <4>1
    <3>2. \A j \in 1..Len(c) : c[j].op = "STORE" => c[j].slot \in Nat /\ c[j].slot < s
      BY <1>1, StoreSlot DEF Ordered
    <3>3. \A t \in Nat : t < s => t < s2
      BY <3>1
    <3> QED
      BY <1>1, <3>1, <3>2, <3>3 DEF Ordered
  <2>2. Ordered(e, s2) /\ Filled(e, sto)
    BY <1>1, <1>5, <2>1, StoresKept
  <2>3. AllGenuine(D, e, st, sto)
    <3>1. \A j \in 1..Len(e) : (j \in 1..Len(c) /\ e[j] = c[j]) \/ e[j].op = "NOP"
      BY <1>3, <1>5, NewElements DEF Padded, Extends
    <3> QED
      BY <1>1, <3>1 DEF AllGenuine
  <2>4. Settled(D, n + 1, e, st, sto, sym2)
    BY <1>1, <1>5, SettledPadded DEF Padded
  <2>5. Roomless(D, n + 1) => Covered(e, s2)
    <3> SUFFICES ASSUME Roomless(D, n + 1) PROVE Covered(e, s2)
      OBVIOUS
    <3>1. s2 = s
      <4>1. CASE D[n + 1].kind = "fn" /\ D[n + 1].slots \in Nat /\ s2 = s + D[n + 1].slots
        <5>1. PICK k \in Nat : k = D[n + 1].slots
          BY <4>1
        <5>2. n + 1 \in 1..(n + 1)
          OBVIOUS
        <5>3. ~(k > 0)
          BY <4>1, <5>1, <5>2 DEF Roomless
        <5> QED
          BY <4>1, <5>1, <5>3
      <4> QED
        BY <1>5, <4>1
    <3> QED
      BY <1>2, <1>5, <3>1, StoresKept
  <2> QED
    BY <2>2, <2>3, <2>4, <2>5 DEF Stands
<1> QED
  BY <1>4, <1>5

\* A registry is put beyond every slot that has its value.
LEMMA KeyBeyond ==
  ASSUME Typed, code # <<>>, code[1].op = "AGENT_DECLARE", Filled(code, storage),
         NEW x, NEW s, Done(code, storage, x, s)
  PROVE  s # RegistryKey
<1>1. code \in Seq(Instructions) /\ MachineOK
  BY DEF Typed, CompilerOK
<1>2. 1 \in 1..Len(code)
  BY <1>1, TailPositions
<1>3. 1 + 3 \in 1..Len(code) /\ code[1 + 3].op = "STORE"
  BY <1>2 DEF Filled
<1>4. PICK t \in Nat \ {0} : t = code[1 + 3].slot
  BY <1>1, <1>3, StoreSlot
<1>5. 0..(t - 1) \subseteq DOMAIN storage
  <2>1. \A k \in 0..(t - 1) : k \in DOMAIN storage \/ \E j \in 1..(1 - 1) : code[j].op = "STORE" /\ code[j].slot = k
    BY <1>2, <1>4 DEF Filled
  <2> QED
    BY <2>1
<1>6. IsFiniteSet(DOMAIN storage) /\ Cardinality(DOMAIN storage) \in Nat
  BY <1>1, FS_CardinalityType DEF MachineOK
<1>7. Cardinality(0..(t - 1)) = t
  <2>1. 0 \in Int /\ t - 1 \in Int /\ ~(0 > t - 1) /\ (t - 1) - 0 + 1 = t
    OBVIOUS
  <2> QED
    BY <2>1, FS_Interval
<1>8. Cardinality(0..(t - 1)) <= Cardinality(DOMAIN storage)
  BY <1>5, <1>6, FS_Subset
<1>9. s \in Nat /\ s < t
  BY <1>1, <1>3, <1>4 DEF Done, MachineOK
<1> QED
  BY <1>6, <1>7, <1>8, <1>9 DEF RegistryKey

Runs ==
  execNop \/ execAgentDeclare \/ execAgentGet \/ execAgentValidate \/ execObject \/ execStore

\* What an instruction does to the stack and to the storage.
LEMMA RunEffects ==
  ASSUME Typed, Runs
  PROVE  /\ code # <<>> /\ code' = Tail(code) /\ phase' = phase /\ phase = "initializing"
         /\ UNCHANGED <<queue, symbols, nextSlot, program, modules>>
         /\ code[1].op = "NOP" => stack' = <<>> /\ storage' = storage
         /\ code[1].op = "AGENT_DECLARE" =>
              stack' = <<>> /\ storage' = Put(RegistryKey, Registry(code[1].agent))
         /\ code[1].op = "AGENT_GET" =>
              /\ storage' = storage
              /\ \E k \in DOMAIN storage : storage[k].name = code[1].name /\ stack' = <<storage[k]>>
         /\ code[1].op = "AGENT_VALIDATE" =>
              /\ storage' = storage
              /\ \E v \in Values : stack = <<v>> /\ Valid(v, code[1].version) /\ stack' = <<AgentData(v)>>
         /\ code[1].op = "OBJECT" => storage' = storage /\ stack' = <<code[1].object>>
         /\ code[1].op = "STORE" =>
              \E v \in Values : stack = <<v>> /\ storage' = Put(code[1].slot, v) /\ stack' = <<>>
         /\ code[1].op \in {"NOP", "AGENT_DECLARE", "AGENT_GET", "AGENT_VALIDATE", "OBJECT", "STORE"}
<1>1. /\ code # <<>> /\ code' = Tail(code) /\ phase' = phase /\ phase = "initializing"
      /\ UNCHANGED <<queue, symbols, nextSlot, program, modules>>
  BY DEF Runs, execNop, execAgentDeclare, execAgentGet, execAgentValidate, execObject, execStore,
    Step, Executes, compiler, loader
<1>2. /\ Head(code) = code[1]
      /\ Head(code).op \in Takes => \E v \in Values : stack = <<v>>
      /\ Head(code).op \notin Takes => stack = <<>>
  BY <1>1, Operand
<1>3. CASE execNop
  BY <1>1, <1>2, <1>3 DEF execNop, Executes, machine, Takes
<1>4. CASE execAgentDeclare
  BY <1>1, <1>2, <1>4 DEF execAgentDeclare, Executes, Takes
<1>5. CASE execAgentGet
  <2>1. code[1].op = "AGENT_GET" /\ stack = <<>> /\ storage' = storage
    BY <1>2, <1>5 DEF execAgentGet, Executes, Takes
  <2>2. PICK k \in DOMAIN storage : storage[k].name = code[1].name /\ stack' = Append(stack, storage[k])
    BY <1>2, <1>5 DEF execAgentGet, Found
  <2>3. stack' = <<storage[k]>>
    BY <2>1, <2>2, StackOfOne
  <2> QED
    BY <1>1, <2>1, <2>2, <2>3
<1>6. CASE execAgentValidate
  <2>1. code[1].op = "AGENT_VALIDATE" /\ storage' = storage
    BY <1>2, <1>6 DEF execAgentValidate, Executes
  <2>2. PICK v \in Values : stack = <<v>>
    BY <1>2, <2>1 DEF Takes
  <2>3. Valid(v, code[1].version) /\ stack' = <<AgentData(v)>>
    BY <1>2, <1>6, <2>2, StackOfOne DEF execAgentValidate
  <2> QED
    BY <1>1, <2>1, <2>2, <2>3
<1>7. CASE execObject
  <2>1. code[1].op = "OBJECT" /\ storage' = storage /\ stack = <<>> /\ stack' = <<code[1].object>>
    BY <1>2, <1>7, StackOfOne DEF execObject, Executes, Takes
  <2> QED
    BY <1>1, <2>1
<1>8. CASE execStore
  <2>1. code[1].op = "STORE"
    BY <1>2, <1>8 DEF execStore, Executes
  <2>2. PICK v \in Values : stack = <<v>>
    BY <1>2, <2>1 DEF Takes
  <2>3. storage' = Put(code[1].slot, v) /\ stack' = <<>>
    BY <1>2, <1>8, <2>2, StackOfOne DEF execStore
  <2> QED
    BY <1>1, <2>1, <2>2, <2>3
<1> QED
  BY <1>3, <1>4, <1>5, <1>6, <1>7, <1>8 DEF Runs

LEMMA StandsRun ==
  ASSUME Typed, Runs, NEW D, NEW n, 1..n \subseteq DOMAIN D,
         Stands(D, n, code, stack, storage, symbols, nextSlot)
  PROVE  Stands(D, n, code', stack', storage', symbols, nextSlot)
<1>1. /\ Ordered(code, nextSlot) /\ Filled(code, storage) /\ AllGenuine(D, code, stack, storage)
      /\ Settled(D, n, code, stack, storage, symbols)
  BY DEF Stands
<1>2. /\ code \in Seq(Instructions) /\ code # <<>> /\ code' = Tail(code) /\ code[1] \in Instructions
      /\ 1 \in 1..Len(code)
      /\ \A j \in 1..Len(code') : j + 1 \in 1..Len(code) /\ code'[j] = code[j + 1]
  <2>1. code \in Seq(Instructions) /\ code # <<>> /\ code' = Tail(code)
    BY RunEffects DEF Typed, CompilerOK
  <2>2. /\ Len(code) \in Nat \ {0}
        /\ \A j \in 1..Len(code') : j + 1 \in 2..Len(code) /\ code'[j] = code[j + 1]
    BY <2>1, TailPositions
  <2>3. 1 \in 1..Len(code) /\ \A j : j \in 2..Len(code) => j \in 1..Len(code)
    BY <2>2
  <2> QED
    BY <2>1, <2>2, <2>3, ElementOfSeq
<1>3. Ordered(code', nextSlot)
      /\ (code[1].op = "STORE" => \A j \in 1..Len(code') : code'[j].op = "STORE" => code'[j].slot > code[1].slot)
  BY <1>1, <1>2, OrderedTail
<1>4. /\ DOMAIN storage \subseteq DOMAIN storage'
      /\ code[1].op = "STORE" => code[1].slot \in DOMAIN storage'
  <2>1. ASSUME NEW k, NEW w, storage' = Put(k, w)
        PROVE  DOMAIN storage' = DOMAIN storage \cup {k}
    BY ONLY storage' = Put(k, w) DEF Put
  <2> QED
    BY <2>1, RunEffects
<1>5. Filled(code', storage')
  BY <1>1, <1>2, <1>4, FilledTail
<1>6. AllGenuine(D, code', stack', storage')
  <2>1. \A j \in 1..Len(code') : code'[j].op = "OBJECT" => Genuine(D, code'[j].object)
    BY <1>1, <1>2 DEF AllGenuine
  <2>2. \A v : stack' = <<v>> => Genuine(D, v)
    <3>1. stack' = <<>> \/ \E w : stack' = <<w>> /\ Genuine(D, w)
      <4>1. CASE code[1].op \in {"NOP", "AGENT_DECLARE", "STORE"}
        BY <4>1, RunEffects
      <4>2. CASE code[1].op = "AGENT_GET"
        BY <1>1, <4>2, RunEffects DEF AllGenuine
      <4>3. CASE code[1].op = "AGENT_VALIDATE"
        BY <1>1, <4>3, RunEffects, GenuineValues DEF AllGenuine
      <4>4. CASE code[1].op = "OBJECT"
        BY <1>1, <1>2, <4>4, RunEffects DEF AllGenuine
      <4> QED
        BY <4>1, <4>2, <4>3, <4>4, RunEffects
    <3> QED
      BY <3>1
  <2>3. \A k \in DOMAIN storage' : Genuine(D, storage'[k])
    <3>1. ASSUME NEW k, NEW w, Genuine(D, w), storage' = Put(k, w)
          PROVE  \A j \in DOMAIN storage' : Genuine(D, storage'[j])
      <4>1. /\ DOMAIN storage' = DOMAIN storage \cup {k} /\ storage'[k] = w
            /\ \A j \in DOMAIN storage : j # k => storage'[j] = storage[j]
        BY ONLY storage' = Put(k, w) DEF Put
      <4> QED
        BY <1>1, <3>1, <4>1 DEF AllGenuine
    <3>2. CASE code[1].op = "AGENT_DECLARE"
      BY <3>1, <3>2, RunEffects, GenuineValues
    <3>3. CASE code[1].op = "STORE"
      BY <1>1, <3>1, <3>3, RunEffects DEF AllGenuine
    <3>4. CASE storage' = storage
      BY <1>1, <3>4 DEF AllGenuine
    <3> QED
      BY <3>2, <3>3, <3>4, RunEffects
  <2> QED
    BY <2>1, <2>2, <2>3 DEF AllGenuine
<1>7. ASSUME NEW i \in 1..n, LastSoFar(D, n, i)
      PROVE  /\ D[i].name \in DOMAIN symbols
             /\ \/ Pending(code', stack', D[i], symbols[D[i].name])
                \/ Done(code', storage', D[i], symbols[D[i].name])
  <2>1. /\ D[i].name \in DOMAIN symbols
        /\ \/ Pending(code, stack, D[i], symbols[D[i].name])
           \/ Done(code, storage, D[i], symbols[D[i].name])
    BY <1>1, <1>7 DEF Settled
  <2>2. PICK s : s = symbols[D[i].name]
    OBVIOUS
  <2>3. PICK x : x = D[i]
    OBVIOUS
  <2>4. CASE Done(code, storage, x, s)
    <3>1. s \in DOMAIN storage /\ (code[1].op = "STORE" => code[1].slot # s)
      <4>1. code[1].op = "STORE" => code[1].slot \in Nat /\ code[1].slot > s
        BY <1>2, <2>4, StoreSlot DEF Done
      <4>2. s \in Nat
        BY <2>4 DEF Done, Typed, MachineOK
      <4> QED
        BY <2>4, <4>1, <4>2 DEF Done
    <3>2. code[1].op = "AGENT_DECLARE" => RegistryKey # s
      BY <1>1, <1>2, <2>4, KeyBeyond
    <3>3. s \in DOMAIN storage' /\ storage'[s] = storage[s]
      <4>1. ASSUME NEW k, NEW w, storage' = Put(k, w), k # s
            PROVE  s \in DOMAIN storage' /\ storage'[s] = storage[s]
        BY ONLY storage' = Put(k, w), k # s, <3>1 DEF Put
      <4>2. CASE code[1].op \in {"STORE", "AGENT_DECLARE"}
        BY <3>1, <3>2, <4>1, <4>2, RunEffects
      <4>3. CASE code[1].op \notin {"STORE", "AGENT_DECLARE"}
        BY <3>1, <4>3, RunEffects
      <4> QED
        BY <4>2, <4>3
    <3>4. Done(code', storage', x, s)
      BY <1>2, <2>4, <3>3, DoneTail
    <3> QED
      BY <2>1, <2>2, <2>3, <3>4
  <2>5. CASE /\ Pending(code, stack, x, s) /\ code[1].op = "STORE" /\ code[1].slot = s
             /\ stack = <<Declared(x)>>
    <3>1. PICK v \in Values : stack = <<v>> /\ storage' = Put(code[1].slot, v)
      BY <2>5, RunEffects
    <3>2. v = Declared(x)
      BY <2>5, <3>1
    <3>3. s \in DOMAIN storage' /\ storage'[s] = Declared(x)
      BY <2>5, <3>1, <3>2, PutProperties
    <3>4. Done(code', storage', x, s)
      BY <1>3, <2>5, <3>3 DEF Done
    <3> QED
      BY <2>1, <2>2, <2>3, <3>4
  <2>6. CASE /\ Pending(code, stack, x, s)
             /\ ~(code[1].op = "STORE" /\ code[1].slot = s /\ stack = <<Declared(x)>>)
    <3>1. code[1].op = "OBJECT" => stack' = <<code[1].object>>
      BY RunEffects
    <3>2. code[1].op = "AGENT_GET" => \E v \in Values : stack' = <<v>> /\ v.name = code[1].name
      BY RunEffects DEF Typed, MachineOK
    <3>3. ASSUME NEW v \in Values, x.kind = "agent", code[1].op = "AGENT_VALIDATE", stack = <<v>>,
                 v.name = x.name, code[1].version = x.version
          PROVE  stack' = <<Declared(x)>>
      <4>1. PICK w \in Values : stack = <<w>> /\ Valid(w, code[1].version) /\ stack' = <<AgentData(w)>>
        BY <3>3, RunEffects
      <4>2. w = v
        BY <3>3, <4>1
      <4>3. Genuine(D, v)
        BY <1>1, <3>3 DEF AllGenuine
      <4>4. i \in DOMAIN D
        OBVIOUS
      <4> QED
        BY <2>3, <3>3, <4>1, <4>2, <4>3, <4>4, ValidIsDeclared
    <3>4. Pending(code', stack', x, s)
      BY <1>2, <2>6, <3>1, <3>2, <3>3, PendingTail
    <3> QED
      BY <2>1, <2>2, <2>3, <3>4
  <2> QED
    BY <2>1, <2>2, <2>3, <2>4, <2>5, <2>6
<1> QED
  BY <1>3, <1>5, <1>6, <1>7 DEF Stands, Settled

LEMMA InitialStands ==
  ASSUME NEW D, NEW sym, NEW n
  PROVE  /\ Stands(D, 0, <<>>, <<>>, [k \in {0} |-> This], sym, n)
         /\ Covered(<<>>, 1)
<1>1. Len(<<>>) = 0 /\ \A v : <<>> # <<v>>
  OBVIOUS
<1>2. Genuine(D, This)
  BY GenuineValues
<1>3. Ordered(<<>>, n) /\ Filled(<<>>, [k \in {0} |-> This])
  BY <1>1 DEF Ordered, Filled
<1>4. AllGenuine(D, <<>>, <<>>, [k \in {0} |-> This])
  BY <1>1, <1>2 DEF AllGenuine
<1>5. Settled(D, 0, <<>>, <<>>, [k \in {0} |-> This], sym)
  BY DEF Settled
<1>6. Covered(<<>>, 1)
  BY DEF Covered
<1> QED
  BY <1>3, <1>4, <1>5, <1>6 DEF Stands

LEMMA NextStanding ==
  ASSUME Typed, QueueFollows, Standing, [Next]_vars
  PROVE  Standing'
<1> DEFINE Phase4 == {"compiling", "initializing", "hashing", "deployed"}
           Goal(D) == /\ phase' \in Phase4 => Stands(D, Len(D) - Len(queue'), code', stack', storage', symbols', nextSlot')
                      /\ phase' = "compiling" /\ Roomless(D, Len(D) - Len(queue')) => Covered(code', nextSlot')
                      /\ phase' \in {"initializing", "hashing", "deployed"} => queue' = <<>>
                      /\ phase' \in {"hashing", "deployed"} => code' = <<>>
<1>1. PICK D : D = Declarations'
  OBVIOUS
<1> SUFFICES ASSUME Gapless(D), Unmistakable(D) PROVE Goal(D)
  BY <1>1 DEF Standing
<1>2. Declarations' \in Seq(All)
  BY NextLoader, DeclarationsTyped
<1>3. D \in Seq(All) /\ Len(D) \in Nat /\ DOMAIN D = 1..Len(D)
  BY <1>1, <1>2, LenProperties
<1>4. CASE phase' \notin Phase4
  BY <1>4
<1>5. CASE AnalyzeProgram /\ phase' \in Phase4
  <2>1. phase = "analyzing" /\ phase' = "compiling" /\ D = Declarations /\ queue' = Declarations
        /\ UNCHANGED <<symbols, nextSlot, code, stack, storage>>
    BY <1>1, <1>5 DEF AnalyzeProgram, machine, loader, Declarations
  <2>2. code' = <<>> /\ stack' = <<>> /\ storage' = [k \in {0} |-> This] /\ nextSlot' = 1
    BY <2>1 DEF Typed, CompilerOK, MachineOK
  <2>3. queue' = D /\ Len(D) - Len(queue') = 0
    BY <1>3, <2>1
  <2> QED
    BY <2>1, <2>2, <2>3, InitialStands
<1>6. CASE ~AnalyzeProgram /\ phase' \in Phase4
  <2>1. phase \in Phase4 /\ ~resolveModule
    BY <1>6 DEF Next, vars, Resolve, resolveModule, NotAnImport, EndOfFile, FileMissing, StackExhausted,
      Refuse, Compile, compileAgentStmt, compileObject, compileVarDecl, compileFunc, compileImport,
      PromptUnreadable, CompileEnd, Compiling, Initialize, execNop, execAgentDeclare, execAgentGet,
      execAgentValidate, execObject, execStore, Executes, InitFailed, InitEnd, agentHashFromStorage
  <2>2. D = Declarations
    BY <1>1, <2>1, DeclarationsKept
  <2>3. /\ Stands(D, Len(D) - Len(queue), code, stack, storage, symbols, nextSlot)
        /\ phase = "compiling" /\ Roomless(D, Len(D) - Len(queue)) => Covered(code, nextSlot)
        /\ phase \in {"initializing", "hashing", "deployed"} => queue = <<>>
        /\ phase \in {"hashing", "deployed"} => code = <<>>
    BY <2>1, <2>2 DEF Standing
  <2>4. CASE UNCHANGED <<queue, symbols, nextSlot, code, stack, storage>> /\ phase' \in {phase, "deployed"}
             /\ (phase' = "deployed" => phase \in {"hashing", "deployed"})
    BY <2>3, <2>4
  <2>5. CASE CompileEnd
    <3>1. /\ UNCHANGED <<queue, symbols, nextSlot, code, stack, storage>>
          /\ phase' = "initializing" /\ queue = <<>>
      BY <2>5 DEF CompileEnd, compiler, machine
    <3> QED
      BY <2>3, <3>1
  <2>6. CASE InitEnd
    <3>1. /\ UNCHANGED <<queue, symbols, nextSlot, code, stack, storage>>
          /\ phase = "initializing" /\ phase' = "hashing" /\ code = <<>>
      BY <2>6 DEF InitEnd, compiler, machine
    <3> QED
      BY <2>3, <3>1
  <2>7. CASE Compile /\ ~PromptUnreadable /\ ~CompileEnd
    <3> DEFINE d == Head(queue)
    <3>1. /\ phase = "compiling" /\ phase' = "compiling" /\ queue # <<>> /\ queue' = Tail(queue)
          /\ d \in All /\ UNCHANGED <<stack, storage>>
          /\ Gets(d) \/ Skips(d)
      BY <2>7, CompileStep DEF machine
    <3>2. /\ Len(queue) \in 1..Len(D) /\ Len(Tail(queue)) = Len(queue) - 1
          /\ d = D[Len(D) - Len(queue) + 1] /\ Len(D) - Len(queue) + 1 \in 1..Len(D)
      BY <2>2, <3>1, HeadDeclared
    <3>3. PICK n \in Nat : n = Len(D) - Len(queue) /\ Len(D) - Len(queue') = n + 1
      <4>1. PICK m \in 1..Len(D) : m = Len(queue) /\ Len(queue') = m - 1
        BY <3>1, <3>2
      <4>2. Len(D) - m \in Nat /\ Len(D) - (m - 1) = (Len(D) - m) + 1
        BY <1>3
      <4> QED
        BY <4>1, <4>2
    <3>4. d = D[n + 1] /\ n + 1 \in 1..Len(D)
      BY <3>2, <3>3
    <3>5. /\ code \in Seq(Instructions) /\ nextSlot \in Nat \ {0}
          /\ \A m \in DOMAIN symbols : symbols[m] \in 1..(nextSlot - 1)
      BY DEF Typed, CompilerOK
    <3>6. DOMAIN storage = {0}
      BY <3>1 DEF Typed, MachineOK
    <3> HIDE DEF d
    <3>7. PICK e \in Seq(Instructions), s2 \in Nat \ {0} : e = code' /\ s2 = nextSlot'
      BY NextCompiler DEF CompilerOK
    <3>8. PICK sym2 : sym2 = symbols'
      OBVIOUS
    <3>9. (Gets(d) => Grown(code, e, d, nextSlot)) /\ (Skips(d) => Padded(code, e))
      <4>1. (Gets(d) => Grown(code, code', d, nextSlot)) /\ (Skips(d) => Padded(code, code'))
        BY <3>1, CompiledCode
      <4> QED
        BY <3>7, <4>1
    <3>10. \/ /\ D[n + 1].kind \in Slotted /\ Grown(code, e, D[n + 1], nextSlot) /\ s2 = nextSlot + 1
              /\ sym2 = [m \in DOMAIN symbols \cup {D[n + 1].name} |->
                           IF m = D[n + 1].name THEN nextSlot ELSE symbols[m]]
           \/ /\ D[n + 1].kind \notin Slotted /\ Padded(code, e) /\ sym2 = symbols
              /\ \/ D[n + 1].kind = "fn" /\ D[n + 1].slots \in Nat /\ s2 = nextSlot + D[n + 1].slots
                 \/ D[n + 1].kind # "fn" /\ s2 = nextSlot
      <4>1. CASE Gets(d)
        BY <3>4, <3>7, <3>8, <3>9, <4>1 DEF Gets, AllocSlot, Bound
      <4>2. CASE Skips(d)
        BY <3>4, <3>7, <3>8, <3>9, <4>2 DEF Skips
      <4> QED
        BY <3>1, <4>1, <4>2
    <3>11. /\ Stands(D, n, code, stack, storage, symbols, nextSlot)
           /\ Roomless(D, n) => Covered(code, nextSlot)
      BY <2>3, <3>1, <3>3
    <3>12. /\ Stands(D, n + 1, e, stack, storage, sym2, s2)
           /\ Roomless(D, n + 1) => Covered(e, s2)
      BY <1>3, <3>4, <3>5, <3>6, <3>10, <3>11, StandsCompile
    <3> QED
      <4>1. /\ Stands(D, n + 1, code', stack', storage', symbols', nextSlot')
            /\ Roomless(D, n + 1) => Covered(code', nextSlot')
        BY <3>1, <3>7, <3>8, <3>12
      <4>2. phase' = "compiling" /\ Len(D) - Len(queue') = n + 1
        BY <3>1, <3>3
      <4> QED
        BY <4>1, <4>2
  <2>8. CASE Runs
    <3>1. phase = "initializing" /\ phase' = phase /\ UNCHANGED <<queue, symbols, nextSlot>>
      BY <2>8, RunEffects
    <3>2. queue = <<>> /\ Len(queue) = 0
      BY <2>3, <3>1
    <3>3. Len(D) - Len(queue) = Len(D) /\ 1..Len(D) \subseteq DOMAIN D
      BY <1>3, <3>2
    <3>4. Stands(D, Len(D), code', stack', storage', symbols, nextSlot)
      BY <2>3, <2>8, <3>3, StandsRun
    <3> QED
      BY <3>1, <3>2, <3>3, <3>4
  <2>9. CASE agentHashFromStorage \/ UNCHANGED vars
    BY <1>6, <2>4, <2>9 DEF agentHashFromStorage, vars, compiler, machine
  <2>10. ~Resolve /\ ~PromptUnreadable /\ ~InitFailed
    BY <1>6, <2>1 DEF Resolve, resolveModule, NotAnImport, EndOfFile, FileMissing, StackExhausted,
      PromptUnreadable, InitFailed, Refuse
  <2> QED
    BY <1>6, <2>5, <2>6, <2>7, <2>8, <2>9, <2>10 DEF Next, Compile, Initialize, Runs
<1> QED
  BY <1>4, <1>5, <1>6

\* Neither the registries that agents leave in storage, under keys computed from its
\* size, nor a later declaration takes the slot of another: once the top-level code
\* has run, each name's slot holds what its last declaration says, if no function
\* with slots comes before an agent and no object passes for an agent's registry.
THEOREM DeclarationsKeepTheirSlots == Spec => []DeclarationsStand
<1>1. Init => Standing
  BY DEF Init, Standing
<1>2. Typed /\ QueueFollows /\ Standing /\ [Next]_vars => Standing'
  BY NextStanding
<1>3. Typed /\ QueueFollows /\ Standing => DeclarationsStand
  <2> SUFFICES ASSUME Typed, QueueFollows, Standing, phase \in {"hashing", "deployed"}, NoHoles, NoImpostor,
                      NEW i \in DOMAIN Declarations, Declarations[i].kind \in Slotted, LastOfItsName(i)
               PROVE  /\ Declarations[i].name \in DOMAIN symbols
                      /\ storage[symbols[Declarations[i].name]] = Declared(Declarations[i])
    BY DEF DeclarationsStand
  <2>1. PICK D : D = Declarations
    OBVIOUS
  <2>2. D \in Seq(All) /\ Len(D) \in Nat /\ DOMAIN D = 1..Len(D)
    BY <2>1, DeclarationsTyped, LenProperties DEF Typed
  <2>3. Gapless(D) /\ Unmistakable(D)
    BY <2>1 DEF NoHoles, NoImpostor, Gapless, Unmistakable
  <2>4. queue = <<>> /\ code = <<>> /\ Stands(D, Len(D) - Len(queue), code, stack, storage, symbols, nextSlot)
    BY <2>1, <2>3 DEF Standing
  <2>5. Len(D) - Len(queue) = Len(D) /\ Len(code) = 0
    BY <2>2, <2>4
  <2>6. i \in 1..Len(D) /\ LastSoFar(D, Len(D), i)
    BY <2>1, <2>2 DEF LastSoFar, LastOfItsName
  <2>7. /\ D[i].name \in DOMAIN symbols
        /\ \/ Pending(code, stack, D[i], symbols[D[i].name])
           \/ Done(code, storage, D[i], symbols[D[i].name])
    BY <2>4, <2>5, <2>6 DEF Stands, Settled
  <2>8. ~Pending(code, stack, D[i], symbols[D[i].name])
    BY <2>5 DEF Pending
  <2> QED
    BY <2>1, <2>7, <2>8 DEF Done
<1> QED
  BY <1>1, <1>2, <1>3, AlwaysFollows, PTL DEF Spec

-----------------------------------------------------------------------------
(* The loader.  Its calls are a path of imports from main: when there are  *)
(* as many as the stack holds, and one more import, the path is longer     *)
(* than there are files.                                                   *)

ImportAt(p, f, k) == k \in DOMAIN p[f] /\ p[f][k].kind = "import"

\* Each call but the last has passed the import that led to the next call.
Walked(p, fr) ==
  /\ fr[1].file = "main"
  /\ \A i \in 1..(Len(fr) - 1) :
       /\ ImportAt(p, fr[i].file, fr[i].next - 1)
       /\ p[fr[i].file][fr[i].next - 1].file = fr[i + 1].file

LoaderWalks ==
  /\ Walked(program, frames)
  /\ phase = "crashed" =>
       /\ Len(frames) = MaxFrames
       /\ ImportAt(program, Top.file, Top.next) /\ Statement.file \in Files

Calls(p) == Seq([file : DOMAIN p, next : Nat \ {0}])

LEMMA WalkedOn ==
  ASSUME NEW p, NEW fr \in Calls(p), fr # <<>>, Walked(p, fr),
         NEW top, top.file = fr[Len(fr)].file, NEW fr2 \in Calls(p), Len(fr2) = Len(fr),
         \A i \in 1..(Len(fr) - 1) : fr2[i] = fr[i],
         fr2[Len(fr)] = top
  PROVE  Walked(p, fr2)
<1>1. Len(fr) \in Nat \ {0}
  BY EmptySeq DEF Calls
<1>2. fr2[1].file = "main"
  <2>1. CASE Len(fr) = 1
    BY <2>1 DEF Walked
  <2>2. CASE Len(fr) # 1
    <3>1. 1 \in 1..(Len(fr) - 1)
      BY <1>1, <2>2
    <3> QED
      BY <3>1 DEF Walked
  <2> QED
    BY <2>1, <2>2
<1>3. ASSUME NEW i \in 1..(Len(fr) - 1)
      PROVE  /\ ImportAt(p, fr2[i].file, fr2[i].next - 1)
             /\ p[fr2[i].file][fr2[i].next - 1].file = fr2[i + 1].file
  <2>1. fr2[i] = fr[i]
    OBVIOUS
  <2>2. fr2[i + 1].file = fr[i + 1].file
    <3>1. i + 1 \in 1..(Len(fr) - 1) \/ i + 1 = Len(fr)
      BY <1>1
    <3> QED
      BY <3>1
  <2> QED
    BY <2>1, <2>2 DEF Walked
<1> QED
  BY <1>2, <1>3 DEF Walked

LEMMA WalkedInto ==
  ASSUME NEW p, NEW fr \in Calls(p), fr # <<>>, Walked(p, fr),
         NEW e \in [file : DOMAIN p, next : Nat \ {0}],
         ImportAt(p, fr[Len(fr)].file, fr[Len(fr)].next - 1),
         p[fr[Len(fr)].file][fr[Len(fr)].next - 1].file = e.file
  PROVE  Walked(p, Append(fr, e))
<1> DEFINE a == Append(fr, e)
<1>1. /\ Len(fr) \in Nat \ {0} /\ Len(a) = Len(fr) + 1
      /\ \A i \in 1..Len(fr) : a[i] = fr[i]
      /\ a[Len(fr) + 1] = e
  BY EmptySeq, AppendedProperties DEF Calls
<1> HIDE DEF a
<1>2. a[1].file = "main"
  <2>1. 1 \in 1..Len(fr)
    BY <1>1
  <2> QED
    BY <1>1, <2>1 DEF Walked
<1>3. ASSUME NEW i \in 1..(Len(a) - 1)
      PROVE  /\ ImportAt(p, a[i].file, a[i].next - 1)
             /\ p[a[i].file][a[i].next - 1].file = a[i + 1].file
  <2>1. i \in 1..Len(fr) /\ a[i] = fr[i]
    BY <1>1
  <2>2. CASE i = Len(fr)
    BY <1>1, <2>1, <2>2
  <2>3. CASE i # Len(fr)
    <3>1. i \in 1..(Len(fr) - 1) /\ i + 1 \in 1..Len(fr)
      BY <1>1, <2>1, <2>3
    <3> QED
      BY <1>1, <2>1, <3>1 DEF Walked
  <2> QED
    BY <2>2, <2>3
<1> QED
  BY <1>2, <1>3 DEF Walked, a

LEMMA WalkedBack ==
  ASSUME NEW p, NEW fr \in Calls(p), Len(fr) > 1, Walked(p, fr)
  PROVE  Walked(p, Front(fr))
<1> DEFINE a == Front(fr)
<1>1. /\ Len(fr) \in Nat \ {0} /\ Len(a) = Len(fr) - 1
      /\ \A i \in 1..(Len(fr) - 1) : a[i] = fr[i]
  <2>1. fr # <<>>
    BY EmptySeq DEF Calls
  <2> QED
    BY <2>1, FrontProperties DEF Calls
<1> HIDE DEF a
<1>2. 1 \in 1..(Len(fr) - 1)
  BY <1>1
<1>3. \A i \in 1..(Len(a) - 1) : i \in 1..(Len(fr) - 1) /\ i + 1 \in 1..(Len(fr) - 1)
  BY <1>1
<1> QED
  BY <1>1, <1>2, <1>3 DEF Walked, a

\* Advanced, and the import passed.
LEMMA AdvancedWalks ==
  ASSUME LoaderOK, Walked(program, frames)
  PROVE  /\ Walked(program, Advanced)
         /\ Advanced[Len(Advanced)] = [file |-> Top.file, next |-> Top.next + 1]
         /\ Top \in [file : Files, next : Nat \ {0}] /\ Top = frames[Len(frames)]
<1> DEFINE F == [file : Files, next : Nat \ {0}]
           e == [file |-> Top.file, next |-> Top.next + 1]
<1>1. frames \in Seq(F) /\ frames # <<>>
  BY AdvancedTyped DEF LoaderOK
<1>2. Top \in F /\ Top = frames[Len(frames)] /\ Len(frames) \in Nat \ {0}
  <2> HIDE DEF F
  <2> QED
    BY <1>1, FrontProperties DEF Top
<1>3. e \in F
  BY <1>2
<1>4. Advanced = [frames EXCEPT ![Len(frames)] = e]
  <2>1. ASSUME NEW x \in F PROVE [x EXCEPT !.next = @ + 1] = [file |-> x.file, next |-> x.next + 1]
    OBVIOUS
  <2>2. [frames[Len(frames)] EXCEPT !.next = @ + 1] = e
    BY <1>2, <2>1
  <2> HIDE DEF e
  <2> QED
    BY <2>2, Zenon DEF Advanced
<1>5. e.file = Top.file
  OBVIOUS
<1> HIDE DEF e, F
<1>6. /\ Advanced \in Seq(F) /\ Len(Advanced) = Len(frames)
      /\ \A i \in 1..(Len(frames) - 1) : Advanced[i] = frames[i]
      /\ Advanced[Len(frames)] = e
  BY <1>1, <1>3, <1>4, LastRewritten
<1>7. frames \in Calls(program) /\ Advanced \in Calls(program)
  BY <1>1, <1>6 DEF Calls, Files, F
<1>8. Walked(program, Advanced)
  BY <1>1, <1>2, <1>5, <1>6, <1>7, WalkedOn
<1> QED
  BY <1>2, <1>6, <1>8 DEF e, F

LEMMA NextLoaderWalks ==
  ASSUME Typed, LoaderWalks, [Next]_vars
  PROVE  LoaderWalks'
<1>1. LoaderOK /\ Walked(program, frames) /\ frames \in Calls(program)
  BY DEF LoaderWalks, Typed, LoaderOK, Calls, Files
<1>2. /\ Walked(program, Advanced)
      /\ Advanced[Len(Advanced)] = [file |-> Top.file, next |-> Top.next + 1]
      /\ Top \in [file : Files, next : Nat \ {0}]
      /\ Advanced \in Calls(program) /\ Len(Advanced) = Len(frames) /\ Advanced # <<>>
  <2>1. Len(Advanced) = Len(frames) /\ Len(frames) \in 1..MaxFrames
        /\ Advanced \in Seq([file : Files, next : Nat \ {0}])
    BY <1>1, AdvancedTyped DEF LoaderOK
  <2>2. Advanced # <<>>
    BY <2>1, FramesAssumption
  <2> QED
    BY <1>1, <2>1, <2>2, AdvancedWalks DEF Calls, Files
<1>3. ~AtEnd => Top.next \in DOMAIN program[Top.file]
  <2>1. program[Top.file] \in Seq(All)
    BY <1>1, <1>2, FilesHoldDeclarations DEF LoaderOK, Files
  <2>2. Len(program[Top.file]) \in Nat /\ DOMAIN program[Top.file] = 1..Len(program[Top.file])
    BY <2>1, LenProperties
  <2> QED
    BY <1>2, <2>2 DEF AtEnd
<1>4. CASE resolveModule
  <2>1. ImportAt(program, Top.file, Top.next) /\ Statement.file \in Files
    BY <1>3, <1>4 DEF resolveModule, ImportAt, Statement
  <2>2. PICK e \in [file : DOMAIN program, next : Nat \ {0}] : e = Opened(Statement.file)
    <3>1. PICK f \in DOMAIN program : f = Statement.file
      BY ONLY <2>1 DEF Files
    <3>2. [file |-> f, next |-> 1] \in [file : DOMAIN program, next : Nat \ {0}]
      OBVIOUS
    <3>3. Opened(Statement.file) = [file |-> f, next |-> 1]
      BY ONLY <3>1 DEF Opened
    <3> QED
      BY ONLY <3>2, <3>3
  <2>3. (Top.next + 1) - 1 = Top.next
    BY <1>2
  <2>4. Walked(program, Append(Advanced, e))
    <3>1. Advanced[Len(Advanced)].file = Top.file /\ Advanced[Len(Advanced)].next - 1 = Top.next
      BY <1>2, <2>3
    <3>2. e.file = program[Top.file][Top.next].file
      BY <2>2 DEF Opened, Statement
    <3> QED
      BY <1>2, <2>1, <3>1, <3>2, WalkedInto
  <2> QED
    BY <1>4, <2>2, <2>4 DEF resolveModule, LoaderWalks
<1>5. CASE NotAnImport
  BY <1>2, <1>5 DEF NotAnImport, LoaderWalks
<1>6. CASE EndOfFile
  <2>1. Len(frames) > 1 => Walked(program, Front(frames))
    BY <1>1, WalkedBack
  <2> QED
    BY <1>1, <1>6, <2>1 DEF EndOfFile, LoaderWalks
<1>7. CASE StackExhausted
  <2>1. ImportAt(program, Top.file, Top.next) /\ Statement.file \in Files /\ Len(frames) = MaxFrames
    BY <1>3, <1>7 DEF StackExhausted, ImportAt, Statement
  <2>2. UNCHANGED <<program, frames>>
    BY <1>7 DEF StackExhausted, loader
  <2> QED
    BY <1>1, <2>1, <2>2 DEF LoaderWalks, Top, Statement, Files
<1>8. CASE UNCHANGED vars
  BY <1>8 DEF vars, loader, LoaderWalks, Top, Statement, Files
<1>9. CASE UNCHANGED <<program, frames>> /\ phase' # "crashed"
  BY <1>1, <1>9 DEF LoaderWalks
<1>10. CASE FileMissing \/ AnalyzeProgram \/ Compile \/ Initialize \/ agentHashFromStorage
  <2>1. UNCHANGED <<program, frames>> /\ phase' # "crashed"
    BY <1>10 DEF FileMissing, AnalyzeProgram, Refuse, loader, Compile, compileAgentStmt, compileObject,
      compileVarDecl, compileFunc, compileImport, PromptUnreadable, CompileEnd, Compiling, Initialize,
      execNop, execAgentDeclare, execAgentGet, execAgentValidate, execObject, execStore, Executes, Step,
      InitFailed, InitEnd, agentHashFromStorage
  <2> QED
    BY <1>9, <2>1
<1> QED
  BY <1>4, <1>5, <1>6, <1>7, <1>8, <1>10 DEF Next, Resolve

\* The loader can go down a path of imports that repeats no file without
\* exhausting the stack.
FilesFitTheStack ==
  \A p \in Programs : Cardinality(DOMAIN p) <= MaxFrames

LEMMA CrashedWalkIsCycle ==
  ASSUME FilesFitTheStack, Typed, LoaderWalks, phase = "crashed"
  PROVE  Cyclic
<1>1. PICK n \in Nat \ {0} : n = Cardinality(Files) /\ n <= MaxFrames
  <2>1. program \in Programs /\ "main" \in Files
    BY ProgramsAssumption DEF Typed, LoaderOK, Files
  <2>2. IsFiniteSet(Files) /\ Cardinality(Files) <= MaxFrames
    BY <2>1, ProgramsAssumption DEF FilesFitTheStack, Files
  <2>3. Cardinality(Files) \in Nat /\ Cardinality(Files) # 0
    BY <2>1, <2>2, FS_CardinalityType, FS_EmptySet
  <2> QED
    BY <2>2, <2>3
<1>2. /\ frames \in Seq([file : Files, next : Nat \ {0}]) /\ Len(frames) = MaxFrames
      /\ MaxFrames \in Nat \ {0}
      /\ Walked(program, frames) /\ ImportAt(program, Top.file, Top.next) /\ Statement.file \in Files
  BY FramesAssumption DEF LoaderWalks, Typed, LoaderOK
<1>3. Top = frames[MaxFrames] /\ \A i \in 1..MaxFrames : frames[i].file \in Files
  <2> DEFINE F == [file : Files, next : Nat \ {0}]
  <2>1. frames \in Seq(F) /\ Len(frames) = MaxFrames
    BY <1>2
  <2>2. \A e \in F : e.file \in Files
    OBVIOUS
  <2> HIDE DEF F
  <2>3. \A i \in 1..MaxFrames : frames[i] \in F
    BY ONLY <2>1, ElementOfSeq
  <2>4. Top = frames[MaxFrames]
    BY <1>2 DEF Top, Last
  <2> QED
    BY <2>2, <2>3, <2>4
<1> DEFINE at(i) == IF i < MaxFrames THEN <<frames[i].file, frames[i].next - 1>> ELSE <<Top.file, Top.next>>
           q == [i \in 1..n |-> at(i)]
<1>4. ASSUME NEW i \in 1..MaxFrames
      PROVE  /\ at(i) \in Imports /\ at(i)[1] = frames[i].file
             /\ Target(at(i)) = IF i < MaxFrames THEN frames[i + 1].file ELSE Statement.file
  <2>1. CASE i < MaxFrames
    <3>1. i \in 1..(Len(frames) - 1)
      BY <1>2, <2>1
    <3>2. /\ ImportAt(program, frames[i].file, frames[i].next - 1)
          /\ program[frames[i].file][frames[i].next - 1].file = frames[i + 1].file
      BY <1>2, <3>1 DEF Walked
    <3>3. <<frames[i].file, frames[i].next - 1>> \in Statements
      BY <1>3, <3>2 DEF Statements, ImportAt
    <3> QED
      BY <2>1, <3>2, <3>3 DEF Imports, At, Target, ImportAt
  <2>2. CASE ~(i < MaxFrames)
    <3>1. i = MaxFrames /\ frames[i] = Top
      BY <1>2, <1>3, <2>2
    <3>2. <<Top.file, Top.next>> \in Statements
      BY <1>2, <1>3, <3>1 DEF Statements, ImportAt
    <3> QED
      BY <1>2, <2>2, <3>1, <3>2 DEF Imports, At, Target, ImportAt, Statement
  <2> QED
    BY <2>1, <2>2
<1> HIDE DEF at
<1>5. \A i \in 1..n : i \in 1..MaxFrames
  BY <1>1, <1>2
<1>6. q \in [1..n -> Imports]
  BY <1>4, <1>5
<1>7. DOMAIN q = 1..n /\ \A i \in 1..n : q[i] = at(i)
  OBVIOUS
<1> HIDE DEF q
<1>8. ASSUME NEW k \in 1..n
      PROVE  Continues(q, k)
  <2>1. CASE k = 1
    BY <1>2, <1>4, <1>5, <1>7, <2>1 DEF Continues, Walked
  <2>2. CASE k # 1
    <3>1. k - 1 \in 1..n /\ k - 1 < MaxFrames /\ (k - 1) + 1 = k
      BY <1>1, <1>2, <2>2
    <3>2. Target(q[k - 1]) = frames[k].file
      BY <1>4, <1>5, <1>7, <3>1
    <3> QED
      BY <1>4, <1>5, <1>7, <2>2, <3>2 DEF Continues
  <2> QED
    BY <2>1, <2>2
<1>9. q \in Paths
  <2>1. n \in 0..Cardinality(Files)
    BY <1>1
  <2> QED
    BY <1>6, <1>7, <1>8, <2>1 DEF Paths
<1>10. q \in Seq(Imports) /\ Len(q) = n
  BY <1>6, <1>7
<1>11. Target(Last(q)) \in Files
  <2>1. n \in 1..n /\ n \in 1..MaxFrames /\ (n < MaxFrames => n + 1 \in 1..MaxFrames)
    BY <1>1, <1>2
  <2>2. Last(q) = at(n)
    BY <1>7, <1>10, <2>1 DEF Last
  <2> QED
    BY <1>2, <1>3, <1>4, <2>1, <2>2
<1> QED
  BY <1>1, <1>9, <1>10, <1>11 DEF Cyclic

\* If the stack holds a call for every file, the loader exhausts it only when the
\* imports form a cycle.
THEOREM CrashesOnCycles == FilesFitTheStack => (Spec => []CrashedOnlyOnCycles)
<1> SUFFICES ASSUME FilesFitTheStack PROVE Spec => []CrashedOnlyOnCycles
  OBVIOUS
<1>1. Init => LoaderWalks
  <2> SUFFICES ASSUME Init PROVE LoaderWalks
    OBVIOUS
  <2>1. Len(frames) = 1 /\ frames[1].file = "main"
    BY DEF Init, Entry
  <2> QED
    BY <2>1 DEF Init, LoaderWalks, Walked
<1>2. Typed /\ LoaderWalks /\ [Next]_vars => LoaderWalks'
  BY NextLoaderWalks
<1>3. Typed /\ LoaderWalks => CrashedOnlyOnCycles
  BY CrashedWalkIsCycle DEF CrashedOnlyOnCycles
<1> QED
  BY <1>1, <1>2, <1>3, AlwaysTyped, PTL DEF Spec

-----------------------------------------------------------------------------
(* The loader goes down every path of imports once.  At any time the paths *)
(* it has been down are those it is on and those that leave it at an       *)
(* import before the one it is at; the modules loaded correspond to them.  *)

ImportsIn(p) ==
  {i \in UNION {{f} \X DOMAIN p[f] : f \in DOMAIN p} : p[i[1]][i[2]].kind = "import"}
Leads(p, i) == p[i[1]][i[2]].file

\* Paths of imports of any length.
Chains(p) ==
  {c \in Seq(ImportsIn(p)) :
     \A k \in DOMAIN c : c[k][1] = IF k = 1 THEN "main" ELSE Leads(p, c[k - 1])}

Passing(fr, k) == <<fr[k].file, fr[k].next - 1>>
Agrees(fr, c, k) == \A j \in 1..k : c[j] = Passing(fr, j)
StandsAt(fr, k) == IF k = Len(fr) THEN fr[k].next ELSE fr[k].next - 1

Visited(fr, c) ==
  \/ Len(c) < Len(fr) /\ Agrees(fr, c, Len(c))
  \/ \E k \in 1..Len(c) : k <= Len(fr) /\ Agrees(fr, c, k - 1) /\ c[k][2] < StandsAt(fr, k)

Corresponds(p, fr, m, g) ==
  /\ g \in [1..Len(m) -> Chains(p)]
  /\ \A i \in 1..Len(m) :
       /\ g[i] # <<>> /\ Len(g[i]) < MaxFrames
       /\ Visited(fr, g[i]) /\ Leads(p, g[i][Len(g[i])]) = m[i]
  /\ \A i, j \in 1..Len(m) : g[i] = g[j] => i = j
  /\ \A c \in Chains(p) : c # <<>> /\ Visited(fr, c) => \E i \in 1..Len(m) : g[i] = c

Program(p) == "main" \in DOMAIN p /\ IsFiniteSet(DOMAIN p) /\ \A f \in DOMAIN p : p[f] \in Seq(All)

LEMMA ChainElements ==
  ASSUME NEW p, Program(p), NEW c \in Chains(p)
  PROVE  /\ Len(c) \in Nat /\ DOMAIN c = 1..Len(c) /\ c \in Seq(ImportsIn(p))
         /\ \A k \in 1..Len(c) :
              /\ c[k] \in ImportsIn(p) /\ c[k][1] \in DOMAIN p
              /\ c[k][2] \in 1..Len(p[c[k][1]]) /\ c[k][2] \in Nat \ {0}
              /\ Len(p[c[k][1]]) \in Nat
              /\ c[k] = <<c[k][1], c[k][2]>> /\ ImportAt(p, c[k][1], c[k][2])
              /\ c[k][1] = IF k = 1 THEN "main" ELSE Leads(p, c[k - 1])
<1> DEFINE I == ImportsIn(p)
<1>1. c \in Seq(I) /\ \A k \in DOMAIN c : c[k][1] = IF k = 1 THEN "main" ELSE Leads(p, c[k - 1])
  BY DEF Chains
<1>2. ASSUME NEW i \in I
      PROVE  /\ i[1] \in DOMAIN p /\ i[2] \in DOMAIN p[i[1]] /\ i = <<i[1], i[2]>>
             /\ ImportAt(p, i[1], i[2])
  BY DEF ImportsIn, ImportAt
<1>3. ASSUME NEW f \in DOMAIN p
      PROVE  DOMAIN p[f] = 1..Len(p[f]) /\ Len(p[f]) \in Nat
  BY LenProperties DEF Program
<1> HIDE DEF I
<1>4. Len(c) \in Nat /\ DOMAIN c = 1..Len(c) /\ \A k \in 1..Len(c) : c[k] \in I
  BY <1>1, LenProperties, ElementOfSeq
<1>5. ASSUME NEW k \in 1..Len(c)
      PROVE  /\ c[k] \in I /\ c[k][1] \in DOMAIN p
             /\ c[k][2] \in 1..Len(p[c[k][1]]) /\ c[k][2] \in Nat \ {0}
             /\ Len(p[c[k][1]]) \in Nat
             /\ c[k] = <<c[k][1], c[k][2]>> /\ ImportAt(p, c[k][1], c[k][2])
             /\ c[k][1] = IF k = 1 THEN "main" ELSE Leads(p, c[k - 1])
  <2>1. c[k] \in I
    BY <1>4
  <2>2. c[k][1] \in DOMAIN p /\ c[k][2] \in DOMAIN p[c[k][1]] /\ c[k] = <<c[k][1], c[k][2]>>
        /\ ImportAt(p, c[k][1], c[k][2])
    BY <1>2, <2>1
  <2>3. DOMAIN p[c[k][1]] = 1..Len(p[c[k][1]]) /\ Len(p[c[k][1]]) \in Nat
    BY <1>3, <2>2
  <2>4. c[k][2] \in 1..Len(p[c[k][1]]) /\ c[k][2] \in Nat \ {0}
    BY <2>2, <2>3
  <2> QED
    BY <1>1, <1>4, <2>1, <2>2, <2>3, <2>4
<1> QED
  BY <1>1, <1>4, <1>5 DEF I

\* A path that agrees with the calls as far as one goes through its file.
LEMMA AgreedFile ==
  ASSUME NEW p, Program(p), NEW fr \in Calls(p), Walked(p, fr),
         NEW c \in Chains(p), NEW k \in 1..Len(c), k <= Len(fr), Agrees(fr, c, k - 1)
  PROVE  c[k][1] = fr[k].file
<1>1. k \in Nat \ {0} /\ Len(fr) \in Nat /\ Len(c) \in Nat
  BY ChainElements DEF Calls
<1>2. CASE k = 1
  BY <1>2, ChainElements DEF Walked
<1>3. CASE k # 1
  <2>1. k - 1 \in 1..(Len(fr) - 1) /\ k - 1 \in 1..(k - 1) /\ (k - 1) + 1 = k
    BY <1>1, <1>3
  <2>2. c[k - 1] = Passing(fr, k - 1)
    BY <2>1 DEF Agrees
  <2>3. p[fr[k - 1].file][fr[k - 1].next - 1].file = fr[k].file
    BY <2>1 DEF Walked
  <2>4. c[k][1] = Leads(p, c[k - 1])
    BY <1>3, ChainElements
  <2> QED
    BY <2>2, <2>3, <2>4 DEF Passing, Leads
<1> QED
  BY <1>2, <1>3

LEMMA CallsTyped ==
  ASSUME NEW p, NEW fr \in Calls(p)
  PROVE  Len(fr) \in Nat /\ \A k \in 1..Len(fr) : fr[k].file \in DOMAIN p /\ fr[k].next \in Nat \ {0}
<1> DEFINE F == [file : DOMAIN p, next : Nat \ {0}]
<1>1. fr \in Seq(F)
  BY DEF Calls
<1>2. \A e \in F : e.file \in DOMAIN p /\ e.next \in Nat \ {0}
  OBVIOUS
<1> HIDE DEF F
<1>3. Len(fr) \in Nat /\ \A k \in 1..Len(fr) : fr[k] \in F
  BY <1>1, LenProperties, ElementOfSeq
<1> QED
  BY <1>2, <1>3

\* What a call under way means for the paths: the step into an import.
LEMMA VisitedInto ==
  ASSUME NEW p, Program(p), NEW fr \in Calls(p), Walked(p, fr), NEW n \in Nat \ {0}, n = Len(fr),
         NEW fr2, Len(fr2) = n + 1, \A i \in 1..(n - 1) : fr2[i] = fr[i],
         fr2[n].next = fr[n].next + 1, fr2[n + 1].next = 1,
         NEW c \in Chains(p)
  PROVE  Visited(fr2, c) <=> Visited(fr, c) \/ (Len(c) = n /\ Agrees(fr2, c, n))
<1>1. /\ Len(c) \in Nat /\ \A k \in 1..n : fr[k].next \in Nat \ {0}
      /\ \A k \in 1..Len(c) : c[k][2] \in Nat \ {0}
  BY CallsTyped, ChainElements
<1>2. ASSUME NEW k \in Nat, k < n
      PROVE  Agrees(fr2, c, k) <=> Agrees(fr, c, k)
  BY <1>2 DEF Agrees, Passing
<1>3. ASSUME NEW k \in 1..Len(c), k <= n
      PROVE  StandsAt(fr2, k) = StandsAt(fr, k) /\ (Agrees(fr2, c, k - 1) <=> Agrees(fr, c, k - 1))
  <2>1. k \in 1..n /\ k - 1 \in Nat /\ k - 1 < n
    BY <1>1, <1>3
  <2>2. Agrees(fr2, c, k - 1) <=> Agrees(fr, c, k - 1)
    BY <1>2, <2>1
  <2>3. CASE k = n
    <3>1. StandsAt(fr, k) = fr[n].next /\ StandsAt(fr2, k) = fr2[n].next - 1 /\ fr[n].next \in Nat
      BY <1>1, <2>1, <2>3 DEF StandsAt
    <3> QED
      BY <2>2, <3>1
  <2>4. CASE k # n
    <3>1. k \in 1..(n - 1) /\ k # n + 1
      BY <2>1, <2>4
    <3>2. fr2[k] = fr[k]
      BY <3>1
    <3> QED
      BY <2>2, <2>4, <3>1, <3>2 DEF StandsAt
  <2> QED
    BY <2>3, <2>4
<1>4. ASSUME NEW k \in 1..Len(c), k <= n + 1, ~(k <= n)
      PROVE  ~(c[k][2] < StandsAt(fr2, k))
  BY <1>1, <1>4 DEF StandsAt
<1>5. Len(c) < n + 1 /\ Agrees(fr2, c, Len(c)) <=>
        (Len(c) < n /\ Agrees(fr, c, Len(c))) \/ (Len(c) = n /\ Agrees(fr2, c, n))
  BY <1>1, <1>2
<1>6. (\E k \in 1..Len(c) : k <= n + 1 /\ Agrees(fr2, c, k - 1) /\ c[k][2] < StandsAt(fr2, k)) <=>
      (\E k \in 1..Len(c) : k <= n /\ Agrees(fr, c, k - 1) /\ c[k][2] < StandsAt(fr, k))
  <2>1. \A k \in 1..Len(c) : k <= n => k <= n + 1
    BY <1>1
  <2> QED
    BY <1>3, <1>4, <2>1
<1> QED
  BY <1>5, <1>6 DEF Visited

\* past a declaration that is no import,
LEMMA VisitedOn ==
  ASSUME NEW p, Program(p), NEW fr \in Calls(p), Walked(p, fr), NEW n \in Nat \ {0}, n = Len(fr),
         NEW fr2, Len(fr2) = n, \A i \in 1..(n - 1) : fr2[i] = fr[i],
         fr2[n].next = fr[n].next + 1, ~ImportAt(p, fr[n].file, fr[n].next),
         NEW c \in Chains(p)
  PROVE  Visited(fr2, c) <=> Visited(fr, c)
<1>1. /\ Len(c) \in Nat /\ \A k \in 1..n : fr[k].next \in Nat \ {0}
      /\ \A k \in 1..Len(c) : c[k][2] \in Nat \ {0}
  BY CallsTyped, ChainElements
<1>2. ASSUME NEW k \in Nat, k < n
      PROVE  Agrees(fr2, c, k) <=> Agrees(fr, c, k)
  BY <1>2 DEF Agrees, Passing
<1>3. ASSUME NEW k \in 1..Len(c), k <= n
      PROVE  Agrees(fr2, c, k - 1) <=> Agrees(fr, c, k - 1)
  <2>1. k - 1 \in Nat /\ k - 1 < n
    BY <1>1, <1>3
  <2> QED
    BY <1>2, <2>1
<1>4. ASSUME NEW k \in 1..Len(c), k < n
      PROVE  StandsAt(fr2, k) = StandsAt(fr, k)
  <2>1. k \in 1..(n - 1)
    BY <1>1, <1>4
  <2> QED
    BY <2>1 DEF StandsAt
<1>5. ASSUME n \in 1..Len(c), Agrees(fr, c, n - 1)
      PROVE  c[n][2] < StandsAt(fr2, n) <=> c[n][2] < StandsAt(fr, n)
  <2>1. c[n][1] = fr[n].file
    BY <1>5, AgreedFile
  <2>2. c[n][2] # fr[n].next
    BY <1>5, <2>1, ChainElements
  <2>3. StandsAt(fr2, n) = fr[n].next + 1 /\ StandsAt(fr, n) = fr[n].next
    BY DEF StandsAt
  <2>4. c[n][2] \in Nat /\ fr[n].next \in Nat
    BY <1>1, <1>5
  <2> QED
    BY <2>2, <2>3, <2>4
<1>6. \A k \in 1..Len(c) : k <= n => k < n \/ k = n
  BY <1>1
<1>7. Len(c) < n => (Agrees(fr2, c, Len(c)) <=> Agrees(fr, c, Len(c)))
  BY <1>1, <1>2
<1>8. ASSUME NEW k \in 1..Len(c), k <= n
      PROVE  Agrees(fr2, c, k - 1) /\ c[k][2] < StandsAt(fr2, k) <=> Agrees(fr, c, k - 1) /\ c[k][2] < StandsAt(fr, k)
  <2>1. CASE k < n
    BY <1>3, <1>4, <1>8, <2>1
  <2>2. CASE k = n
    BY <1>3, <1>5, <1>8, <2>2
  <2> QED
    BY <1>6, <1>8, <2>1, <2>2
<1> QED
  BY <1>7, <1>8 DEF Visited

\* and out of a file that has been gone through.
LEMMA VisitedBack ==
  ASSUME NEW p, Program(p), NEW fr \in Calls(p), Walked(p, fr), NEW n \in Nat \ {0}, n = Len(fr), n > 1,
         NEW fr2, Len(fr2) = n - 1, \A i \in 1..(n - 1) : fr2[i] = fr[i],
         fr[n].next > Len(p[fr[n].file]),
         NEW c \in Chains(p)
  PROVE  Visited(fr2, c) <=> Visited(fr, c)
<1>1. /\ Len(c) \in Nat /\ \A k \in 1..n : fr[k].next \in Nat \ {0}
      /\ \A k \in 1..Len(c) : c[k][2] \in Nat \ {0}
  BY CallsTyped, ChainElements
<1>2. ASSUME NEW k \in Nat, k < n
      PROVE  Agrees(fr2, c, k) <=> Agrees(fr, c, k)
  BY <1>2 DEF Agrees, Passing
<1>3. ASSUME NEW k \in 1..Len(c), k <= n
      PROVE  Agrees(fr2, c, k - 1) <=> Agrees(fr, c, k - 1)
  <2>1. k - 1 \in Nat /\ k - 1 < n
    BY <1>1, <1>3
  <2> QED
    BY <1>2, <2>1
<1>4. ASSUME NEW k \in 1..Len(c), k < n - 1
      PROVE  StandsAt(fr2, k) = StandsAt(fr, k)
  <2>1. k \in 1..(n - 1) /\ k # n - 1 /\ k # n
    BY <1>1, <1>4
  <2> QED
    BY <2>1 DEF StandsAt
<1>5. n - 1 \in 1..(n - 1) /\ n - 1 \in Nat /\ n - 1 # n
  OBVIOUS
<1>6. StandsAt(fr2, n - 1) = fr[n - 1].next /\ StandsAt(fr, n - 1) = fr[n - 1].next - 1
      /\ StandsAt(fr, n) = fr[n].next /\ fr[n - 1].next \in Nat \ {0} /\ fr[n].next \in Nat \ {0}
  BY <1>1, <1>5 DEF StandsAt
\* The paths through the import that led into the file.
<1>7. ASSUME Len(c) \in Nat, n - 1 \in 1..Len(c), Agrees(fr, c, n - 2)
      PROVE  c[n - 1][2] = fr[n - 1].next - 1 <=> Agrees(fr, c, n - 1)
  <2>1. n - 2 = (n - 1) - 1 /\ n - 1 <= Len(fr)
    OBVIOUS
  <2>2. c[n - 1][1] = fr[n - 1].file
    BY <1>7, <2>1, AgreedFile
  <2>3. c[n - 1] = <<c[n - 1][1], c[n - 1][2]>>
    BY <1>7, ChainElements
  <2>4. c[n - 1][2] = fr[n - 1].next - 1 <=> c[n - 1] = Passing(fr, n - 1)
    BY <2>2, <2>3 DEF Passing
  <2>5. \A j \in 1..(n - 1) : j \in 1..(n - 2) \/ j = n - 1
    OBVIOUS
  <2> QED
    BY <1>5, <1>7, <2>4, <2>5 DEF Agrees
<1>8. ASSUME n \in 1..Len(c), Agrees(fr, c, n - 1)
      PROVE  c[n][2] < StandsAt(fr, n)
  <2>1. c[n][1] = fr[n].file
    BY <1>8, AgreedFile
  <2>2. c[n][2] <= Len(p[fr[n].file]) /\ Len(p[fr[n].file]) \in Nat /\ c[n][2] \in Nat
    BY <1>8, <2>1, ChainElements
  <2> QED
    BY <1>6, <2>2
<1>9. ASSUME Visited(fr, c) PROVE Visited(fr2, c)
  <2>1. CASE Len(c) < n /\ Agrees(fr, c, Len(c))
    <3>1. CASE Len(c) < n - 1
      BY <1>1, <1>2, <2>1, <3>1 DEF Visited
    <3>2. CASE ~(Len(c) < n - 1)
      <4>1. Len(c) = n - 1 /\ Agrees(fr, c, n - 1) /\ n - 1 \in 1..Len(c)
        BY <1>1, <2>1, <3>2
      <4>2. Agrees(fr, c, n - 2) /\ n - 2 = (n - 1) - 1
        BY <4>1 DEF Agrees
      <4>3. c[n - 1][2] < StandsAt(fr2, n - 1)
        BY <1>1, <1>6, <1>7, <4>1, <4>2
      <4>4. Agrees(fr2, c, (n - 1) - 1)
        BY <1>3, <4>1, <4>2
      <4> QED
        BY <4>1, <4>3, <4>4 DEF Visited
    <3> QED
      BY <3>1, <3>2
  <2>2. ASSUME NEW k \in 1..Len(c), k <= n, Agrees(fr, c, k - 1), c[k][2] < StandsAt(fr, k)
        PROVE  Visited(fr2, c)
    <3>1. CASE k < n - 1
      BY <1>1, <1>3, <1>4, <2>2, <3>1 DEF Visited
    <3>2. CASE k = n - 1
      <4>1. c[k][2] < StandsAt(fr2, k)
        BY <1>1, <1>6, <2>2, <3>2
      <4> QED
        BY <1>3, <2>2, <3>2, <4>1 DEF Visited
    <3>3. CASE k = n
      <4>1. n - 1 \in 1..Len(c) /\ Agrees(fr, c, n - 1) /\ n - 2 = (n - 1) - 1 /\ n - 1 <= n
        BY <1>1, <2>2, <3>3
      <4>2. Agrees(fr, c, n - 2)
        BY <4>1 DEF Agrees
      <4>3. c[n - 1][2] < StandsAt(fr2, n - 1)
        BY <1>1, <1>6, <1>7, <4>1, <4>2
      <4>4. Agrees(fr2, c, (n - 1) - 1)
        BY <1>3, <4>1, <4>2
      <4> QED
        BY <4>1, <4>3, <4>4 DEF Visited
    <3> QED
      BY <1>1, <2>2, <3>1, <3>2, <3>3
  <2> QED
    BY <1>9, <2>1, <2>2 DEF Visited
<1>10. ASSUME Visited(fr2, c) PROVE Visited(fr, c)
  <2>1. CASE Len(c) < n - 1 /\ Agrees(fr2, c, Len(c))
    BY <1>1, <1>2, <2>1 DEF Visited
  <2>2. ASSUME NEW k \in 1..Len(c), k <= n - 1, Agrees(fr2, c, k - 1), c[k][2] < StandsAt(fr2, k)
        PROVE  Visited(fr, c)
    <3>1. k <= n /\ Agrees(fr, c, k - 1)
      <4>1. k <= n
        BY <1>1, <2>2
      <4> QED
        BY <1>3, <2>2, <4>1
    <3>2. CASE k < n - 1
      BY <1>4, <2>2, <3>1, <3>2 DEF Visited
    <3>3. CASE k = n - 1 /\ c[k][2] < StandsAt(fr, k)
      BY <2>2, <3>1, <3>3 DEF Visited
    <3>4. CASE k = n - 1 /\ ~(c[k][2] < StandsAt(fr, k))
      <4>1. c[n - 1][2] = fr[n - 1].next - 1 /\ n - 1 \in 1..Len(c) /\ n - 2 = (n - 1) - 1
        BY <1>1, <1>6, <2>2, <3>4
      <4>2. Agrees(fr, c, n - 1)
        BY <1>1, <1>7, <3>1, <3>4, <4>1
      <4>3. CASE Len(c) = n - 1
        BY <4>2, <4>3 DEF Visited
      <4>4. CASE Len(c) # n - 1
        <5>1. n \in 1..Len(c)
          BY <1>1, <4>1, <4>4
        <5> QED
          BY <1>8, <4>2, <5>1 DEF Visited
      <4> QED
        BY <4>3, <4>4
    <3> QED
      BY <1>1, <2>2, <3>2, <3>3, <3>4
  <2> QED
    BY <1>10, <2>1, <2>2 DEF Visited
<1> QED
  BY <1>9, <1>10

LEMMA SamePath ==
  ASSUME NEW p, Program(p), NEW c \in Chains(p), NEW d \in Chains(p), Len(c) = Len(d),
         \A k \in 1..Len(c) : c[k] = d[k]
  PROVE  c = d
<1> DEFINE I == ImportsIn(p)
<1>1. c \in Seq(I) /\ d \in Seq(I)
  BY ChainElements
<1> HIDE DEF I
<1>2. c \in [1..Len(c) -> I] /\ d \in [1..Len(c) -> I]
  BY <1>1, LenProperties
<1> QED
  BY <1>2

\* The path of the calls and the import the last of them is at: it is new.
LEMMA NewPath ==
  ASSUME NEW p, Program(p), NEW fr \in Calls(p), Walked(p, fr), NEW n \in Nat \ {0}, n = Len(fr),
         ImportAt(p, fr[n].file, fr[n].next),
         NEW fr2, \A i \in 1..(n - 1) : fr2[i] = fr[i],
         fr2[n].file = fr[n].file, fr2[n].next = fr[n].next + 1
  PROVE  \E c \in Chains(p) :
           /\ c # <<>> /\ Len(c) = n /\ Agrees(fr2, c, n) /\ ~Visited(fr, c)
           /\ Leads(p, c[n]) = p[fr[n].file][fr[n].next].file
<1> DEFINE I == ImportsIn(p)
           at(k) == IF k < n THEN Passing(fr, k) ELSE <<fr[n].file, fr[n].next>>
           c == [k \in 1..n |-> at(k)]
<1>1. \A k \in 1..n : fr[k].file \in DOMAIN p /\ fr[k].next \in Nat \ {0}
  BY CallsTyped
<1>2. ASSUME NEW f \in DOMAIN p, NEW x, ImportAt(p, f, x)
      PROVE  <<f, x>> \in I
  BY <1>2 DEF ImportsIn, ImportAt
<1>3. ASSUME NEW k \in 1..n
      PROVE  at(k) \in I /\ at(k)[1] = fr[k].file /\ at(k) = Passing(fr2, k)
  <2>1. CASE k < n
    <3>1. k \in 1..(n - 1)
      BY <2>1
    <3>2. ImportAt(p, fr[k].file, fr[k].next - 1)
      BY <3>1 DEF Walked
    <3>3. fr2[k] = fr[k]
      BY <3>1
    <3> QED
      BY <1>1, <1>2, <2>1, <3>2, <3>3 DEF Passing
  <2>2. CASE ~(k < n)
    <3>1. k = n
      BY <2>2
    <3>2. fr2[n].next - 1 = fr[n].next
      BY <1>1
    <3> QED
      BY <1>1, <1>2, <3>1, <3>2 DEF Passing
  <2> QED
    BY <2>1, <2>2
<1>4. /\ \A k \in 1..n : k < n => at(k) = Passing(fr, k)
      /\ at(n) = <<fr[n].file, fr[n].next>>
  OBVIOUS
<1> HIDE DEF at, I
<1>5. c \in Seq(I) /\ Len(c) = n /\ DOMAIN c = 1..n /\ \A k \in 1..n : c[k] = at(k)
  BY <1>3
<1> HIDE DEF c
<1>6. c \in Chains(p)
  <2> SUFFICES ASSUME NEW k \in 1..n
               PROVE  c[k][1] = IF k = 1 THEN "main" ELSE Leads(p, c[k - 1])
    BY <1>5 DEF Chains, I
  <2>1. c[k][1] = fr[k].file
    BY <1>3, <1>5
  <2>2. CASE k = 1
    BY <2>1, <2>2 DEF Walked
  <2>3. CASE k # 1
    <3>1. k - 1 \in 1..(n - 1) /\ k - 1 \in 1..n /\ k - 1 < n /\ (k - 1) + 1 = k
      BY <2>3
    <3>2. c[k - 1] = Passing(fr, k - 1)
      BY <1>4, <1>5, <3>1
    <3>3. p[fr[k - 1].file][fr[k - 1].next - 1].file = fr[k].file
      BY <3>1 DEF Walked
    <3> QED
      BY <2>1, <2>3, <3>2, <3>3 DEF Leads, Passing
  <2> QED
    BY <2>2, <2>3
<1>7. Agrees(fr2, c, n)
  BY <1>3, <1>5 DEF Agrees
<1>8. ~Visited(fr, c)
  <2>1. ~(Len(c) < Len(fr))
    BY <1>5
  <2>2. ASSUME NEW k \in 1..Len(c), k <= Len(fr) PROVE ~(c[k][2] < StandsAt(fr, k))
    <3>1. k \in 1..n /\ c[k] = at(k) /\ fr[k].next \in Nat
      BY <1>1, <1>5, <2>2
    <3>2. CASE k < n
      <4>1. c[k][2] = fr[k].next - 1 /\ StandsAt(fr, k) = fr[k].next - 1
        BY <1>4, <3>1, <3>2 DEF Passing, StandsAt
      <4> QED
        BY <3>1, <4>1
    <3>3. CASE ~(k < n)
      <4>1. k = n
        BY <3>1, <3>3
      <4>2. c[k][2] = fr[k].next /\ StandsAt(fr, k) = fr[k].next
        BY <1>4, <3>1, <4>1 DEF StandsAt
      <4> QED
        BY <3>1, <4>2
    <3> QED
      BY <3>2, <3>3
  <2> QED
    BY <2>1, <2>2 DEF Visited
<1>9. Leads(p, c[n]) = p[fr[n].file][fr[n].next].file
  <2>1. n \in 1..n
    OBVIOUS
  <2> QED
    BY <1>4, <1>5, <2>1 DEF Leads
<1>10. c # <<>>
  BY <1>5
<1> QED
  BY <1>5, <1>6, <1>7, <1>8, <1>9, <1>10

\* The module that it leads to corresponds to it.
LEMMA CorrespondsInto ==
  ASSUME NEW p, Program(p), NEW fr, NEW fr2, NEW n \in Nat \ {0}, n < MaxFrames,
         NEW m \in Seq(DOMAIN p), NEW g, Corresponds(p, fr, m, g), NEW f \in DOMAIN p,
         NEW d \in Chains(p), d # <<>>, Len(d) = n, Agrees(fr2, d, n), ~Visited(fr, d),
         Leads(p, d[n]) = f,
         \A c \in Chains(p) : Visited(fr2, c) <=> Visited(fr, c) \/ (Len(c) = n /\ Agrees(fr2, c, n))
  PROVE  \E h : Corresponds(p, fr2, Append(m, f), h)
<1> DEFINE z == Len(m) + 1
           h == [i \in 1..z |-> IF i < z THEN g[i] ELSE d]
           m2 == Append(m, f)
<1>1. Len(m) \in Nat /\ Len(m2) = z /\ m2[z] = f /\ \A i \in 1..Len(m) : m2[i] = m[i]
  BY LenProperties, AppendedProperties
<1> HIDE DEF m2
<1>2. z \in Nat /\ z \in 1..z /\ \A i \in 1..z : i < z => i \in 1..Len(m)
  BY <1>1
<1>3. \A i \in 1..Len(m) :
        /\ g[i] \in Chains(p) /\ g[i] # <<>> /\ Len(g[i]) < MaxFrames
        /\ Visited(fr, g[i]) /\ Leads(p, g[i][Len(g[i])]) = m[i]
  BY DEF Corresponds
<1>4. \A i \in 1..z : h[i] = IF i < z THEN g[i] ELSE d
  OBVIOUS
<1>5. DOMAIN h = 1..z /\ h \in [1..z -> Chains(p)]
  BY <1>2, <1>3
<1> HIDE DEF h
<1>6. ASSUME NEW i \in 1..z
      PROVE  /\ h[i] # <<>> /\ Len(h[i]) < MaxFrames
             /\ Visited(fr2, h[i]) /\ Leads(p, h[i][Len(h[i])]) = m2[i]
  <2>1. CASE i < z
    BY <1>1, <1>2, <1>3, <1>4, <2>1
  <2>2. CASE ~(i < z)
    <3>1. i = z /\ h[i] = d
      BY <1>1, <1>4, <2>2
    <3> QED
      BY <1>1, <3>1
  <2> QED
    BY <2>1, <2>2
<1>7. ASSUME NEW i \in 1..z, NEW j \in 1..z, h[i] = h[j]
      PROVE  i = j
  <2>1. \A k \in 1..z : k < z => k \in 1..Len(m) /\ h[k] = g[k] /\ h[k] # d
    BY <1>2, <1>3, <1>4
  <2>2. \A k \in 1..z : ~(k < z) => k = z /\ h[k] = d
    BY <1>1, <1>4
  <2>3. \A k, l \in 1..Len(m) : g[k] = g[l] => k = l
    BY DEF Corresponds
  <2> QED
    BY <1>7, <2>1, <2>2, <2>3
<1>8. ASSUME NEW c \in Chains(p), c # <<>>, Visited(fr2, c)
      PROVE  \E i \in 1..z : h[i] = c
  <2>1. CASE Visited(fr, c)
    <3>1. PICK i \in 1..Len(m) : g[i] = c
      BY <1>8, <2>1 DEF Corresponds
    <3>2. i \in 1..z /\ i < z
      BY <1>1
    <3> QED
      BY <1>4, <3>1, <3>2
  <2>2. CASE Len(c) = n /\ Agrees(fr2, c, n)
    <3>1. c = d
      BY <2>2, SamePath DEF Agrees
    <3> QED
      BY <1>2, <1>4, <3>1
  <2> QED
    BY <1>8, <2>1, <2>2
<1>9. Corresponds(p, fr2, m2, h)
  BY <1>1, <1>5, <1>6, <1>7, <1>8 DEF Corresponds
<1> QED
  BY <1>9 DEF m2

\* Nothing else moves it.
LEMMA CorrespondsOn ==
  ASSUME NEW p, NEW fr, NEW fr2, NEW m, NEW g, Corresponds(p, fr, m, g),
         \A c \in Chains(p) : Visited(fr2, c) <=> Visited(fr, c)
  PROVE  Corresponds(p, fr2, m, g)
<1>1. \A i \in 1..Len(m) : g[i] \in Chains(p)
  BY DEF Corresponds
<1> QED
  BY <1>1 DEF Corresponds

\* If paths are not arbitrarily long, none goes through a file twice: the longest
\* one would be longer with the way round repeated.
LEMMA ShortPaths ==
  ASSUME NEW p, Program(p), NEW M \in Nat, \A c \in Chains(p) : Len(c) <= M
  PROVE  \A c \in Chains(p) : Len(c) <= Cardinality(DOMAIN p)
<1> SUFFICES ASSUME NEW c0 \in Chains(p), ~(Len(c0) <= Cardinality(DOMAIN p)) PROVE FALSE
  OBVIOUS
<1> DEFINE N == Cardinality(DOMAIN p)
           T == {Len(c) : c \in Chains(p)} \ {0}
<1>1. N \in Nat /\ IsFiniteSet(DOMAIN p)
  BY FS_CardinalityType DEF Program
<1>2. \A c \in Chains(p) : Len(c) \in Nat
  BY ChainElements
<1>3. T \subseteq 1..M /\ Len(c0) \in T
  BY <1>1, <1>2
<1>4. PICK m \in T : \A j \in T : j <= m
  BY <1>3, LastPosition
<1>5. PICK c \in Chains(p) : Len(c) = m
  BY <1>4
<1>6. m \in Nat \ {0} /\ N < m
  BY <1>1, <1>2, <1>3, <1>4, <1>5
<1>7. \A d \in Chains(p) : Len(d) <= m
  BY <1>2, <1>4, <1>6
<1> HIDE DEF T, N
<1> DEFINE file == [k \in 1..m |-> c[k][1]]
<1>8. file \in [1..m -> DOMAIN p]
  BY <1>5, ChainElements
<1>9. PICK x, y \in 1..m : x # y /\ file[x] = file[y]
  <2>1. IsFiniteSet(1..m) /\ Cardinality(1..m) = m
    BY <1>6, FS_Interval
  <2> HIDE DEF file
  <2> QED
    BY <1>1, <1>6, <1>8, <2>1, FS_PigeonHole DEF N
<1>10. \E i, j \in 1..m : i < j /\ c[i][1] = c[j][1]
  <2>1. c[x][1] = c[y][1] /\ (x < y \/ y < x)
    BY <1>6, <1>9
  <2> QED
    BY <2>1
<1>11. PICK i, j \in 1..m : i < j /\ c[i][1] = c[j][1]
  BY <1>10
<1> HIDE DEF file
<1> DEFINE I == ImportsIn(p)
           w == j - i
           at(k) == IF k < j THEN c[k] ELSE c[k - w]
           d == [k \in 1..(m + w) |-> at(k)]
<1>12. w \in Nat \ {0} /\ i \in Nat /\ j \in Nat /\ m + w \in Nat /\ m < m + w
  BY <1>6, <1>11
<1>13. ASSUME NEW k \in 1..m
       PROVE  /\ c[k] \in I /\ c[k][1] = IF k = 1 THEN "main" ELSE Leads(p, c[k - 1])
  BY <1>5, ChainElements
<1>14. ASSUME NEW k \in 1..(m + w)
       PROVE  /\ k < j => k \in 1..m
              /\ ~(k < j) => k - w \in 1..m
  BY <1>6, <1>11, <1>12
<1> HIDE DEF I
<1>15. \A k \in 1..(m + w) : at(k) \in I
  BY <1>13, <1>14
<1>16. ASSUME NEW k \in 1..(m + w)
       PROVE  at(k)[1] = IF k = 1 THEN "main" ELSE Leads(p, at(k - 1))
  <2>1. CASE k < j
    <3>1. k \in 1..m /\ at(k) = c[k] /\ at(k - 1) = c[k - 1]
      BY <1>12, <1>14, <2>1
    <3> QED
      BY <1>13, <3>1
  <2>2. CASE k = j
    <3>1. at(k) = c[i] /\ at(k - 1) = c[j - 1] /\ k # 1 /\ j # 1
      BY <1>11, <1>12, <2>2
    <3>2. c[j][1] = Leads(p, c[j - 1])
      BY <1>13, <3>1
    <3> QED
      BY <1>11, <3>1, <3>2
  <2>3. CASE k > j
    <3>1. at(k) = c[k - w] /\ at(k - 1) = c[(k - w) - 1] /\ k # 1 /\ k - w # 1 /\ k - w \in 1..m
      BY <1>11, <1>12, <1>14, <2>3
    <3> QED
      BY <1>13, <3>1
  <2> QED
    BY <1>12, <2>1, <2>2, <2>3
<1> HIDE DEF at, w
<1>17. d \in Seq(I) /\ Len(d) = m + w /\ DOMAIN d = 1..(m + w) /\ \A k \in 1..(m + w) : d[k] = at(k)
  BY <1>12, <1>15
<1> HIDE DEF d
<1>18. ASSUME NEW k \in 1..(m + w)
       PROVE  d[k][1] = IF k = 1 THEN "main" ELSE Leads(p, d[k - 1])
  <2>1. k # 1 => k - 1 \in 1..(m + w)
    BY <1>12
  <2> QED
    BY <1>16, <1>17, <2>1
<1>19. d \in Chains(p)
  BY <1>17, <1>18 DEF Chains, I
<1> QED
  BY <1>7, <1>12, <1>17, <1>19, <1>6

LoaderVisits ==
  /\ \E g : Corresponds(program, frames, modules, g)
  /\ phase = "analyzing" => Len(frames) = 1 /\ AtEnd

\* Every call but main's is of a module, and every module has an importer before it.
LoaderDescends ==
  /\ \A k \in 2..Len(frames) : \E i \in 1..Len(modules) : modules[i] = frames[k].file
  /\ \A i \in 1..Len(modules) :
       \E j \in ImportsIn(program) :
         /\ Leads(program, j) = modules[i]
         /\ j[1] = "main" \/ \E k \in 1..(i - 1) : modules[k] = j[1]

LEMMA LoaderState ==
  ASSUME Typed, LoaderWalks
  PROVE  /\ Program(program) /\ frames \in Calls(program) /\ Walked(program, frames)
         /\ Len(frames) \in Nat \ {0} /\ Len(frames) <= MaxFrames /\ MaxFrames \in Nat
         /\ modules \in Seq(Files) /\ Len(modules) \in Nat /\ DOMAIN modules = 1..Len(modules)
         /\ Top = frames[Len(frames)] /\ Top.file \in Files /\ Top.next \in Nat \ {0}
         /\ Len(program[Top.file]) \in Nat
         /\ (~AtEnd => Top.next \in DOMAIN program[Top.file])
         /\ (AtEnd <=> Top.next > Len(program[Top.file]))
<1>1. /\ program \in Programs /\ frames \in Calls(program) /\ Len(frames) \in 1..MaxFrames
      /\ modules \in Seq(Files) /\ Walked(program, frames)
  BY DEF Typed, LoaderOK, Calls, Files, LoaderWalks
<1>2. Program(program)
  BY <1>1, ProgramsAssumption, FilesHoldDeclarations DEF Program, Typed, LoaderOK, Files
<1>3. Len(frames) \in Nat \ {0} /\ Len(frames) <= MaxFrames /\ MaxFrames \in Nat
  BY <1>1, FramesAssumption
<1>4. Top = frames[Len(frames)] /\ Top.file \in Files /\ Top.next \in Nat \ {0}
  BY <1>1, <1>3, CallsTyped DEF Top, Last, Files
<1>5. program[Top.file] \in Seq(All)
  BY <1>2, <1>4 DEF Program, Files
<1>6. Len(program[Top.file]) \in Nat /\ DOMAIN program[Top.file] = 1..Len(program[Top.file])
  BY <1>5, LenProperties
<1>7. Len(modules) \in Nat /\ DOMAIN modules = 1..Len(modules)
  BY <1>1, LenProperties
<1> QED
  BY <1>1, <1>2, <1>3, <1>4, <1>6, <1>7 DEF AtEnd

LEMMA AdvancedTop ==
  ASSUME Typed, LoaderWalks
  PROVE  /\ Advanced \in Calls(program) /\ Len(Advanced) = Len(frames)
         /\ \A i \in 1..(Len(frames) - 1) : Advanced[i] = frames[i]
         /\ Advanced[Len(frames)] = [file |-> Top.file, next |-> Top.next + 1]
<1>1. /\ Len(Advanced) = Len(frames)
      /\ Advanced[Len(Advanced)] = [file |-> Top.file, next |-> Top.next + 1]
  BY AdvancedTyped, AdvancedWalks DEF Typed, LoaderOK, LoaderWalks
<1>2. Advanced \in Calls(program)
  BY AdvancedTyped DEF Typed, LoaderOK, Calls, Files
<1>3. \A i \in 1..(Len(frames) - 1) : Advanced[i] = frames[i]
  <2>1. frames \in Calls(program) /\ Len(frames) \in Nat
    BY LoaderState
  <2> QED
    BY <2>1 DEF Advanced, Calls
<1> QED
  BY <1>1, <1>2, <1>3

LEMMA ResolvedModule ==
  ASSUME Typed, LoaderWalks, LoaderVisits, LoaderDescends, resolveModule
  PROVE  LoaderVisits' /\ LoaderDescends'
<1> DEFINE F == [file : Files, next : Nat \ {0}]
           f == Statement.file
<1>0. PICK n \in Nat \ {0} : n = Len(frames)
  BY LoaderState
<1>1. /\ Program(program) /\ frames \in Calls(program) /\ Walked(program, frames) /\ n \in Nat \ {0}
      /\ MaxFrames \in Nat /\ Top = frames[n] /\ Top.next \in Nat \ {0} /\ Top.file \in Files
      /\ modules \in Seq(Files) /\ Len(modules) \in Nat
  BY <1>0, LoaderState
<1>2. /\ program' = program /\ phase = "resolving" /\ phase' = phase /\ n < MaxFrames /\ f \in Files
      /\ modules' = Append(modules, f) /\ frames' = Append(Advanced, Opened(f))
      /\ ImportAt(program, frames[n].file, frames[n].next) /\ f = program[frames[n].file][frames[n].next].file
  BY <1>0, <1>1, LoaderState DEF resolveModule, Loaded, Statement, ImportAt
<1> HIDE DEF f
<1>3. Opened(f) \in F /\ Opened(f).file = f /\ Opened(f).next = 1
  BY <1>2 DEF Opened
<1>4. /\ Len(frames') = n + 1 /\ frames'[n + 1] = Opened(f)
      /\ \A i \in 1..(n - 1) : frames'[i] = frames[i]
      /\ frames'[n].file = frames[n].file /\ frames'[n].next = frames[n].next + 1
  <2>1. /\ Advanced \in Seq(F) /\ Len(Advanced) = n
        /\ \A i \in 1..(n - 1) : Advanced[i] = frames[i]
        /\ Advanced[n] = [file |-> Top.file, next |-> Top.next + 1]
    BY <1>0, AdvancedTop DEF Calls, Files
  <2>2. Advanced[n].file = Top.file /\ Advanced[n].next = Top.next + 1
    BY <2>1
  <2> HIDE DEF F
  <2>3. /\ Len(frames') = n + 1 /\ frames'[n + 1] = Opened(f)
        /\ \A i \in 1..n : frames'[i] = Advanced[i]
    BY <1>2, <1>3, <2>1, AppendedProperties
  <2>4. n \in 1..n /\ \A i \in 1..(n - 1) : i \in 1..n
    BY <1>1
  <2> QED
    BY <1>1, <2>1, <2>2, <2>3, <2>4
<1>5. PICK fr, fr2 : fr = frames /\ fr2 = frames'
  OBVIOUS
<1>6. /\ Program(program) /\ fr \in Calls(program) /\ Walked(program, fr) /\ n = Len(fr)
      /\ ImportAt(program, fr[n].file, fr[n].next)
      /\ Len(fr2) = n + 1 /\ \A i \in 1..(n - 1) : fr2[i] = fr[i]
      /\ fr2[n].file = fr[n].file /\ fr2[n].next = fr[n].next + 1 /\ fr2[n + 1].next = 1
  BY ONLY <1>0, <1>1, <1>2, <1>3, <1>4, <1>5
<1>7. PICK g : Corresponds(program, frames, modules, g)
  BY DEF LoaderVisits
<1>8. PICK d \in Chains(program) :
        /\ d # <<>> /\ Len(d) = n /\ Agrees(frames', d, n) /\ ~Visited(frames, d)
        /\ Leads(program, d[n]) = f
  <2>1. \E c \in Chains(program) :
          /\ c # <<>> /\ Len(c) = n /\ Agrees(frames', c, n) /\ ~Visited(frames, c)
          /\ Leads(program, c[n]) = program[frames[n].file][frames[n].next].file
    <3>1. \E c \in Chains(program) :
            /\ c # <<>> /\ Len(c) = n /\ Agrees(fr2, c, n) /\ ~Visited(fr, c)
            /\ Leads(program, c[n]) = program[fr[n].file][fr[n].next].file
      BY ONLY <1>0, <1>6, NewPath
    <3> QED
      BY ONLY <1>5, <3>1
  <2> QED
    BY ONLY <1>2, <2>1
<1>9. \A c \in Chains(program) :
        Visited(frames', c) <=> Visited(frames, c) \/ (Len(c) = n /\ Agrees(frames', c, n))
  <2>1. \A c \in Chains(program) :
          Visited(fr2, c) <=> Visited(fr, c) \/ (Len(c) = n /\ Agrees(fr2, c, n))
    BY ONLY <1>0, <1>6, VisitedInto
  <2> QED
    BY ONLY <1>5, <2>1
<1>10. \E h : Corresponds(program, frames', Append(modules, f), h)
  BY <1>1, <1>2, <1>7, <1>8, <1>9, CorrespondsInto DEF Files
<1>11. LoaderVisits'
  BY <1>2, <1>10 DEF LoaderVisits
<1>12. /\ Len(modules') = Len(modules) + 1 /\ modules'[Len(modules) + 1] = f
      /\ \A i \in 1..Len(modules) : modules'[i] = modules[i]
  BY <1>1, <1>2, AppendedProperties
<1>13. ASSUME NEW k \in 2..Len(frames')
      PROVE  \E i \in 1..Len(modules') : modules'[i] = frames'[k].file
  <2>1. CASE k = n + 1
    <3>1. Len(modules) + 1 \in 1..Len(modules')
      BY <1>1, <1>12
    <3> QED
      BY <1>3, <1>4, <1>12, <2>1, <3>1
  <2>2. CASE k # n + 1
    <3>1. k \in 2..n /\ frames'[k].file = frames[k].file
      <4>1. k \in 2..n /\ (k \in 1..(n - 1) \/ k = n)
        BY <1>1, <1>4, <2>2
      <4> QED
        BY <1>4, <4>1
    <3>2. PICK i \in 1..Len(modules) : modules[i] = frames[k].file
      BY <1>0, <3>1 DEF LoaderDescends
    <3>3. i \in 1..Len(modules')
      BY <1>1, <1>12
    <3> QED
      BY <1>12, <3>1, <3>2, <3>3
  <2> QED
    BY <2>1, <2>2
<1>14. ASSUME NEW i \in 1..Len(modules')
       PROVE  \E j \in ImportsIn(program) :
                /\ Leads(program, j) = modules'[i]
                /\ j[1] = "main" \/ \E k \in 1..(i - 1) : modules'[k] = j[1]
  <2>1. CASE i = Len(modules) + 1
    <3> DEFINE j == <<frames[n].file, frames[n].next>>
    <3>1. j \in ImportsIn(program) /\ Leads(program, j) = f /\ j[1] = frames[n].file
      BY <1>1, <1>2 DEF ImportsIn, ImportAt, Leads, Files
    <3> HIDE DEF j
    <3>2. CASE n = 1
      BY <1>1, <1>12, <2>1, <3>1, <3>2 DEF Walked
    <3>3. CASE n # 1
      <4>1. n \in 2..n
        BY ONLY <3>3
      <4>2. PICK k \in 1..Len(modules) : modules[k] = frames[n].file
        BY <1>0, <4>1 DEF LoaderDescends
      <4>3. k \in 1..(i - 1) /\ modules'[k] = j[1]
        BY <1>1, <1>12, <2>1, <3>1, <4>2
      <4> QED
        BY <1>12, <2>1, <3>1, <4>3
    <3> QED
      BY <3>2, <3>3
  <2>2. CASE i # Len(modules) + 1
    <3>1. i \in 1..Len(modules) /\ \A k \in 1..(i - 1) : k \in 1..Len(modules)
      BY <1>1, <1>12, <2>2
    <3> QED
      BY <1>12, <3>1 DEF LoaderDescends
  <2> QED
    BY <2>1, <2>2
<1>15. LoaderDescends'
  BY <1>2, <1>13, <1>14 DEF LoaderDescends
<1> QED
  BY <1>11, <1>15

LEMMA NextLoaderVisits ==
  ASSUME Typed, LoaderWalks, LoaderVisits, LoaderDescends, [Next]_vars
  PROVE  LoaderVisits' /\ LoaderDescends'
<1> DEFINE n == Len(frames)
<1>1. /\ Program(program) /\ frames \in Calls(program) /\ Walked(program, frames) /\ n \in Nat \ {0}
      /\ Top = frames[n] /\ Top.next \in Nat \ {0} /\ Top.file \in Files
      /\ (AtEnd <=> Top.next > Len(program[Top.file]))
  BY LoaderState
<1>2. PICK g : Corresponds(program, frames, modules, g)
  BY DEF LoaderVisits
<1>3. CASE resolveModule
  BY <1>3, ResolvedModule
<1>4. CASE NotAnImport
  <2>1. /\ program' = program /\ modules' = modules /\ frames' = Advanced
        /\ phase = "resolving" /\ phase' = phase /\ ~ImportAt(program, frames[n].file, frames[n].next)
    BY <1>1, <1>4 DEF NotAnImport, ImportAt, Statement
  <2>2. /\ Len(frames') = n /\ \A i \in 1..(n - 1) : frames'[i] = frames[i]
        /\ frames'[n].file = frames[n].file /\ frames'[n].next = frames[n].next + 1
    BY <1>1, <2>1, AdvancedTop
  <2>3. \A c \in Chains(program) : Visited(frames', c) <=> Visited(frames, c)
    BY <1>1, <2>1, <2>2, VisitedOn
  <2>4. Corresponds(program, frames', modules, g)
    BY <1>2, <2>3, CorrespondsOn
  <2>5. \A k \in 2..n : frames'[k].file = frames[k].file
    <3>1. \A k \in 2..n : k \in 1..(n - 1) \/ k = n
      BY <1>1
    <3> QED
      BY <2>2, <3>1
  <2> QED
    BY <2>1, <2>2, <2>4, <2>5 DEF LoaderVisits, LoaderDescends
<1>5. CASE EndOfFile /\ n > 1
  <2>1. program' = program /\ modules' = modules /\ frames' = Front(frames) /\ phase = "resolving" /\ phase' = phase
        /\ AtEnd
    BY <1>5 DEF EndOfFile
  <2>2. Len(frames') = n - 1 /\ \A i \in 1..(n - 1) : frames'[i] = frames[i]
    <3>1. frames # <<>>
      BY <1>5
    <3> QED
      BY <1>1, <2>1, <3>1, FrontProperties DEF Calls
  <2>3. \A c \in Chains(program) : Visited(frames', c) <=> Visited(frames, c)
    BY <1>1, <1>5, <2>1, <2>2, VisitedBack
  <2>4. Corresponds(program, frames', modules, g)
    BY <1>2, <2>3, CorrespondsOn
  <2>5. \A k \in 2..(n - 1) : k \in 2..n /\ k \in 1..(n - 1)
    BY <1>1
  <2> QED
    BY <2>1, <2>2, <2>4, <2>5 DEF LoaderVisits, LoaderDescends
<1>6. CASE EndOfFile /\ ~(n > 1)
  <2>0. n = 1
    <3>1. n \in Nat \ {0}
      BY <1>1
    <3> QED
      BY ONLY <1>6, <3>1
  <2>1. program' = program /\ modules' = modules /\ frames' = frames /\ AtEnd /\ n = 1
    BY ONLY <1>6, <2>0 DEF EndOfFile
  <2>2. AtEnd'
    BY <2>1 DEF AtEnd, Top
  <2> QED
    BY <1>2, <2>1, <2>2 DEF LoaderVisits, LoaderDescends
<1>7. CASE UNCHANGED vars
  BY <1>2, <1>7 DEF LoaderVisits, LoaderDescends, vars, loader, AtEnd, Top
<1>8. CASE UNCHANGED <<program, frames, modules>> /\ phase' # "analyzing"
  BY <1>2, <1>8 DEF LoaderVisits, LoaderDescends
<1>9. CASE FileMissing \/ StackExhausted \/ AnalyzeProgram \/ Compile \/ Initialize \/ agentHashFromStorage
  <2>1. UNCHANGED <<program, frames, modules>> /\ phase' # "analyzing"
    BY <1>9 DEF FileMissing, StackExhausted, AnalyzeProgram, Refuse, loader, Compile, compileAgentStmt,
      compileObject, compileVarDecl, compileFunc, compileImport, PromptUnreadable, CompileEnd, Compiling,
      Initialize, execNop, execAgentDeclare, execAgentGet, execAgentValidate, execObject, execStore,
      Executes, Step, InitFailed, InitEnd, agentHashFromStorage
  <2> QED
    BY <1>8, <2>1
<1> QED
  BY <1>3, <1>4, <1>5, <1>6, <1>7, <1>9 DEF Next, Resolve

\* Once main has been gone through, so have all paths.
LEMMA AllVisited ==
  ASSUME Typed, LoaderWalks, Len(frames) = 1, AtEnd, NEW c \in Chains(program), c # <<>>
  PROVE  Visited(frames, c)
<1>1. /\ Program(program) /\ Walked(program, frames) /\ Top = frames[1] /\ Top.next \in Nat
      /\ Top.next > Len(program[Top.file]) /\ Len(program[Top.file]) \in Nat
  BY LoaderState
<1>2. 1 \in 1..Len(c)
  <2>1. c \in Seq(ImportsIn(program)) /\ Len(c) \in Nat
    BY <1>1, ChainElements
  <2>2. Len(c) # 0
    BY <2>1, EmptySeq
  <2> QED
    BY <2>1, <2>2
<1>3. c[1][1] = Top.file /\ c[1][2] \in Nat /\ c[1][2] <= Len(program[Top.file])
  <2>1. c[1][1] = "main" /\ c[1][2] \in 1..Len(program[c[1][1]])
    BY <1>1, <1>2, ChainElements
  <2>2. Top.file = "main"
    BY <1>1 DEF Walked
  <2> QED
    BY <1>1, <2>1, <2>2
<1>4. StandsAt(frames, 1) = Top.next
  BY <1>1 DEF StandsAt
<1>5. c[1][2] < StandsAt(frames, 1)
  BY <1>1, <1>3, <1>4
<1>6. Agrees(frames, c, 1 - 1)
  BY DEF Agrees
<1> QED
  BY <1>2, <1>5, <1>6 DEF Visited

LEMMA PathsAreChains ==
  ASSUME Program(program), \A c \in Chains(program) : Len(c) <= Cardinality(Files)
  PROVE  Paths = Chains(program)
<1> DEFINE N == Cardinality(Files)  I == ImportsIn(program)
<1>1. N \in Nat
  BY FS_CardinalityType DEF Program, Files
<1>2. Imports = I /\ \A i \in I : Target(i) = Leads(program, i)
  BY DEF Imports, Statements, At, Files, ImportsIn, Target, Leads
<1> HIDE DEF N, I
<1>3. ASSUME NEW c \in Chains(program) PROVE c \in Paths
  <2>1. /\ c \in Seq(I) /\ Len(c) \in Nat /\ DOMAIN c = 1..Len(c) /\ Len(c) <= N
        /\ \A k \in 1..Len(c) : c[k] \in I /\ c[k][1] = IF k = 1 THEN "main" ELSE Leads(program, c[k - 1])
    BY ChainElements DEF N, I
  <2>2. c \in [1..Len(c) -> Imports] /\ Len(c) \in 0..N
    BY <1>1, <1>2, <2>1, LenProperties
  <2>3. ASSUME NEW k \in DOMAIN c PROVE Continues(c, k)
    <3>1. k # 1 => k - 1 \in 1..Len(c)
      BY <2>1
    <3>2. k # 1 => Target(c[k - 1]) = Leads(program, c[k - 1])
      BY <1>2, <2>1, <3>1
    <3> QED
      BY <2>1, <3>2 DEF Continues
  <2> QED
    BY <2>2, <2>3 DEF Paths, N
<1>4. ASSUME NEW c \in Paths PROVE c \in Chains(program)
  <2>1. PICK n \in 0..N : c \in [1..n -> Imports]
    BY DEF Paths, N
  <2>2. \A k \in DOMAIN c : Continues(c, k)
    BY DEF Paths
  <2>3. n \in Nat /\ c \in [1..n -> I]
    BY <1>1, <1>2, <2>1
  <2>4. c \in Seq(I) /\ DOMAIN c = 1..n
    BY <2>3
  <2>5. ASSUME NEW k \in DOMAIN c
        PROVE  c[k][1] = IF k = 1 THEN "main" ELSE Leads(program, c[k - 1])
    <3>1. k # 1 => c[k - 1] \in I
      BY <2>3, <2>4
    <3> QED
      BY <1>2, <2>2, <3>1 DEF Continues
  <2> QED
    BY <2>4, <2>5 DEF Chains, I
<1> QED
  BY <1>3, <1>4

CopiesOf(m, f) == {i \in 1..Len(m) : m[i] = f}
PathsTo(p, f) == {c \in Chains(p) : c # <<>> /\ Leads(p, c[Len(c)]) = f}

LEMMA CorrespondsCounts ==
  ASSUME NEW p, NEW fr, NEW M \in Nat, NEW m, Len(m) = M, NEW g, Corresponds(p, fr, m, g),
         \A c \in Chains(p) : c # <<>> => Visited(fr, c), NEW f
  PROVE  Cardinality(CopiesOf(m, f)) = Cardinality(PathsTo(p, f))
<1> DEFINE S == {i \in 1..M : m[i] = f}
           T == {c \in Chains(p) : c # <<>> /\ Leads(p, c[Len(c)]) = f}
           h == [i \in S |-> g[i]]
<1>1. IsFiniteSet(S)
  <2>1. IsFiniteSet(1..M)
    BY FS_Interval
  <2> QED
    BY <2>1, FS_Subset
<1>2. \A i \in 1..M : g[i] \in Chains(p) /\ g[i] # <<>> /\ Leads(p, g[i][Len(g[i])]) = m[i]
  BY DEF Corresponds
<1>3. h \in [S -> T]
  BY <1>2
<1>4. \A i, j \in S : h[i] = h[j] => i = j
  BY DEF Corresponds
<1>5. ASSUME NEW c \in T PROVE \E i \in S : h[i] = c
  <2>1. PICK i \in 1..M : g[i] = c
    BY DEF Corresponds
  <2> QED
    BY <1>2, <2>1
<1> HIDE DEF S, T, h
<1>6. h \in Bijection(S, T)
  BY <1>3, <1>4, <1>5 DEF Bijection, Injection, Surjection, IsInjective
<1>7. Cardinality(T) = Cardinality(S)
  BY <1>1, <1>6, FS_Bijection DEF ExistsBijection
<1> QED
  BY <1>7 DEF S, T, CopiesOf, PathsTo

LEMMA ModulesArePaths ==
  ASSUME Typed, LoaderWalks, LoaderVisits, LoaderDescends
  PROVE  ModulesFollowImports
<1> SUFFICES ASSUME phase = "analyzing"
             PROVE  /\ \A f \in Files :
                         Cardinality({i \in DOMAIN modules : modules[i] = f}) = Cardinality(To(f))
                    /\ \A i \in DOMAIN modules :
                         \E j \in Imports :
                           /\ Target(j) = modules[i]
                           /\ j[1] = "main" \/ \E k \in 1..(i - 1) : modules[k] = j[1]
  BY DEF ModulesFollowImports
<1>1. /\ Program(program) /\ Len(modules) \in Nat /\ DOMAIN modules = 1..Len(modules)
      /\ MaxFrames \in Nat
  BY LoaderState
<1>2. Len(frames) = 1 /\ AtEnd
  BY DEF LoaderVisits
<1>3. PICK g : Corresponds(program, frames, modules, g)
  BY DEF LoaderVisits
<1>4. \A c \in Chains(program) : c # <<>> => Visited(frames, c)
  BY <1>2, AllVisited
<1>5. Paths = Chains(program)
  <2>1. ASSUME NEW c \in Chains(program) PROVE Len(c) <= MaxFrames
    <3>1. CASE c = <<>>
      BY <1>1, <3>1
    <3>2. CASE c # <<>>
      <4>1. PICK i \in 1..Len(modules) : g[i] = c
        BY <1>3, <1>4, <3>2 DEF Corresponds
      <4>2. Len(c) < MaxFrames
        BY <1>3, <4>1 DEF Corresponds
      <4>3. Len(c) \in Nat
        BY <1>1, ChainElements
      <4> QED
        BY <1>1, <4>2, <4>3
    <3> QED
      BY <3>1, <3>2
  <2>2. \A c \in Chains(program) : Len(c) <= Cardinality(DOMAIN program)
    BY <1>1, <2>1, ShortPaths
  <2> QED
    BY <1>1, <2>2, PathsAreChains DEF Files
<1>6. ASSUME NEW f
      PROVE  Cardinality({i \in DOMAIN modules : modules[i] = f}) = Cardinality(To(f))
  <2>1. ASSUME NEW c \in Chains(program), c # <<>>
        PROVE  Target(Last(c)) = Leads(program, c[Len(c)])
    BY DEF Target, At, Leads, Last
  <2>2. To(f) = PathsTo(program, f)
    BY <1>5, <2>1 DEF To, PathsTo
  <2>3. {i \in DOMAIN modules : modules[i] = f} = CopiesOf(modules, f)
    BY ONLY <1>1 DEF CopiesOf
  <2>4. Cardinality(CopiesOf(modules, f)) = Cardinality(PathsTo(program, f))
    BY ONLY <1>1, <1>3, <1>4, CorrespondsCounts
  <2> QED
    BY ONLY <2>2, <2>3, <2>4
<1>7. ASSUME NEW i \in DOMAIN modules
      PROVE  \E j \in Imports :
               /\ Target(j) = modules[i]
               /\ j[1] = "main" \/ \E k \in 1..(i - 1) : modules[k] = j[1]
  <2>1. Imports = ImportsIn(program) /\ \A j \in Imports : Target(j) = Leads(program, j)
    BY DEF Imports, Statements, At, Files, ImportsIn, Target, Leads
  <2> QED
    BY <1>1, <2>1 DEF LoaderDescends
<1> QED
  BY <1>6, <1>7

\* If the loader comes to an end, it has compiled each file once for every path of
\* imports that leads to it, after a file that imports it.
THEOREM PathsAreFollowed == Spec => []ModulesFollowImports
<1>1. Init => LoaderWalks /\ LoaderVisits /\ LoaderDescends
  <2> SUFFICES ASSUME Init PROVE LoaderWalks /\ LoaderVisits /\ LoaderDescends
    OBVIOUS
  <2>1. /\ Len(frames) = 1 /\ frames[1].file = "main" /\ frames[1].next = 1 /\ Len(modules) = 0
        /\ phase = "resolving" /\ 1..0 = {}
    BY DEF Init, Entry
  <2>2. LoaderWalks
    BY <2>1 DEF LoaderWalks, Walked
  <2>3. Typed
    BY InitTyped
  <2>4. Program(program)
    BY <2>2, <2>3, LoaderState
  <2>5. ASSUME NEW c \in Chains(program), c # <<>>
        PROVE  ~Visited(frames, c)
    <3>1. Len(c) \in Nat /\ c \in Seq(ImportsIn(program)) /\ \A k \in 1..Len(c) : c[k][2] \in Nat \ {0}
      BY <2>4, ChainElements
    <3>2. Len(c) # 0
      BY <2>5, <3>1, EmptySeq
    <3>3. StandsAt(frames, 1) = 1
      BY <2>1 DEF StandsAt
    <3>4. \A k \in 1..Len(c) : k <= 1 => k = 1
      BY <3>1
    <3> QED
      BY <2>1, <3>1, <3>2, <3>3, <3>4 DEF Visited
  <2>6. Corresponds(program, frames, modules, [i \in 1..0 |-> <<>>])
    BY <2>1, <2>5 DEF Corresponds
  <2>7. LoaderDescends
    BY <2>1 DEF LoaderDescends
  <2> QED
    BY <2>1, <2>2, <2>6, <2>7 DEF LoaderVisits
<1>2. Typed /\ LoaderWalks /\ LoaderVisits /\ LoaderDescends /\ [Next]_vars
        => (LoaderWalks /\ LoaderVisits /\ LoaderDescends)'
  BY NextLoaderWalks, NextLoaderVisits
<1>3. Typed /\ LoaderWalks /\ LoaderVisits /\ LoaderDescends => ModulesFollowImports
  BY ModulesArePaths
<1> QED
  BY <1>1, <1>2, <1>3, AlwaysTyped, PTL DEF Spec
===============================================================================
