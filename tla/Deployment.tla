----------------------------- MODULE Deployment -----------------------------
(***************************************************************************)
(* The deployment of a contract spread over files: the loader inlines the  *)
(* imports, the analyzer registers declarations, the compiler gives each a *)
(* slot, the top-level code runs and fills the storage, and the agent's    *)
(* hash is looked up in what it left.  Functions and expressions are those *)
(* of Compiler and SynxVM; here a function is the slots it takes.          *)
(*                                                                         *)
(* A file is a sequence of declarations: [kind |-> "import", file],        *)
(* [kind |-> "agent", name, version, complete, readable], [kind |-> k,     *)
(* name, fields, empty] for k a "policy", "type" or "let", and             *)
(* [kind |-> "fn", name, slots].  The fields of an object are those that   *)
(* the look-ups read: a name, a version, a hash.                           *)
(***************************************************************************)
EXTENDS Integers, Sequences, FiniteSets, SequencesExt

CONSTANTS
  Programs,    \* functions from file names, "main" among them, to their declarations
  MaxFrames    \* calls of resolveModule that Go's stack can hold

DeclarationKinds == {"import", "agent", "policy", "type", "let", "fn"}

ASSUME FramesAssumption == MaxFrames \in Nat \ {0}

ASSUME ProgramsAssumption ==
  \A p \in Programs :
    /\ "main" \in DOMAIN p /\ IsFiniteSet(DOMAIN p)
    /\ \A f \in DOMAIN p :
         /\ p[f] \in Seq(ToSet(p[f]))
         /\ \A d \in ToSet(p[f]) :
              d.kind \in DeclarationKinds /\ (d.kind = "fn" => d.slots \in Nat)

VARIABLES
  program,    \* the files
  phase,      \* where Build is, or how it ended
  frames,     \* calls of the loader: a file and the statement it is at
  modules,    \* Program.Modules: the files loaded, in the order they are compiled
  queue,      \* declarations the compiler has yet to reach
  symbols,    \* Symbols and NextSlot of the compiler
  nextSlot,
  code,       \* the top-level code, with the functions left out
  stack,      \* operand stack and storage of the machine that runs it
  storage,
  info        \* AgentInfo

loader == <<frames, modules>>
compiler == <<queue, symbols, nextSlot>>
machine == <<stack, storage>>
vars == <<program, phase, loader, compiler, code, machine, info>>

-----------------------------------------------------------------------------
(* Values.  A hash is a tuple: of the declaration it digests, or of the    *)
(* literal found in a field; the empty tuple is no hash.                   *)

NoFields == [name |-> "", version |-> "", hash |-> <<>>]
Object(kind, fields) ==
  [kind |-> kind, name |-> fields.name, version |-> fields.version, hash |-> fields.hash]

This == Object("this", NoFields)

Digest(d) == <<d.name, d.version>>
Registry(d) == Object("registry", [name |-> d.name, version |-> d.version, hash |-> Digest(d)])
AgentData(registry) == [registry EXCEPT !.kind = "agent"]

\* A field of a type is stored as the name of its type.
FieldsOf(d) ==
  IF d.kind # "type" THEN d.fields
  ELSE [name |-> IF d.fields.name = "" THEN "" ELSE "String",
        version |-> IF d.fields.version = "" THEN "" ELSE "String",
        hash |-> IF d.fields.hash = <<>> THEN <<>> ELSE <<"String">>]

NoAgent == [name |-> "", version |-> "", hash |-> <<>>]

-----------------------------------------------------------------------------
(* The loader.                                                             *)

Files == DOMAIN program
Top == Last(frames)
Statement == program[Top.file][Top.next]
AtEnd == Top.next > Len(program[Top.file])

Entry == [file |-> "main", next |-> 1]

OpenedAgain(f) == [file |-> Top.file, next |-> 1]       \* a fault: the importer is walked again

Opened(f) == [file |-> f, next |-> 1]

LoadedOnce(f) ==                                                             \* a fault
  IF f \in ToSet(modules) THEN modules ELSE Append(modules, f)

Loaded(f) == Append(modules, f)

Advanced == [frames EXCEPT ![Len(frames)].next = @ + 1]

\* A file imported is loaded, whether or not it was before.
resolveModule ==
  /\ phase = "resolving" /\ ~AtEnd
  /\ Statement.kind = "import" /\ Statement.file \in Files
  /\ Len(frames) < MaxFrames
  /\ modules' = Loaded(Statement.file)
  /\ frames' = Append(Advanced, Opened(Statement.file))
  /\ UNCHANGED <<program, phase, compiler, code, machine, info>>

NotAnImport ==
  /\ phase = "resolving" /\ ~AtEnd /\ Statement.kind # "import"
  /\ frames' = Advanced
  /\ UNCHANGED <<program, phase, modules, compiler, code, machine, info>>

EndOfFile ==
  /\ phase = "resolving" /\ AtEnd
  /\ IF Len(frames) > 1
     THEN frames' = Front(frames) /\ UNCHANGED phase
     ELSE phase' = "analyzing" /\ UNCHANGED frames
  /\ UNCHANGED <<program, modules, compiler, code, machine, info>>

Refuse ==
  /\ phase' = "refused"
  /\ UNCHANGED <<program, loader, compiler, code, machine, info>>

FileMissing ==
  /\ phase = "resolving" /\ ~AtEnd
  /\ Statement.kind = "import" /\ Statement.file \notin Files
  /\ Refuse

\* Go ends the process when the stack is exhausted: no recover catches it.
StackExhausted ==
  /\ phase = "resolving" /\ ~AtEnd
  /\ Statement.kind = "import" /\ Statement.file \in Files
  /\ Len(frames) = MaxFrames
  /\ phase' = "crashed"
  /\ UNCHANGED <<program, loader, compiler, code, machine, info>>

-----------------------------------------------------------------------------
(* The analyzer registers the modules and analyses the contract.           *)

Declarations == FlattenSeq([i \in DOMAIN modules |-> program[modules[i]]]) \o program["main"]

TypeNames == SelectSeq(Declarations, LAMBDA d : d.kind = "type")
TypeDeclaredTwice ==
  \E i, j \in DOMAIN TypeNames : i < j /\ TypeNames[i].name = TypeNames[j].name

Incomplete(d) ==
  \/ d.kind = "agent" /\ ~d.complete
  \/ d.kind \in {"policy", "type"} /\ d.empty

AnalysisErrors ==
  \/ TypeDeclaredTwice
  \/ \E i \in DOMAIN program["main"] : Incomplete(program["main"][i])

AnalyzeProgram ==
  /\ phase = "analyzing"
  /\ IF AnalysisErrors THEN phase' = "refused" /\ UNCHANGED queue
     ELSE phase' = "compiling" /\ queue' = Declarations
  /\ UNCHANGED <<program, loader, symbols, nextSlot, code, machine, info>>

-----------------------------------------------------------------------------
(* The compiler, one declaration at a time.                                *)

Compiling(kinds) == phase = "compiling" /\ queue # <<>> /\ Head(queue).kind \in kinds

Bound(name) == [n \in DOMAIN symbols \cup {name} |-> IF n = name THEN nextSlot ELSE symbols[n]]

AllocSameSlot(name) == symbols' = Bound(name) /\ UNCHANGED nextSlot           \* a fault

AllocSlot(name) == symbols' = Bound(name) /\ nextSlot' = nextSlot + 1

Emit(ops) == code' = code \o ops

InfoUnread(d) == [name |-> d.name, version |-> "", hash |-> <<>>]            \* a fault

InfoOf(d) == [name |-> d.name, version |-> d.version, hash |-> <<>>]

\* The last agent compiled is the one AgentInfo names.
compileAgentStmt ==
  /\ Compiling({"agent"}) /\ Head(queue).readable
  /\ LET d == Head(queue) IN
     /\ AllocSlot(d.name)
     /\ Emit(<<[op |-> "AGENT_DECLARE", agent |-> d],
               [op |-> "AGENT_GET", name |-> d.name],
               [op |-> "AGENT_VALIDATE", version |-> d.version],
               [op |-> "STORE", slot |-> nextSlot]>>)
     /\ info' = InfoOf(d)
  /\ queue' = Tail(queue)
  /\ UNCHANGED <<program, phase, loader, machine>>

\* The files an agent names are looked for beside main, whatever file declares it.
PromptUnreadable == Compiling({"agent"}) /\ ~Head(queue).readable /\ Refuse

compileObject ==
  /\ Compiling({"policy", "type"})
  /\ LET d == Head(queue) IN
     /\ AllocSlot(d.name)
     /\ Emit(<<[op |-> "OBJECT", object |-> Object(d.kind, FieldsOf(d))],
               [op |-> "STORE", slot |-> nextSlot]>>)
  /\ queue' = Tail(queue)
  /\ UNCHANGED <<program, phase, loader, machine, info>>

compileVarDecl ==
  /\ Compiling({"let"})
  /\ LET d == Head(queue) IN
     /\ AllocSlot(d.name)
     /\ Emit((IF d.name \in DOMAIN symbols THEN <<[op |-> "ERR"]>> ELSE <<>>) \o
             <<[op |-> "OBJECT", object |-> Object("let", FieldsOf(d))],
               [op |-> "STORE", slot |-> nextSlot]>>)
  /\ queue' = Tail(queue)
  /\ UNCHANGED <<program, phase, loader, machine, info>>

\* Parameters and locals take slots that stay empty until the function is called.
compileFunc ==
  /\ Compiling({"fn"})
  /\ nextSlot' = nextSlot + Head(queue).slots
  /\ queue' = Tail(queue)
  /\ UNCHANGED <<program, phase, loader, symbols, code, machine, info>>

compileImport ==
  /\ Compiling({"import"})
  /\ Emit(<<[op |-> "NOP"]>>)
  /\ queue' = Tail(queue)
  /\ UNCHANGED <<program, phase, loader, symbols, nextSlot, machine, info>>

CompileEnd ==
  /\ phase = "compiling" /\ queue = <<>>
  /\ phase' = "initializing"
  /\ UNCHANGED <<program, loader, compiler, code, machine, info>>

-----------------------------------------------------------------------------
(* The machine that runs the top-level code.                               *)

Executes(op) == phase = "initializing" /\ code # <<>> /\ Head(code).op = op

Step ==
  /\ code' = Tail(code)
  /\ UNCHANGED <<program, phase, loader, compiler, info>>

PutOnce(k, v) == storage @@ (k :> v)                     \* a fault: what is there stays

Put(k, v) == [j \in DOMAIN storage \cup {k} |-> IF j = k THEN v ELSE storage[j]]

RegistryKey == Cardinality(DOMAIN storage) + 1

execNop == Executes("NOP") /\ Step /\ UNCHANGED machine

execAgentDeclare ==
  /\ Executes("AGENT_DECLARE")
  /\ storage' = Put(RegistryKey, Registry(Head(code).agent))
  /\ Step /\ UNCHANGED stack

FoundLast(name) ==                                       \* a fault: only the newest entry
  {k \in DOMAIN storage : storage[k].name = name /\ \A j \in DOMAIN storage : j <= k}

\* Whatever map in storage has that name, in the order Go happens to visit them.
Found(name) == {k \in DOMAIN storage : storage[k].name = name}

execAgentGet ==
  /\ Executes("AGENT_GET")
  /\ \E k \in Found(Head(code).name) : stack' = Append(stack, storage[k])
  /\ Step /\ UNCHANGED storage

\* The owner goes with the version.  The hash is cut to its first 18 characters
\* for a message, which panics on a shorter one: an absent field, a type's name;
\* a literal is taken to be long enough.
Valid(registry, version) ==
  /\ registry.version = version
  /\ registry.hash \notin {<<>>, <<"String">>}

execAgentValidate ==
  /\ Executes("AGENT_VALIDATE")
  /\ Valid(Last(stack), Head(code).version)
  /\ stack' = Append(Front(stack), AgentData(Last(stack)))
  /\ Step /\ UNCHANGED storage

execObject ==
  /\ Executes("OBJECT")
  /\ stack' = Append(stack, Head(code).object)
  /\ Step /\ UNCHANGED storage

execStore ==
  /\ Executes("STORE")
  /\ storage' = Put(Head(code).slot, Last(stack))
  /\ stack' = Front(stack)
  /\ Step

Fails(instr) ==
  \/ instr.op = "ERR"
  \/ instr.op = "AGENT_GET" /\ Found(instr.name) = {}
  \/ instr.op = "AGENT_VALIDATE" /\ ~Valid(Last(stack), instr.version)

InitFailed == phase = "initializing" /\ code # <<>> /\ Fails(Head(code)) /\ Refuse

InitEnd ==
  /\ phase = "initializing" /\ code = <<>>
  /\ phase' = "hashing"
  /\ UNCHANGED <<program, loader, compiler, code, machine, info>>

\* Any map in storage with a string under "hash" will do.
Hashes == {storage[k].hash : k \in DOMAIN storage} \ {<<>>}

agentHashFromStorage ==
  /\ phase = "hashing"
  /\ IF Hashes = {} THEN phase' = "refused" /\ UNCHANGED info
     ELSE phase' = "deployed" /\ \E h \in Hashes : info' = [info EXCEPT !.hash = h]
  /\ UNCHANGED <<program, loader, compiler, code, machine>>

-----------------------------------------------------------------------------

Init ==
  /\ program \in Programs
  /\ phase = "resolving"
  /\ frames = <<Entry>> /\ modules = <<>>
  /\ queue = <<>> /\ symbols = <<>> /\ nextSlot = 1
  /\ code = <<>> /\ stack = <<>> /\ storage = [k \in {0} |-> This]
  /\ info = NoAgent

Resolve == resolveModule \/ NotAnImport \/ EndOfFile \/ FileMissing \/ StackExhausted

Compile ==
  \/ compileAgentStmt \/ compileObject \/ compileVarDecl \/ compileFunc \/ compileImport
  \/ PromptUnreadable \/ CompileEnd

Initialize ==
  \/ execNop \/ execAgentDeclare \/ execAgentGet \/ execAgentValidate \/ execObject \/ execStore
  \/ InitFailed \/ InitEnd

Next == Resolve \/ AnalyzeProgram \/ Compile \/ Initialize \/ agentHashFromStorage

Spec == Init /\ [][Next]_vars /\ WF_vars(Next)

-----------------------------------------------------------------------------
(* Properties.                                                             *)

Ended == {"deployed", "refused", "crashed"}

\* Every variable has its type.
TypeOK ==
  /\ "main" \in Files
  /\ phase \in {"resolving", "analyzing", "compiling", "initializing", "hashing"} \cup Ended
  /\ Len(frames) \in 1..MaxFrames
  /\ modules \in Seq(Files)
  /\ nextSlot \in Nat
  /\ \A n \in DOMAIN symbols : symbols[n] \in 1..(nextSlot - 1)
  /\ Len(stack) <= 1
  /\ DOMAIN storage \subseteq Nat

\* The statements of the files, and paths of imports from main, as sequences of the
\* imports taken, each in the file that the one before leads to.
Statements == UNION {{f} \X DOMAIN program[f] : f \in Files}
At(i) == program[i[1]][i[2]]
Imports == {i \in Statements : At(i).kind = "import"}
Target(i) == At(i).file
Continues(p, k) == p[k][1] = IF k = 1 THEN "main" ELSE Target(p[k - 1])
Paths ==
  {p \in UNION {[1..n -> Imports] : n \in 0..Cardinality(Files)} :
     \A k \in DOMAIN p : Continues(p, k)}

Cyclic == \E p \in Paths : Len(p) = Cardinality(Files) /\ Target(Last(p)) \in Files
To(f) == {p \in Paths : p # <<>> /\ Target(Last(p)) = f}

\* Each file is compiled once for every path of imports that leads to it, so a
\* file two others import is compiled twice; and each after a file that imports it.
ModulesFollowImports ==
  phase = "analyzing" =>
    /\ \A f \in Files : Cardinality({i \in DOMAIN modules : modules[i] = f}) = Cardinality(To(f))
    /\ \A i \in DOMAIN modules :
         \E j \in Imports :
           /\ Target(j) = modules[i]
           /\ j[1] = "main" \/ \E k \in 1..(i - 1) : modules[k] = j[1]

\* The loader exhausts the stack only on a cycle of imports.
CrashedOnlyOnCycles == phase = "crashed" => Cyclic

\* The declarations that get a slot of their own.
Slotted == {"agent", "policy", "type", "let"}

\* No function with slots of its own comes before an agent.
NoHoles ==
  \A i, j \in DOMAIN Declarations :
    i < j /\ Declarations[j].kind = "agent" =>
      ~(Declarations[i].kind = "fn" /\ Declarations[i].slots > 0)

\* No object has the name and the version of an agent, and a hash, in its fields. A variable may;
\* a policy cannot be written with a hash, which is a keyword (parser/stmt.go:348).
NoImpostor ==
  \A i, j \in DOMAIN Declarations :
    Declarations[i].kind = "agent" /\ Declarations[j].kind \in {"policy", "let"} =>
      LET fields == Declarations[j].fields
      IN  ~(/\ fields.name = Declarations[i].name /\ fields.version = Declarations[i].version
            /\ fields.hash # <<>>)

\* The declaration i is the last of its name.
LastOfItsName(i) ==
  \A j \in DOMAIN Declarations :
    j > i /\ Declarations[j].kind \in Slotted => Declarations[j].name # Declarations[i].name

\* What a slot gets.
Declared(d) ==
  IF d.kind = "agent" THEN AgentData(Registry(d)) ELSE Object(d.kind, FieldsOf(d))

\* Once the top-level code has run, the slot of every declared name holds what its
\* last declaration says: neither the registries that agents leave under keys
\* computed from the size of the storage, nor a declaration of another file, has
\* taken its place.  This needs every slot below an agent's to be in use: the
\* slots of a function declared before are not.  And it needs the look-up of an
\* agent's registry to find one: an object of the same name may pass for it.
DeclarationsStand ==
  phase \in {"hashing", "deployed"} /\ NoHoles /\ NoImpostor =>
    \A i \in DOMAIN Declarations :
      LET d == Declarations[i]
      IN  d.kind \in Slotted /\ LastOfItsName(i) =>
            d.name \in DOMAIN symbols /\ storage[symbols[d.name]] = Declared(d)

OneAgent ==
  /\ \A i, j \in DOMAIN Declarations :
       Declarations[i].kind = "agent" /\ Declarations[j].kind = "agent"
         => Declarations[i] = Declarations[j]
  /\ \A i \in DOMAIN Declarations :
       Declarations[i].kind \in {"policy", "type", "let"} => Declarations[i].fields.hash = <<>>

\* What the comments of Build promise of AgentInfo: its hash is the agent's.
AgentHashIsItsOwn == phase = "deployed" => info.hash = Digest(info)

\* It is so when there is one agent and no other object has a field named hash.
SingleAgentHash == OneAgent => AgentHashIsItsOwn

\* A program the parts of Build have nothing against.
Reached(f) == f = "main" \/ To(f) # {}
Placed == {i \in Statements : Reached(i[1])}
Once(kinds) ==
  \A p, q \in Placed :
    At(p).kind \in kinds /\ At(q).kind \in kinds \cup {"agent", "policy", "type", "let"} =>
      /\ p[1] = "main" \/ Cardinality(To(p[1])) = 1
      /\ At(p).name = At(q).name => p = q
Sound ==
  /\ ~Cyclic
  /\ \A i \in Imports : Target(i) \in Files
  /\ Once({"type", "let"})
  /\ \E p \in Placed : At(p).kind = "agent"
  /\ \A p \in Placed : p[1] = "main" => ~Incomplete(At(p))
  /\ \A p, q \in Placed : At(p).kind = "agent" =>
       /\ At(p).readable
       /\ At(q).kind = "agent" /\ At(q).name = At(p).name => At(q).version = At(p).version
       /\ At(q).kind \in {"policy", "let"} => At(q).fields.name # At(p).name

\* Every such program is deployed, in whatever order the maps are visited.
SoundProgramsDeploy ==
  (frames = <<Entry>> /\ phase = "resolving" /\ Sound) ~> phase = "deployed"
=============================================================================
