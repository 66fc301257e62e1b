# Formal models of synx-core

synx-core is a small smart-contract stack written in Go: a lexer, a Pratt parser and a
semantic analyzer for the Synx language, a compiler to bytecode, a stack machine, and a TCP
server that deploys contracts and executes their functions. This directory holds TLA+ models
of its control flow, from source to answer; the TLC configurations that check them on small
instances; and theorems about the parser, the compiler, the machine, deployment and the server
that TLAPS checks for every instance.

Contents: [the system](#the-system) · [modules](#modules) · [runs](#runs) ·
[what the runs found](#what-the-runs-found) · [proofs](#proofs) ·
[what is not modelled](#what-is-not-modelled) · [plan](#plan)

## The system

A client opens a connection and sends one frame: DEPLOY with the source of a contract, EXEC
with a contract's artifact, a function and its arguments, or PING.

    DEPLOY  HandleConnection -> processMessage -> HandleDeploy -> Build
              Tokenize -> Resolver (Parse main and each import) -> AnalyzeProgram
              -> CompileProgram -> a first VM runs the top-level code -> InitStorage
            -> mu.Lock; contracts[hash] = artifact; mu.Unlock -> response, with the artifact
    EXEC    HandleExec -> the artifact out of the request's JSON -> a fresh VM -> RunFunction

| Component | State it keeps | Operations | What makes it hard |
|---|---|---|---|
| Server (`vm/runtime.go`, `main.go`) | the `contracts` map, guarded by `mu` | accept, handle a connection, deploy, execute | a goroutine for each connection; panics recovered, Go fatal errors not; responses that cannot be encoded |
| Build and execution (`vm/build.go`, `vm/runtime.go`) | none between requests | Build, HandleExec | two machines in a row, with a pass through JSON in between |
| Virtual machine (`vm/vm.go`) | ip, operand stack, callStack, tryStack, storage, errors, lastError, journal | one for each opcode | two control stacks that know little of each other; an error noticed a step late; stack re-slicing; no step limit |
| Compiler (`compiler/`) | code, constant pool, symbols, next slot, functions | one for each kind of node | forward jumps patched later; scopes saved and restored by hand; one-byte operands |
| Semantic analyzer (`parser/analyzer.go`) | tables of declared names | registration of modules, two passes over each contract | does not look into every statement; scopes unlike the compiler's |
| Parser (`parser/`) | position; **package-level** lookup tables, written again by every Parse | a handler for each construct | loops that read until a closing token; powers given one by one; tables shared by all goroutines, guarded by nothing |
| Import resolver (`loader/resolver.go`) | the modules so far | Resolver, resolveModule, load | recursion over files, without a visited set |
| Lexer, syntax tree, commit hash, printer, local runner | none | | |

What makes each correct, which is what the properties say:

- *Machine*: it fetches only inside the code; a function comes back to its caller and the
  called function to the HALT; an uncaught error is final; an error goes to the innermost
  open try block of an active function; code without loops or calls ends.
- *Compiler*: the code has the structure of the source, whatever is nested in what: every
  jump patched, bodies closed, handlers after their try, slots distinct, calls bound to their
  function, every instruction given its operands.
- *Analyzer*: a name in its scope has a slot when the compiler looks it up, although the two keep
  their scopes differently; except one that so far only the last clause of a loop under way
  brings in.
- *Parser*: it accepts the language its tables describe and groups operators by their binding
  powers; no handler leaves a bracket open or runs past the end of the file unnoticed; it ends.
- *Import resolver and declarations*: a file is compiled once for each path of imports to it;
  the storage a contract starts with holds what it declares; AgentInfo is that of its agent.
- *Build and execution*: a call that succeeds has returned; require reverts; a request whose
  code ends is answered; a program nothing is wrong with is deployed.
- *Server*: the table of contracts is an atomic register for each hash; an answer of success
  means the contract is in it; nobody waits for another client's contract; the process stays
  up.

The hazards, each at its line and with the properties aimed at it, are in `PROJECT.json`.

## Modules

| Module | Models | Composed from |
|---|---|---|
| `Bytecode` | instructions, artifacts, the values the machine tells apart, operators on them | |
| `Parser` | tokens to tree: `parser/`, but for the analyzer | |
| `Compiler` | code generation: `compiler/`, and the analyzer's scopes | `Bytecode` |
| `SynxVM` | one machine: `vm/vm.go` | `Bytecode` |
| `Deployment` | `Build` over several files: imports, registration, declarations, storage, the agent's hash | |
| `StructuredControl` | **abstract**: activations that own their try blocks | |
| `Lifecycle` | `Build`, then `HandleExec` | `Compiler`, an instance of `SynxVM`; implements `StructuredControl` |
| `ContractService` | **abstract**: an atomic registry, requests answered at most once | |
| `Runtime` | the server's goroutines | implements `ContractService` |
| `SequenceLemmas` | lemmas about Append, SubSeq, FlattenSeq and updates of sequences | |
| `ParserProofs` | theorems about the parser: its tree, its brackets, the expressions it accepts | `Parser` |
| `CompilerProofs`, `CompilerControlProofs` | theorems about compiled code, its calls, slots and scopes; about where code branches, and its operands | `Compiler` |
| `LifecycleProofs` | theorems about compiled code on the machine, the refinement and the operands among them | `Lifecycle`, `StructuredControl` |
| `DeploymentProofs` | theorems about `Build` over several files | `Deployment` |
| `SynxVMProofs` | theorems about the machine | `SynxVM` |
| `RuntimeProofs` | theorems about the server | `Runtime`, `ContractService` |
| `MCParser`, `MCCompiler`, `MCSynxVM`, `MCDeployment`, `MCLifecycle`, `MCRuntime` | values of the constants for TLC | |

**Values.** A value is a record of a kind (`nil`, `bool`, `int`, `float`, `str`, `obj`, ...)
and a small number. The kind is what the code's type assertions see; the number keeps apart
what comparisons and branches see. Where the code computes a value the model does not
determine (the result of a regular expression, the content of a field), the operators named
`...Results` give the set of what it may be. Arithmetic on integers is exact up to `MaxInt`.

**SynxVM.** The variables are the fields of the Go struct, with `status` for how `execute`
ended. Every turn of `execute`'s loop is a step. `Abort` is the test of `len(vm.errors)` before
each fetch; an instruction's action is enabled by `Executes(ops)`, which says that no error is
recorded and the opcode at `ip` is one of `ops`. Opcodes whose whole effect is to take operands
and leave a result are one action, `Operate`, with their arity in `Pops` and their results in
`Results`; the others have an action each. What a panic (an empty stack, a wrong type, an
END_TRY without a frame, an index out of range) does is caught by `execute`'s recover: `status`
becomes `"panicked"`. Addresses count instructions and not bytes. `Resliced` models the Go slice
expression `vm.stack[:h.stackDepth]`, which extends a stack that is too short over the values
it once held.

**Parser.** Each Go handler is a production: the sequence of what it consumes, requires and
calls. The recursion of the handlers is the stack `todo`, and a step does what is on top of it:
`parse_expr` with its minimal power and its loop, a statement, a block, a list of arguments, the
fields of an agent or a tool. The token list is chosen as it is read, one lookahead at a time,
from an `input`: a fixed beginning, up to `most` tokens of a set, a fixed end. So the behaviours
are the parses of *all* those lists, and lists that are refused early share their beginning. A
token stands for itself; identifiers whose literal a handler tests, as `version`, are tokens of
their own, which is what the test sees. `tree` keeps operators with their operands, the
statements of a program and the fields of tool actions, for these are what the handlers look
at again. Panics of the parser (`expect`, an unknown token, an assertion of a type) are
`status = "panicked"`, which `HandleDeploy` recovers.

**Deployment.** `phase` goes through `Build`. `frames` are the calls of `resolveModule` under way,
and `MaxFrames` what Go's stack holds: one more import is `"crashed"`, the stack overflow no
recover catches. `Paths` are the paths of imports from main, whatever the loader does. Then come the
analyzer's registration (types, incomplete declarations), the
compiler's walk over `queue` with its slots, the top-level code on an operand stack and
`storage`, and the search for the agent's hash. Maps that Go visits in a random order are a
choice of any matching entry. A function is here the slots it takes; its code is `Compiler`'s.
Digests are the tuples they are digests of.

**Compiler.** The syntax tree is not an input: each action chooses the next node, so that the
behaviours are the compilations of all programs of a class. A class (chosen in `Init`, from
`Classes`) names the kinds of statements and expressions and bounds the length. Recursion over
statements is the stack `open`, whose entries hold the positions to patch and the scope to
restore; expressions are emitted in post-order and `expr.depth` counts those whose operator is
yet to come. `InScope` is the analyzer's scope at the same point of the program, kept as
`analyzer.go` keeps it (copied at branches and functions, shared by loops), next to `symbols` and
`constants`, kept as the compiler keeps them; a name is used only where the analyzer lets it
through. It consists of `visible`, what the code compiled so far has brought in, and of what the
last clauses of the loops under way will bring in: the analyzer has seen such a clause before the
body (`parser/analyzer.go:379`), while its code comes after. So `EnterFor` chooses the new names of
the clause, kept as `post`, and the clause has to bring in just these (`BringsIn`).
The words `redeclare`, `return_in_try`, `call_in_try` and `forward` let programs declare
a function twice, return or call inside a try, and call before the declaration; runs without them
say what holds of the other programs. Other words are for single cases of the code: `empty_print`
for an empty return at top level (`compiler/stmt.go:96`), `label` for an event's name or a
require's message that is no text, `fields` for an object that is an operand
(`compiler/expr.go:203`), `unnamed` for a call or ++ of what is no name (`:262`, `:299`),
`unsupported` for the nodes on which the compiler panics (`:99`, `:159`).

**Lifecycle.** `phase` goes from `build` to `init` (the first machine runs the top-level code)
to `deployed` (its storage is kept) or `refused`, then to `exec`. `FromJSON` is the pass through
`encoding/json`: integers come back as floats. The agent that `Build` requires is taken as
declared.

**Runtime.** `pc` is where each connection's goroutine stands. A deployment parses once for each
file; `filling` is the time in which `createParser` writes the lookup tables, `parsing` and
`misparsing` the time in which they are read, without and with interference. `MapRace` says when
two goroutines access one Go map and one of them writes it, which Go may detect and end the
process for (`FatalError`): it is a possibility and never a certainty. `serial` is chosen in
`Init` and tells whether clients wait for each other's deployments to be parsed. What becomes
of a request by itself is given with the message, as `work`; the other modules are about that.

**Abstract specifications.** `StructuredControl` is what functions, return and try/catch mean
to a programmer: each activation has its own open try blocks, a function is left only with all
of them closed, and an error unwinds to the innermost activation that has one. `Lifecycle`
implements it under the mapping `tries[i] =` the number of frames on `tryStack` whose recorded
`callDepth` is `i - 1`. `ContractService` has a registry and a state for each connection;
`Runtime` implements it with `registry <- contracts`, and a deployment becomes `registered` at
the step that stores it. A *faulty* service may also register a garbled artifact or collapse:
the mapping allows that exactly when clients do not keep their deployments apart.

## Runs

Every passing run explores its whole bounded state space. Bounds are the constants below and
are guards of the model: `maxCode` and `maxDepth` of a class, `MaxOpen`, `MaxStack`, `MaxCalls`,
`MaxJournal`, `MaxInt`. Nothing in the code corresponds to them. `Byte` and `MaxPool` are limits
of the code, 256 both; `MaxPool` is scaled down to 2, and in `answers` `Byte` with it, so that
the panic of `addConst` is reached.

| Run | Asks | Instance |
|---|---|---|
| `parser` | does the parser accept the language its tables describe, group as they say, and end? | sixteen parts of the grammar, each with every token list of up to six to nine tokens of an alphabet, after a fixed beginning: all operators, all brackets, branches, loops, functions, try, records, agents, skills, tools and the kinds of tool actions |
| `compiler` | does emitted code have the structure of the source, and do names in scope have slots, but for those the last clause of a loop under way brings in? | two functions, one with a parameter, declared once and before their calls; two variables; three levels of nesting. Four classes: nested statements begun up to address 7, statements over computed values up to 5, counting loops up to 9, objects and arrays up to 5 |
| `machine` | is the machine safe on any bytecode, not only the compiler's? | every sequence of four out of ten control instructions, and every pair out of all instructions over four operands; one-argument and no-argument functions, and requests that name no function or miss an argument. Artifacts come with requests, so this is what clients may send |
| `deployment` | is what a contract declares what its storage holds, and is every sound program deployed? | one file of up to four of nine declarations, among them a variable with the name, version and hash of an agent; three files with every shape of imports, files missing and cycles included; modules and agents the analyzer or the compiler refuses. `MaxFrames` is 5, two more than the deepest acyclic chain |
| `structured` | do functions, try and require mean what they say, and has a call that succeeds returned? | two functions, calls, try, require; programs of about nine instructions, without call or return inside a try |
| `answers` | does every instruction find its operands, and does every request end? | if, while, try, return, emit, assignments over computed values without calls, begun up to address 4; and errors in handlers of errors, up to address 9 |
| `runtime` | do concurrent requests see an atomic registry and an answer? | three connections, six messages: three of one hash, refused, endless and panicking work, responses that cannot be encoded, a module imported |

The bounds suffice for the cases the properties are about. On the machine, a loop, a
recursion, a try in a callee and an error in its handler all fit in four instructions; the
call and try stacks reach depth three and the operand stack six. In the compiler, three levels
hold a try in a loop in a function, and every pair of nested constructs in one more; a counting
loop needs nine instructions, so it has a class of its own. Six tokens hold a prefix operator
before two infix operators, and a group within a call within an array; the parts of the grammar
with a long beginning give it. Four declarations hold two agents, a function and an object in
every order, which is what two numberings of storage need to come apart; three files are the
fewest in which one is imported along two paths. Three
connections give two deployments that interfere and one that meets the result. PING and
unknown types take the path of an EXEC and of a refusal and add no behaviour.

What the properties say stands above each in its module. Two of them are references written
independently of the code: `AcceptsExpressions` reads the tokens from left to right with a
two-state automaton and a stack of brackets, and requires the Pratt parser to accept exactly
that language, to refuse at the first token no continuation can save, and to end a statement
only where no operator joins it to the next; `ModulesFollowImports` counts paths in the graph of
imports. `Precedence` requires of every tree that what is written without parentheses groups in
one way only. `UncaughtErrorIsFinal` and `RequireReverts` say what no step may do;
`ParsingEnds`, `SoundProgramsDeploy`, `ForwardCodeEnds`, `CallsAreAnswered` and `RequestsEnd`
say what must happen.

**Fairness.** The parser and `Build` run in one goroutine and wait for nobody: weak fairness of
`Next` in `Parser` and `Deployment`. `execute` is a loop that never waits: weak fairness of
`Step`. `Build` and `HandleExec` run to their end in their goroutine: weak fairness of the phases
of `Lifecycle`; not of `Compile`, whose next node is a choice of the programmer. Go's scheduler
runs each runnable goroutine and `sync.RWMutex` serves each waiter: weak fairness of `Handle(c)`
for each connection. A client may never send its frame, so `Receive` has none. A contract may
loop for ever, and then nothing is promised for its own client.

`CHECK_DEADLOCK FALSE` stands in every configuration since all of these systems stop: a machine
that has ended, a deployment refused, connections all answered. That none stops early is what
the liveness properties say.

Each property has a mutant in `PROJECT.json`: a mapped definition and a plausible fault in it
(an operator marked *a fault* in its module) under which TLC finds the property violated.

## What the runs found

Five runs check a statement the repository makes and that the code does not keep.

| Run | Property | The code |
|---|---|---|
| `call_in_try` | `EndTryMatched` | `vm/vm.go:1033`: a caught error does not unwind `callStack`. The callee's return address stays, the handler's function returns into the middle of its own try, and END_TRY finds no frame, on which `vm/vm.go:946` panics |
| `return_in_try` | `RequireReverts` | `compiler/stmt.go:92`: RET is emitted inside a try without END_TRY; the frame left behind catches a failed require outside any try (`README.md:28`: require reverts on failure) |
| `forward` | `SuccessMeansReturned` | `compiler/expr.go:279`: a function called before its declaration is compiled to `CALL 0`, and the run ends in success at the HALT of the top-level code |
| `runtime_race` | `LongLived` | `parser/lookups.go:33`: two deployments parsed at a time write global maps together, which ends the process (`README.md:43`: long-lived runtime) |
| `agent_hash` | `AgentHashIsItsOwn` | `vm/runtime.go:298`: the hash in AgentInfo is that of any map of storage with a string named hash: another agent's, or the type name of a field called hash (`vm/build.go:48-50`: the agent's hash) |

Other disagreements were met while modelling. The models do what the code does, and no run is
spent on them.

Branches and values:

- JMP_IF jumps on the integer 0 alone (`vm/vm.go:620`); `compiler/opcodes.go:49` says it jumps on
  false. FALSE pushes true (`vm/vm.go:357`); `compiler/opcodes.go:9` calls it the value false.
- `x += v` and `x -= v` compile to `x = v`, and the opcode of `compiler/opcodes.go:31` is never
  emitted. `%` and `..` parse and emit no instruction.

Names:

- Declaring a name in both branches of an if passes the analyzer and compiles to an ERR; an
  inner let of an outer name rebinds the outer one; the body of a while shares its scope.
- The last clause of a for is analysed before the body, in its scope (`parser/analyzer.go:379`), and
  compiled after it (`compiler/stmt.go:234-238`): `for (i = 0; i < 1; y = 1) { print(y) }` is
  accepted and prints slot 0, which is `this`, though `parser/analyzer.go:416` refuses an undefined
  identifier. `AcceptedNamesHaveSlots` excepts such names; without the exception TLC finds it
  violated.
- A constant declared in a catch under the name of the caught error loses its slot at the end of the
  catch and stays a constant (`compiler/stmt.go:594`): assigning it later in the function compiles to
  an ERR, the analyzer takes it for a variable brought in, and what reads it reads slot 0. This is
  the constant without a slot in `AcceptedNamesHaveSlots`.
- A name that stands for an event's name or a require's message is not looked up by the analyzer
  (`analyzer.go:327`, `:348`), nor is any in the bodies of try and catch.
- `contains`, `regx` and `length` are compiled as built-ins and are not among the analyzer's.
- `analyzer.go:240` takes Int for built-in and `builtinTypes` (`analyzer.go:13`) lacks it; the
  types of the README's example are written `bool`, and only `Bool` is known.

Syntax:

- A prefix operator takes all that follows it as its operand: `-a + b` is `-(a + b)`. The level
  `unary` of the binding powers is never used for it.
- `fn`, `contract` and `import` take the next token for a name, a keyword or the end of the file
  included. The `registry` block of `README.md` and the field `hash` of an agent are in no handler.
- A string literal as the url of an http action or the path of a filesystem action panics
  (`parser/stmt.go:706`).

Requests and storage:

- An agent's registry takes the slot of a policy when a function with parameters is declared
  before it (`vm/vm.go:776`): `DeclarationsStand` holds only under `NoHoles`.
- AGENT_GET looks for the registry in all of storage, in the random order of a Go map
  (`vm/vm.go:797-809`): a variable with the name, the version and a hash of an agent may
  be stored in the agent's slot in its place (a policy may not: `hash` is a keyword, and the names
  of its fields are identifiers, `parser/stmt.go:348`). `DeclarationsStand` holds only under
  `NoImpostor`.
- The EXEC of `README.md` carries no artifact, and `HandleExec` refuses it (`vm/runtime.go:198`);
  the contracts a DEPLOY stores are read by `GetContract`, which nothing calls. The DEPLOY there
  has a field `ContractName`, which the code reads as `contract_name` (`vm/runtime.go:49`).

## Proofs

Every theorem holds for all values of the constants, under the named assumptions of its modules,
which TLC evaluates in the runs, and under the condition in the table, if there is one.

| Theorem | States | Module |
|---|---|---|
| `ParserTypeCorrect` | `Spec => []TypeOK` | `ParserProofs` |
| `ParserGroups` | `Spec => []Precedence` | `ParserProofs` |
| `ParserNestsBrackets` | `Spec => []BracketsNested` | `ParserProofs` |
| `ExpressionsAccepted` | `Spec => []AcceptsExpressions` | `ParserProofs` |
| `EndTakenAsName` | `Spec => []EndConsumedAsName` | `ParserProofs` |
| `CompilerTypeCorrect` | `Spec => []TypeOK` | `CompilerProofs` |
| `CompiledWellFormed` | `Spec => []CompiledIsWellFormed` | `CompilerProofs` |
| `CallsBind` | `Spec => []CallsBindTheirCallee`, without the words `forward` and `redeclare` | `CompilerProofs` |
| `SlotsStayDistinct` | `Spec => []SlotsDistinct` | `CompilerProofs` |
| `AcceptedNames` | `Spec => []AcceptedNamesHaveSlots`, which excepts what only the last clause of a loop under way brings in | `CompilerProofs` |
| `BodiesClosed` | `Spec => []FunctionBodiesClosed` | `CompilerControlProofs` |
| `OnlyLoopsGoBack` | `Spec => []BackwardJumpsAreLoops` | `CompilerControlProofs` |
| `HandlersFollow` | `Spec => []HandlersFollowTheirTry` | `CompilerControlProofs` |
| `ParametersPrivate` | `Spec => []ParametersStayInside` | `CompilerControlProofs` |
| `AlwaysAnnotated` | `Spec => []Annotated`, of structured programs | `CompilerControlProofs` |
| `EndTriesMatch` | `LSpec => []EndTryMatched`, of structured programs | `LifecycleProofs` |
| `RequiresRevert` | `LSpec => RequireReverts`, of structured programs | `LifecycleProofs` |
| `SuccessReturns` | `LSpec => []SuccessMeansReturned`, of structured programs | `LifecycleProofs` |
| `AlwaysBalanced` | `Spec => [](Typed /\ Balanced)`, of balanced programs | `CompilerControlProofs` |
| `OperandsArePresent` | `LSpec => []OperandsPresent`, of balanced programs | `LifecycleProofs` |
| `LifecycleTypeCorrect` | `LSpec => []LTypeOK` | `LifecycleProofs` |
| `LifecycleImplementsStructured` | `LSpec => StructuredControlFlow`, of structured programs | `LifecycleProofs` |
| `TypeCorrect` | `Spec => []TypeOK` | `SynxVMProofs` |
| `FetchInCode` | `Spec => []IpInCode` | `SynxVMProofs` |
| `ExecReturnsThroughHalt` | `Spec => []ReturnsThroughHalt` | `SynxVMProofs` |
| `UncaughtErrorEndsRun` | `Spec => UncaughtErrorIsFinal` | `SynxVMProofs` |
| `DeploymentTypeCorrect` | `Spec => []TypeOK` | `DeploymentProofs` |
| `AgentHashFound` | `Spec => []SingleAgentHash` | `DeploymentProofs` |
| `DeclarationsKeepTheirSlots` | `Spec => []DeclarationsStand` | `DeploymentProofs` |
| `PathsAreFollowed` | `Spec => []ModulesFollowImports` | `DeploymentProofs` |
| `CrashesOnCycles` | `Spec => []CrashedOnlyOnCycles`, if the stack holds a call for each file | `DeploymentProofs` |
| `ServerTypeCorrect` | `Spec => []TypeOK` | `RuntimeProofs` |
| `ServerStaysUp` | `Spec => []StaysUp` | `RuntimeProofs` |
| `ServerImplementsService` | `Spec => ServiceImplemented` | `RuntimeProofs` |

**The parser**, for every set of inputs, that is for programs of any length and depth.
`InputsAssumption`: the inputs are made of tokens, and each has a bound on its length. That the
handlers call each other without limit is what has to be overcome: a property of the present says
nothing of what the stack `todo` will still do. So the invariants are about the stack as a whole,
but a step needs to look at its first item alone.

- A *place* is what the handlers under way know of the parse: the brackets they have open, the
  nodes they are building with the power each counts on, and what may follow in the innermost one.
  `Takes(i, x, y)` says to which places `y` the item `i` may lead from `x`, whatever tokens it
  meets; `Walks(todo, x, y)` that the items do so one after the other. The invariant, `ParserInv`,
  is that `todo` walks from some place to `Home`, where the program is whole, and that the tokens
  read (`ReadTo`) and the nodes built (`Standing`) are as this place tells. Every production of
  the grammar is `Neutral` or otherwise a walk, shown once, so that a step which replaces the first
  item by a production only joins two walks. At `Home` no bracket is open: `ParserNestsBrackets`.
  `Standing` has in it that each node is `WellGrouped`: its operand at the left has no operator
  that binds looser on its right edge, the one at the right only tighter ones on its left edge. The
  loop of `parse_expr` keeps it since it goes on only while the power is above the minimal one.
- `ExpressionsAccepted` follows the reader of expressions, the reference of `AcceptsExpressions`,
  beside the parse. A *spot* is what the reader expects, what it has open, the tokens that may
  come next and the number of nodes under construction; `Brings(i, c, d)` that the item `i` consumes at
  the spot `c` exactly what the reader takes from there, to `d`. `Agreeing` is that the items of
  `todo` bring the parse from a spot where the reader agrees with it (it takes the present token
  as it would from there, `Agrees`) to `Outset`, between two statements, with as many statements
  in the tree as the reader has counted. The tokens that may come next are needed since a handler
  ends at a token it has seen and leaves it to its caller: after `parse_expr` with the power of
  an operator no tighter operator can come, and after one with the lowest no operator at all.
  `View`, the reader at a spot, need not be the reader itself: after a statement the reader stands
  behind an operand and the parse before an item, and both take the same tokens from there.

The existentials range over all places and spots, so TLC cannot evaluate the two invariants;
it checks the properties themselves, on every list of tokens up to its bound.

**The compiler**, for every set of classes, names, functions with their parameters, and bounds.
`CompilerAssumption`: `Byte` is positive, the pool fits it, parameters are names, and the
number literals are at most `Byte`. None of the properties is inductive, for each is about the
present and the stack `open` of constructs holds the future: positions to patch, and tables
and scopes that leaving a construct brings back. The invariants are

- `Typed`: the code is a sequence of instructions whose targets and constants are in range
  already (a jump yet to be patched has target 0), and every position an open construct holds is
  in the code and, where it will be patched, is that of a jump (`CodeOK`, `ScopeTyped`, `ExprOK`,
  `OpenOK`). A patch then writes an address reached and breaks no other instruction, so the
  finished code is well formed. `NextTyped` has one step per group of actions: those that append,
  those that open, go on with and close a construct;
- `FuncNesting`: the flag `isInFunction`, and each one saved, says whether a function is open
  around;
- `Calls`: a CALL emitted leads to the entry its function has now and will keep. It needs that no
  function is called before its declaration or declared twice (`DeclaredFirst`): the run
  `forward` is the counterexample without;
- `Slots`: in the present table and in each table some construct will restore, names have
  different slots below the next free one, and the slot a try keeps for its error is no name's;
- `Pending` and `Accepted`: the name a statement or an object literal under way will store to
  has a slot; and the names of the analyzer's scope, the present one and each that is kept, have
  a slot or are constants in the compiler's table that goes with it. The scope is `visible`: a name
  that only the last clause of a loop brings in enters it with that clause, and until then the
  theorem says nothing of it.

The proofs about slots and scopes treat a stack of open constructs position by position: a lemma for
each way it changes (`Pushed`, `Changed`, `Popped`), then one step for each group of actions.

`CompilerControlProofs` first says what each step does to the code, address by address: what it
adds, which jump it patches, which addresses the open constructs hold before and after. Its
invariants are then

- `LaidOut`: no address is held for a patch by two open constructs, what stands at those addresses
  is what the closing code counts on (`Shaped`), and a jump that has its target goes forward or
  closes a loop whose exit test leads just past it; a TRY leads past its END_TRY and the jump over
  the handler;
- `Bodies`: constructs nest by address. What those around a function hold stands before its body,
  what those inside hold stands in it, and every jump with a target has both ends in the body or
  neither; a function that has been left keeps a body that is closed so and ends in RET;
- `InUse` and `Parameters`: slots in code, tables and constructs have been given out; those of a
  function's parameters are used in its body, and while the body is open nowhere before it. This
  holds as long as slots fit the operand byte: at the 257th they come round;
- `Annotated`: each address of the code so far can be given a *level*, the number of try blocks open
  there and whether it belongs to a function, so that control passes only to addresses of the
  right level: fall-through and branches to the same, TRY to one deeper, its handler and END_TRY
  to one less, CALL into a body at depth 0, RET from depth 0. A jump not yet patched owes this to the
  construct that will patch it (`Chained`);
- `Balanced`: each address can be given a *height*, a number of operands an instruction there may
  count on (`Heights`): no instruction takes more than the height of its address, the height of the
  next one is at most what then is left, and the set `Z` of addresses where jumps lead, functions
  begin and handlers start has height 0. The height of the end of the code is the number of values
  the expression under way has there (`Standing`), and the open statements hold no address outside
  `Z` for later (`Marked`). `HeightsGrow` says how the heights of a step's code continue those there
  were; straight code needs only its own (`Climbs`).

`StructuredPrograms` is that no class has the words `forward`, `call_in_try` and `return_in_try`.
The run `structured` satisfies it, and the runs of those names are counterexamples without. It is
needed for the levels alone.

`BalancedPrograms` is that no class has the words by which the compiler emits fewer values than it
takes: `call` (a function that ends without `return v` leaves nothing, `compiler/stmt.go:133`),
`print` (`compiler/expr.go:269`) and `incdec` (`:296`), which leave nothing either; `unnamed`, since
a call of what is no name compiles its arguments alone (`:262`) and ++ of it nothing (`:299`);
`object`, since `x = {...}` is stored twice (`:201`, `:172`); `empty_print`, since an empty return
at top level prints what is not there (`compiler/stmt.go:96-100`); and `member_assign` with
`member`, since `x.y.z = v` leaves its object out (`compiler/expr.go:176`). Each of them, used as
an operand, is a real program that finds the stack empty. The run `answers` satisfies the condition. It is needed for the heights alone; the
other invariants are of all programs.

**Compiled code on the machine.** The annotation makes the two stacks of the machine agree. `LInv`
says of a running machine that the depth of `tryStack` is the level of `ip` and an empty `callStack`
means code outside functions (`Reached`); that each return address is at depth 0, and inside a
function unless it is the oldest (`Returning`); and that each frame of `tryStack` was pushed by the
activation under way, with a handler of the level one less than its own (`Catching`). So END_TRY
finds a frame, of its own TRY; RET leaves no frame behind; and a HALT is reached with both stacks
empty. `Effect` lists what an instruction can do to the two stacks, `MachineEffect` shows that each
action does one of these, and the refinement maps each to a step of `StructuredControl`: the mapped
`tries` is the sequence of zeros, one for each caller, with the length of `tryStack` behind
(`Shape`).

Its types are those of `SynxVM`. `MP` instantiates `SynxVMProofs` for the machine of the lifecycle,
`SameStep` and `SameStart` show that it is the one of `Lifecycle`, and `CompiledLoads`,
`NewMachineTyped` and `ReceivedLoads` that each artifact it is made of can be loaded: the one the
compiler leaves, and the one that has been through JSON. `LTyped` adds to `LTypeOK` that the
artifact has the code of the compiler, and holds of all programs. `LifecycleAssumption`: samples
and arguments are values. When the compiler panics no machine is made, and `LTypeOK` says nothing of
one.

In a balanced program the machine has what the heights count on. `Supplied` says of a running
machine that the stack is at least as long as the height of `ip`, and that each address it holds,
to return to or of a handler, is in `Z`: there nothing is counted on, so it does not matter what a
function, or an error caught in the midst of an expression, has left behind or taken away
(`vm/vm.go:1039`). `MachineProceeds` shows that each instruction passes on with what it leaves or
lands in `Z`, `Fed` is the invariant of the lifecycle around it, and `OperandsArePresent` follows
with `PopsTakes`: the machine pops no more than the compiler's heights say.

**Deployment**, for every set of programs, whatever they import. `ProgramsAssumption`: main is
among the files, which are finitely many, and declarations are of the kinds of the parser. `FramesAssumption`: the stack
holds a call. The invariants are

- `Typed`: the types of the variables and the discipline of the operand stack. In the code left to
  run, each instruction that takes a value comes right after one that leaves a value, and the stack
  holds a value exactly if the next instruction takes it;
- `QueueFollows`: the queue of the compiler is an end of the sequence of all declarations, those of
  the modules and then main's;
- `HashesOwned`: with one agent, every hash in storage, on the stack or in an object of the code is
  the agent's. So it does not matter which map the search for it meets first;
- `Standing`: of each declaration that is the last of its name, the value is on its way (`Pending`:
  its STORE is in the code, after the instructions that make the value, or the value is on the
  stack) or there (`Done`, and all stores to come are to greater slots). A registry goes to the key
  `len(storage)+1`. When its agent is declared, every slot below the agent's own is filled
  (`Filled`), so the key is beyond that slot, and only later declarations will write there. This
  needs `NoHoles`. And AGENT_GET leaves the agent's registry, whichever matching object the map
  gives, since whatever has its name and version has its hash too (`Genuine`). This needs
  `NoImpostor`. Without either, TLC finds `DeclarationsStand`
  violated;
- `LoaderWalks`: the calls of `resolveModule` under way are a path of imports from main. When they
  fill the stack, the path with the import that did not fit is at least as long as there are files:
  a cycle. `CrashesOnCycles` assumes that the stack holds a call for each file (`FilesFitTheStack`),
  which run `deployment` satisfies with `MaxFrames` 5 and three files; otherwise a long chain would
  exhaust it too;
- `LoaderVisits`: the paths of imports visited are the one the loader is on and those that leave it
  at an import it is past, and the modules correspond to them one-to-one, each the file its path
  leads to (`Corresponds`). When main is gone through, every path has been visited. Then none is
  longer than there are files: the longest would, by the pigeonhole principle, pass some file
  twice, and the way round repeated would make a longer one. So the paths are those that
  `ModulesFollowImports` counts. With `LoaderDescends`, that each module follows one that imports
  it, this is `PathsAreFollowed`.

**The machine**, for every set of artifacts and requests and every bound. `SynxVMAssumption`:
artifacts can be loaded (`Loadable`: they are of their types, and the code is not empty,
`vm/runtime.go:207`), and arguments are values.
None of the three invariants is inductive. `IInv` is the conjunction of

- `Typed`: `TypeOK`, and that the artifact is `Loadable`;
- `Contained`: for a well-formed artifact, not only `ip` but each return address and each
  handler is an address of the code, for a jump may lead to any of them;
- `OldestIsHalt`: during an EXEC the oldest return address is that of the HALT and, once the
  call stack is empty, `ip` has arrived there.

`InitIInv` and `NextIInv` show it inductive, one step for each action; `Invariance` concludes.
The proof that a step preserves it groups the actions by what they do to control: those that
fall through to the next instruction (`FallThroughSteps`), those that end the run
(`EndingSteps`), and jumps, calls, returns and handlers each by itself. What makes falling
through safe is `WellFormedCode`: well-formed code ends in HALT, which does not. The action
property follows from the guards: once an error is recorded, the only step of a running machine
is `Abort`, and a machine that has not started has none.

`TypeCorrect` is of any artifact, `FetchInCode` and `ExecReturnsThroughHalt` of well-formed ones,
which compiled code is by `CompiledWellFormed`: whatever the program, the machine stays inside
the code compiled from it.

**The server**, for any number of connections and any messages. `RuntimeAssumption`: messages are
of their types. `RInv` adds to `TypeOK` that a goroutine past its read has a message and one that
parses has a parse left (`Working`), that mu admits one goroutine to its store (`OneStores`), and
that, if clients wait for each other, one connection at most has parses left (`OneParses`). So no
map is accessed while it is written (`NoMapRace`), and nothing ends the process. The refinement
needs more: `Faithful` says what each place of a goroutine implies of its message and of the
artifact it built. `InitRefines` and `NextRefines` then map every step: Receive to Ask, the store
to Register, the answer to Succeed or Refuse, a lost connection to Close, the fatal error to
Collapse, and all others to a stutter.

Only model-checked, and why:

- the liveness properties `ParsingEnds`, `SoundProgramsDeploy`, `ForwardCodeEnds`,
  `CallsAreAnswered` and `RequestsEnd`: fairness is out of the prover's reach.

Every other property of a passing run is stated by a theorem.

## What is not modelled

- The lexer, a list of regular expressions tried in order on the text: its behaviour is that of
  Go's regexp library. `Parser` takes its token types, and a file with a lexical error is, to
  `Deployment`, one that is missing.
- The syntax tree (type declarations), the commit hash (one SHA-256, a pure function), the
  bytecode printer, and the local runner, a development driver of the same `Build` and machine.
- Of the compiler: the types of arguments that `ValidateFunctionCall` compares
  (`compiler/compiler.go:200-283`), and the metadata of tools, triggers, models and skills
  (`compiler/stmt.go:335-475`, `:603-693`), which no instruction reads. The fields of an object
  that is an operand are literals in the model, and so is, where the analyzer does not look, an
  event's name or a require's message that is neither a number nor a name.
- Of the analyzer: the names of types of parameters and fields, and the number of arguments of a
  call, which the model always gets right.
- Of the machine: that objects and arrays are references. A contract can change a constant, or
  the payload of an event already in the journal, through another name of it; objects have no
  identity in the model. Nor are the contents of objects, but for the fields `Deployment` follows.
- The JSON text of requests, and the length of frames.
- That damaged parser tables stay damaged after an overlap; the model gives the overlapping
  parses a wrong result and the later ones a right one.
- `GetContract` and `mu.RLock`, which nothing calls.

## Plan

What is left, in the order of its worth:

1. Values of parameter slots across activations: `ParametersStayInside` says that nobody but the
   function uses them, and a recursive call still overwrites its caller's.
2. `OperandsArePresent` with calls, whose heights are those of the caller once the function has
   returned; it needs that every function returns a value.
3. Objects by reference: constants and event payloads changed through another name.
