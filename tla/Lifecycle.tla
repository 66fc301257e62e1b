------------------------------ MODULE Lifecycle ------------------------------
(***************************************************************************)
(* A contract from source to answer: Build (vm/build.go) compiles it and   *)
(* runs its top-level code on a first machine, whose storage becomes the   *)
(* artifact's InitStorage; HandleExec (vm/runtime.go) rebuilds the         *)
(* artifact from JSON and runs one function on a second, fresh machine.    *)
(*                                                                         *)
(* The compiler's state is Compiler's, the machine's is an instance of     *)
(* SynxVM; programs are taken from the classes given to Compiler.          *)
(* The agent block that Build requires is taken as declared: its           *)
(* instructions are left out of the program.                               *)
(***************************************************************************)
EXTENDS Compiler

CONSTANTS
  Arguments,    \* argument values of a request, as encoding/json reads them
  MaxStack, MaxCalls, MaxJournal, MaxInt    \* SynxVM's bounds

ASSUME LifecycleAssumption ==
  Samples \subseteq Values /\ Arguments \subseteq Values /\ MaxStack \in Nat

VARIABLES
  phase,        \* "build", "init", "deployed", "exec" or "refused"
  artifact, mode, status, ip, stack, callStack, tryStack, storage, errors,
  lastError, journal

VM == INSTANCE SynxVM WITH Artifacts <- {}, Requests <- {}

vmvars == <<artifact, mode, status, ip, stack, callStack, tryStack, storage,
            errors, lastError, journal>>
lvars == <<cvars, phase, vmvars>>

NoArtifact == Artifact(<<>>, <<>>, NoEntries, NoEntries, NoEntries)

LInit ==
  /\ Init
  /\ phase = "build"
  /\ artifact = NoArtifact
  /\ mode = "none"
  /\ status = "idle"
  /\ ip = 0
  /\ stack = <<>>
  /\ callStack = <<>>
  /\ tryStack = <<>>
  /\ storage = NoEntries
  /\ errors = 0
  /\ lastError = NilV
  /\ journal = <<>>

\* vm.go:73 NewFromArtifact
NewMachine(art) ==
  /\ artifact' = art
  /\ mode' = "none"
  /\ status' = "idle"
  /\ ip' = 0
  /\ stack' = <<>>
  /\ callStack' = <<>>
  /\ tryStack' = <<>>
  /\ storage' = VM!FreshStorage(art)
  /\ errors' = 0
  /\ lastError' = NilV
  /\ journal' = <<>>

Compile ==
  /\ phase = "build"
  /\ Next
  /\ UNCHANGED <<phase, vmvars>>

\* build.go:40: the artifact, and the machine that initialises it
StartInit ==
  /\ phase = "build"
  /\ stage = "compiled"
  /\ phase' = "init"
  /\ NewMachine(Compiled)
  /\ UNCHANGED cvars

\* A panic of the compiler becomes an error response (runtime.go:106).
BuildPanics ==
  /\ phase = "build"
  /\ stage = "panicked"
  /\ phase' = "refused"
  /\ UNCHANGED <<cvars, vmvars>>

Machine ==
  /\ phase \in {"init", "exec"}
  /\ (phase = "init" /\ VM!Run) \/ VM!Step
  /\ UNCHANGED <<cvars, phase>>

DeployedAnyway == "deployed"     \* a fault
AfterInit == IF status = "success" THEN "deployed" ELSE "refused"

\* build.go:43
InitEnds ==
  /\ phase = "init"
  /\ VM!Done
  /\ phase' = AfterInit
  /\ artifact' = [artifact EXCEPT !.initStorage = storage]
  /\ UNCHANGED <<cvars, mode, status, ip, stack, callStack, tryStack, storage,
                 errors, lastError, journal>>

\* encoding/json on the way out of HandleDeploy and into HandleExec
Received(art) ==
  [art EXCEPT !.pool = [i \in DOMAIN @ |-> FromJSON(@[i])],
              !.initStorage = [s \in DOMAIN @ |-> FromJSON(@[s])]]

\* runtime.go:184, up to NewFromArtifact
StartExec ==
  /\ phase = "deployed"
  /\ phase' = "exec"
  /\ NewMachine(Received(artifact))
  /\ UNCHANGED cvars

\* runtime.go:226: one argument for each parameter; the function exists
Invoke ==
  /\ phase = "exec"
  /\ \E f \in DOMAIN functions :
       \E args \in [DOMAIN functions[f].args -> Arguments] : VM!RunFunction(f, args)
  /\ UNCHANGED <<cvars, phase>>

LNext ==
  \/ Compile \/ StartInit \/ BuildPanics
  \/ Machine \/ InitEnds \/ StartExec \/ Invoke

LSpec == LInit /\ [][LNext]_lvars

\* Build and HandleExec run to their end in the goroutine of the request.
LFairSpec ==
  /\ LSpec
  /\ WF_lvars(StartInit) /\ WF_lvars(BuildPanics) /\ WF_lvars(Machine)
  /\ WF_lvars(InitEnds) /\ WF_lvars(Invoke)

----------------------------------------------------------------------------
LTypeOK ==
  /\ phase \in {"build", "init", "deployed", "exec", "refused"}
  /\ VM!TypeOK \/ phase = "build" \/ stage = "panicked"    \* then there is no machine
  /\ phase \in {"build", "refused"} \/ stage = "compiled"
  /\ phase = "deployed" => status = "success" /\ mode = "init"

(***************************************************************************)
(* Compiled functions, returns and try blocks behave as StructuredControl  *)
(* promises: the flat callStack and tryStack of the machine, which know    *)
(* nothing of each other but a depth recorded by TRY (vm.go:929, :1014),   *)
(* implement activations that own their try blocks.                        *)
(***************************************************************************)
Structured ==
  INSTANCE StructuredControl WITH
    tries <- [i \in 1..(Len(callStack) + 1) |->
                Cardinality({k \in DOMAIN tryStack : tryStack[k].callDepth = i - 1})],
    outcome <- IF status \in {"idle", "running"} THEN "running"
               ELSE IF status = "success" THEN status ELSE "failed"

StructuredControlFlow == Structured!Spec

(***************************************************************************)
(* Every END_TRY removes the frame its own TRY pushed: the machine never   *)
(* meets one with no frame left, the case vm.go:946 panics on.             *)
(***************************************************************************)
EndTryMatched ==
  VM!Executes({"END_TRY"}) => tryStack # <<>>

(***************************************************************************)
(* An EXEC is answered with success only when the function it named, and   *)
(* every function called from it, has returned.                            *)
(***************************************************************************)
SuccessMeansReturned == status = "success" => callStack = <<>>

(***************************************************************************)
(* A failed require reverts the call: unless a try block of a function     *)
(* still active encloses it, the error is recorded and ends the call.      *)
(***************************************************************************)
RequireReverts ==
  [][VM!Err /\ (\A k \in DOMAIN tryStack : tryStack[k].callDepth > Len(callStack))
       => errors' > 0]_lvars

(***************************************************************************)
(* Compiled code gives every instruction its operands: none finds the      *)
(* stack too short, in any order of branches, loops and caught errors. It  *)
(* speaks of programs without what does not leave the one operand expected *)
(* of it: calls, print, ++ and --, a call or ++ of what is no name, object *)
(* literals assigned to a name, x.y.z = v, an empty return at top level.   *)
(***************************************************************************)
OperandsPresent ==
  VM!Executes({VM!At.op}) => VM!Pops(VM!At) <= Len(stack)

(***************************************************************************)
(* A contract without loops or calls is always answered: its compilation   *)
(* leads to a deployment or a refusal, and each of its functions ends,     *)
(* whatever requires fail and whatever try blocks catch them (execute has  *)
(* no limit on its steps).                                                 *)
(***************************************************************************)
Loopless == stage = "compiled" /\ VM!ForwardOnly(Compiled)

CallsAreAnswered ==
  /\ (Loopless \/ stage = "panicked") ~> phase \in {"deployed", "refused", "exec"}
  /\ (Loopless /\ phase = "exec" /\ DOMAIN functions # {}) ~> VM!Done
=============================================================================
