------------------------------ MODULE MCSynxVM ------------------------------
(***************************************************************************)
(* Small instances of SynxVM. HandleExec runs whatever artifact a request  *)
(* carries, so the artifacts are every short instruction sequence over an  *)
(* alphabet, not only what the compiler emits.                             *)
(***************************************************************************)
EXTENDS SynxVM

MCSamples == {IntV(0), FloatV(0), StrV(1), ObjV(0)}

MCPool == <<StrV(1)>>

\* f takes one argument in slot 1, g none; the map back from addresses is
\* the compiler's.
Functions == ("f" :> [addr |-> 0, args |-> <<1>>]) @@ ("g" :> [addr |-> 2, args |-> <<>>])
FunctionNames == (0 :> "f") @@ (2 :> "g")

Of(code) == Artifact(code, MCPool, Functions, FunctionNames, NoEntries)

\* Control flow and errors, four instructions before the HALT.
ControlOps ==
  {Instr("PUSH", 0, 0), Instr("JMP", 3, 0), Instr("JMP_IF", 4, 0),
   Instr("CALL", 0, 0), Instr("CALL", 2, 0), Op("RET"), Instr("TRY", 3, 2),
   Op("END_TRY"), Op("ERR"), Instr("SLOAD", 1, 0)}

ControlArtifacts ==
  {Of(Append(c, Op("HALT"))) : c \in [1..4 -> ControlOps]}

\* Every instruction: two of them after four literals, before an end that may
\* be missing.
AllOps ==
  {Instr("CONST", 0, 0), Instr("PUSH", 1, 0), Instr("SLOAD", 1, 0),
   Instr("STORE", 1, 0), Instr("JMP_IF", 5, 0), Instr("TRY", 5, 1),
   Instr("HASH", 0, 0)}
  \cup {Op(op) : op \in {"FALSE", "NULL", "PUSH_OBJECT", "ADD", "SUB", "MUL",
                         "DIV", "GT", "LT_EQ", "EQ", "AND", "OR", "NOT", "SWAP", "PRINT",
                         "NOP", "DUP", "DELETE", "EMIT", "REQUIRE", "ERR", "PLUS_EQ", "POP",
                         "SET_PROPERTY", "GET_PROPERTY", "ACCESS", "LENGTH", "CONTAINS",
                         "REGEX", "NONCE", "GET_ENV", "TYPE_DECLARE", "AGENT_DECLARE",
                         "AGENT_GET", "AGENT_VALIDATE", "RET"}}

Operands ==
  <<Instr("CONST", 0, 0), Op("PUSH_OBJECT"), Instr("CONST", 0, 0), Instr("PUSH", 1, 0)>>

AllArtifacts ==
  {Of(Operands \o c \o end) :
     c \in [1..2 -> AllOps], end \in {<<>>, <<Op("HALT")>>}}

MCArtifacts == ControlArtifacts \cup AllArtifacts

MCRequests ==
  {<<"f", <<IntV(0)>>>>, <<"f", <<>>>>, <<"g", <<>>>>, <<"h", <<>>>>}
=============================================================================
