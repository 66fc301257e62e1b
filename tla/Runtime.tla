------------------------------- MODULE Runtime -------------------------------
(***************************************************************************)
(* The server: main.go's accept loop, and vm/runtime.go's HandleConnection *)
(* in a goroutine of its own for each connection. The goroutines share the *)
(* contracts map, which mu guards, and the package-level lookup tables of  *)
(* the parser (parser/lookups.go:33), which every Parse writes again and   *)
(* then reads, and which nothing guards.                                   *)
(*                                                                         *)
(* What a request comes to once its goroutine has it for itself (lexing,   *)
(* compiling, running) is given with the message: see Compiler, SynxVM and *)
(* Lifecycle.                                                              *)
(*                                                                         *)
(* A definition marked "a fault" is a mutation of the one after it, which  *)
(* the properties are tried on; nothing else uses it.                      *)
(***************************************************************************)
EXTENDS Integers

CONSTANTS
  Conns,        \* connections, with one request each
  Messages,     \* the messages clients send
  NoMessage,
  Hashes,       \* the contract hashes of DEPLOY requests
  NoArtifact,
  Garbled       \* what a parse with inconsistent tables may give

(***************************************************************************)
(* work is what a request comes to: "done", "refused" (an error result),   *)
(* "panics" (one that processMessage recovers), or "endless" (the contract *)
(* loops). parses counts the Parse calls of a DEPLOY: the main source and  *)
(* its modules, up to the one it fails at. encodes tells whether           *)
(* json.Marshal accepts the response.                                      *)
(***************************************************************************)
ASSUME RuntimeAssumption ==
  /\ NoMessage \notin Messages
  /\ NoArtifact # Garbled
  /\ \A m \in Messages :
       /\ m.type \in {"DEPLOY", "EXEC", "PING", "other"}
       /\ m.work \in {"done", "refused", "panics", "endless"}
       /\ m.type = "PING" => m.work = "done"
       /\ m.type = "other" => m.work = "refused"
       /\ m.hash \in Hashes
       /\ m.parses \in {0, 1, 2}
       /\ m.encodes \in BOOLEAN

VARIABLES
  serial,      \* whether clients wait for each other's deployments to be built
  up,          \* the process runs
  pc,          \* connection -> where its goroutine is
  msg,         \* connection -> the message it read, or NoMessage
  left,        \* connection -> Parse calls still to come
  built,       \* connection -> the artifact its Build gives
  answer,      \* connection -> "none", or the Success of its response
  mu,          \* the connections holding mu
  contracts    \* hash -> artifact, or NoArtifact

rvars == <<serial, up, pc, msg, left, built, answer, mu, contracts>>

At(place) == {c \in Conns : pc[c] = place}
Goto(c, place) == pc' = [pc EXCEPT ![c] = place]
Others(c) == Conns \ {c}

Init ==
  /\ serial \in BOOLEAN
  /\ up = TRUE
  /\ pc = [c \in Conns |-> "reading"]
  /\ msg = [c \in Conns |-> NoMessage]
  /\ left = [c \in Conns |-> 0]
  /\ built = [c \in Conns |-> NoArtifact]
  /\ answer = [c \in Conns |-> "none"]
  /\ mu = {}
  /\ contracts = [h \in Hashes |-> NoArtifact]

Respond(c, success) ==
  /\ answer' = [answer EXCEPT ![c] = success]
  /\ Goto(c, "responding")

----------------------------------------------------------------------------
(* HandleConnection, runtime.go:63. *)

BeingParsed == {c \in Conns : left[c] > 0}

Receive(c, m) ==
  /\ up /\ pc[c] = "reading"
  /\ m.type = "DEPLOY" /\ serial => BeingParsed = {}
  /\ msg' = [msg EXCEPT ![c] = m]
  /\ left' = [left EXCEPT ![c] = IF m.type = "DEPLOY" THEN m.parses ELSE 0]
  /\ built' = [built EXCEPT ![c] = IF m.type = "DEPLOY" THEN m.artifact ELSE NoArtifact]
  /\ Goto(c, IF m.type = "DEPLOY" THEN "building" ELSE "working")
  /\ UNCHANGED <<serial, up, answer, mu, contracts>>

\* A short or malformed frame: the connection is closed without a response.
Discard(c) ==
  /\ up /\ pc[c] = "reading"
  /\ Goto(c, "closed")
  /\ UNCHANGED <<serial, up, msg, left, built, answer, mu, contracts>>

\* The response is encoded and written; either may fail, and then nothing is said.
Answer(c) ==
  /\ up /\ pc[c] = "responding"
  /\ msg[c].encodes
  /\ Goto(c, "answered")
  /\ UNCHANGED <<serial, up, msg, left, built, answer, mu, contracts>>

GiveUp(c) ==
  /\ up /\ pc[c] = "responding"
  /\ Goto(c, "closed")
  /\ UNCHANGED <<serial, up, msg, left, built, answer, mu, contracts>>

----------------------------------------------------------------------------
(* Requests with no shared state: EXEC builds its machine from the request *)
(* (runtime.go:184), PING and unknown types are answered at once, and a    *)
(* panic is recovered (runtime.go:106).                                    *)
Work(c) ==
  /\ up /\ pc[c] = "working"
  /\ msg[c].work # "endless"
  /\ Respond(c, IF msg[c].work = "done" THEN "success" ELSE "failure")
  /\ UNCHANGED <<serial, up, msg, left, built, mu, contracts>>

----------------------------------------------------------------------------
(* HandleDeploy, runtime.go:138, and Build, build.go:13. *)

\* createTokenLookups and createTokenTypeLookups begin to write the tables, under
\* the eyes of whoever parses.
BeginFill(c) ==
  /\ up /\ pc[c] = "building"
  /\ left[c] > 0
  /\ pc' = [d \in Conns |-> IF d = c THEN "filling"
                            ELSE IF pc[d] = "parsing" THEN "misparsing" ELSE pc[d]]
  /\ UNCHANGED <<serial, up, msg, left, built, answer, mu, contracts>>

EndFill(c) ==
  /\ up /\ pc[c] = "filling"
  /\ Goto(c, IF At("filling") = {c} THEN "parsing" ELSE "misparsing")
  /\ UNCHANGED <<serial, up, msg, left, built, answer, mu, contracts>>

\* A lookup in tables being written may miss: a missing handler panics, a missing
\* binding power ends an expression early. (That the tables stay damaged is left
\* out.)
EndParse(c) ==
  /\ up /\ pc[c] \in {"parsing", "misparsing"}
  /\ left' = [left EXCEPT ![c] = @ - 1]
  /\ \/ Goto(c, "building") /\ UNCHANGED <<built, answer>>
     \/ /\ pc[c] = "misparsing"
        /\ built' = [built EXCEPT ![c] = Garbled]
        /\ Goto(c, "building")
        /\ UNCHANGED answer
     \/ pc[c] = "misparsing" /\ Respond(c, "failure") /\ UNCHANGED built
  /\ UNCHANGED <<serial, up, msg, mu, contracts>>

AfterBuildAnyway(c) == Goto(c, "locking") /\ UNCHANGED <<answer, mu>>       \* a fault
LockedBuild(c) ==                                       \* a fault: mu held during the build
  IF msg[c].work \in {"done", "endless"}
  THEN /\ mu = {} /\ mu' = {c}
       /\ msg[c].work = "done" => Goto(c, "storing")
       /\ msg[c].work = "endless" => pc' = pc
       /\ UNCHANGED answer
  ELSE Respond(c, "failure") /\ UNCHANGED mu
AfterBuild(c) ==
  /\ msg[c].work # "endless"
  /\ IF msg[c].work = "done" THEN Goto(c, "locking") /\ UNCHANGED answer
     ELSE Respond(c, "failure")
  /\ UNCHANGED mu

\* Build returns, or the contract's own code never does.
EndBuild(c) ==
  /\ up /\ pc[c] = "building"
  /\ left[c] = 0
  /\ AfterBuild(c)
  /\ UNCHANGED <<serial, up, msg, left, built, contracts>>

\* runtime.go:162
Unlocked(c) == TRUE          \* a fault
Free(c) == mu = {}

NotReleased(c) == mu         \* a fault
Released(c) == mu \ {c}

Lock(c) ==
  /\ up /\ pc[c] = "locking"
  /\ Free(c)
  /\ mu' = mu \cup {c}
  /\ Goto(c, "storing")
  /\ UNCHANGED <<serial, up, msg, left, built, answer, contracts>>

StoreAndUnlock(c) ==
  /\ up /\ pc[c] = "storing"
  /\ contracts' = [contracts EXCEPT ![msg[c].hash] = built[c]]
  /\ mu' = Released(c)
  /\ Respond(c, "success")
  /\ UNCHANGED <<serial, up, msg, left, built>>

----------------------------------------------------------------------------
(* Go's maps detect some accesses that overlap a write and end the process *)
(* with a fatal error, which recover does not catch.                       *)
MapRace ==
  \E c \in Conns :
    \/ pc[c] = "filling" /\ (At("filling") \cup At("misparsing")) \cap Others(c) # {}
    \/ pc[c] = "storing" /\ At("storing") \cap Others(c) # {}

FatalError ==
  /\ up
  /\ MapRace
  /\ up' = FALSE
  /\ pc' = [c \in Conns |-> IF pc[c] \in {"answered", "closed"} THEN pc[c] ELSE "closed"]
  /\ contracts' = [h \in Hashes |-> NoArtifact]
  /\ mu' = {}
  /\ UNCHANGED <<serial, msg, left, built, answer>>

Handle(c) ==
  \/ Answer(c) \/ GiveUp(c) \/ Work(c)
  \/ BeginFill(c) \/ EndFill(c) \/ EndParse(c) \/ EndBuild(c)
  \/ Lock(c) \/ StoreAndUnlock(c)

Next ==
  \/ \E c \in Conns :
       \/ \E m \in Messages : Receive(c, m)
       \/ Discard(c) \/ Handle(c)
  \/ FatalError

Spec == Init /\ [][Next]_rvars

\* The scheduler runs every goroutine that can run, and sync.RWMutex gives the
\* lock to every goroutine that waits for it; a client may never send its frame.
FairSpec == Spec /\ \A c \in Conns : WF_rvars(Handle(c))

----------------------------------------------------------------------------
Places == {"reading", "working", "building", "filling", "parsing", "misparsing", "locking",
           "storing", "responding", "answered", "closed"}

Built == {NoArtifact, Garbled} \cup {m.artifact : m \in Messages}

TypeOK ==
  /\ serial \in BOOLEAN
  /\ up \in BOOLEAN
  /\ pc \in [Conns -> Places]
  /\ msg \in [Conns -> Messages \cup {NoMessage}]
  /\ left \in [Conns -> {0, 1, 2}]
  /\ built \in [Conns -> Built]
  /\ contracts \in [Hashes -> Built]
  /\ answer \in [Conns -> {"none", "success", "failure"}]
  /\ \A c \in Conns : pc[c] \in {"responding", "answered"} => answer[c] # "none"
  /\ mu = At("storing")

\* How far a request is, seen from outside: a contract counts as registered from
\* its store on.
ServiceState(c) ==
  CASE pc[c] = "answered" -> answer[c]
    [] pc[c] = "closed" -> "closed"
    [] pc[c] = "responding" /\ msg[c].type = "DEPLOY" /\ answer[c] = "success" -> "registered"
    [] OTHER -> "open"

(***************************************************************************)
(* The goroutines implement ContractService: their table of contracts is   *)
(* an atomic register per hash, a DEPLOY that is refused, that panics or   *)
(* that the client abandons before its store leaves no trace, one answered *)
(* with success is in the table (vm/runtime.go:138).                       *)
(***************************************************************************)
Service ==
  INSTANCE ContractService WITH
    registry <- contracts,
    faulty <- ~serial,
    message <- msg,
    state <- [c \in Conns |-> ServiceState(c)]

ServiceImplemented == Service!Spec

(***************************************************************************)
(* Requests handled at once never bring the process down, as long as their *)
(* clients do not have two contracts parsed at a time: neither the table   *)
(* of contracts nor the parser's tables are accessed while one writes them.*)
(***************************************************************************)
StaysUp == serial => up

(***************************************************************************)
(* The runtime is long-lived: no combination of requests ends the process. *)
(***************************************************************************)
LongLived == up

(***************************************************************************)
(* Whoever asks hears of it, whatever the other requests do meanwhile: a   *)
(* request that does not loop ends in an answer or, if the client is gone  *)
(* or the response cannot be encoded, in a closed connection. A contract   *)
(* that never ends delays only its own client (vm/runtime.go:162 takes mu  *)
(* for the store alone).                                                   *)
(***************************************************************************)
RequestsEnd ==
  \A c \in Conns :
    (msg[c] # NoMessage /\ msg[c].work # "endless") ~> pc[c] \in {"answered", "closed"}
=============================================================================
