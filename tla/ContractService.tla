--------------------------- MODULE ContractService ---------------------------
(***************************************************************************)
(* What the server promises its clients, one request per connection: a     *)
(* request is answered at most once; a DEPLOY is answered with success     *)
(* only after the registry holds the artifact its source denotes, and with *)
(* failure only if it never changed the registry; nothing else changes the *)
(* registry. Parsing, compiling, locking and encoding are left out.        *)
(*                                                                         *)
(* A faulty service may also refuse a good request, register a wrong       *)
(* artifact, or lose everything at once.                                   *)
(***************************************************************************)
CONSTANTS Conns, Messages, NoMessage, Hashes, NoArtifact, Garbled

VARIABLES
  faulty,     \* fixed
  registry,   \* hash -> its artifact, or NoArtifact
  message,    \* connection -> its message, or NoMessage
  state       \* connection -> "open", "registered", "success", "failure", "closed"

svars == <<faulty, registry, message, state>>

Init ==
  /\ faulty \in BOOLEAN
  /\ registry = [h \in Hashes |-> NoArtifact]
  /\ message = [c \in Conns |-> NoMessage]
  /\ state = [c \in Conns |-> "open"]

Asked(c) == state[c] = "open" /\ message[c] # NoMessage

Ask(c, m) ==
  /\ state[c] = "open" /\ message[c] = NoMessage
  /\ message' = [message EXCEPT ![c] = m]
  /\ UNCHANGED <<faulty, registry, state>>

Register(c) ==
  /\ Asked(c)
  /\ message[c].type = "DEPLOY" /\ message[c].work = "done"
  /\ \E a \in {message[c].artifact} \cup (IF faulty THEN {Garbled} ELSE {}) :
       registry' = [registry EXCEPT ![message[c].hash] = a]
  /\ state' = [state EXCEPT ![c] = "registered"]
  /\ UNCHANGED <<faulty, message>>

Succeed(c) ==
  /\ \/ state[c] = "registered"
     \/ Asked(c) /\ message[c].type # "DEPLOY" /\ message[c].work = "done"
  /\ state' = [state EXCEPT ![c] = "success"]
  /\ UNCHANGED <<faulty, registry, message>>

Refuse(c) ==
  /\ Asked(c)
  /\ message[c].work # "done" \/ faulty
  /\ state' = [state EXCEPT ![c] = "failure"]
  /\ UNCHANGED <<faulty, registry, message>>

\* The connection ends without an answer.
Close(c) ==
  /\ state[c] \in {"open", "registered"}
  /\ state' = [state EXCEPT ![c] = "closed"]
  /\ UNCHANGED <<faulty, registry, message>>

Collapse ==
  /\ faulty
  /\ registry' = [h \in Hashes |-> NoArtifact]
  /\ state' = [c \in Conns |-> IF state[c] \in {"success", "failure"} THEN state[c] ELSE "closed"]
  /\ UNCHANGED <<faulty, message>>

Next ==
  \/ Collapse
  \/ \E c \in Conns :
       \/ \E m \in Messages : Ask(c, m)
       \/ Register(c) \/ Succeed(c) \/ Refuse(c) \/ Close(c)

Spec == Init /\ [][Next]_svars
=============================================================================
