---------------------------- MODULE RuntimeProofs ----------------------------
(***************************************************************************)
(* Theorems about the server of Runtime, for any number of connections and *)
(* any messages: its state keeps its types, it stays up as long as clients *)
(* have their deployments parsed one at a time, and it implements the      *)
(* atomic registry of ContractService.                                     *)
(***************************************************************************)
EXTENDS Runtime, TLAPS

\* A goroutine past its read has a message, and one that parses has a parse left.
Working ==
  \A c \in Conns :
    /\ pc[c] \notin {"reading", "closed"} => msg[c] \in Messages
    /\ pc[c] \in {"filling", "parsing", "misparsing"} => left[c] > 0

\* The purpose of mu.
OneStores == \A c, d \in At("storing") : c = d

\* What clients that wait for each other ensure.
OneParses == serial => up /\ \A c, d \in BeingParsed : c = d

RInv == TypeOK /\ Working /\ OneStores /\ OneParses

----------------------------------------------------------------------------
LEMMA RInvInit == Init => RInv
  BY DEF Init, RInv, TypeOK, Places, Built, At, Working, OneStores, OneParses, BeingParsed

LEMMA NoMapRace ==
  ASSUME RInv, serial
  PROVE  ~MapRace
<1>1. \A c \in At("filling") \cup At("misparsing") : c \in BeingParsed
  BY DEF RInv, Working, At, BeingParsed
<1>2. \A c \in Conns : pc[c] = "filling" => (At("filling") \cup At("misparsing")) \cap Others(c) = {}
  BY <1>1 DEF RInv, OneParses, At, Others
<1>3. \A c \in Conns : pc[c] = "storing" => At("storing") \cap Others(c) = {}
  BY DEF RInv, OneStores, At, Others
<1> QED
  BY <1>2, <1>3 DEF MapRace

\* One step for each action; only Lock admits a goroutine to its store, only Receive
\* gives a connection something to parse.
LEMMA RInvNext == RInv /\ [Next]_rvars => RInv'
<1> SUFFICES ASSUME RInv, [Next]_rvars PROVE RInv'
  OBVIOUS
<1> USE DEF RInv, TypeOK, Places, Built, Working, OneStores, OneParses, At, BeingParsed
<1>1. ASSUME NEW c \in Conns, NEW m \in Messages, Receive(c, m) PROVE RInv'
  <2>1. m.parses \in {0, 1, 2}
    BY RuntimeAssumption
  <2>2. TypeOK'
    BY <1>1, <2>1 DEF Receive, Goto
  <2>3. Working' /\ OneStores'
    BY <1>1, <2>1 DEF Receive, Goto
  <2>4. OneParses'
    BY <1>1, <2>1 DEF Receive, Goto
  <2> QED
    BY <2>2, <2>3, <2>4
<1>2. ASSUME NEW c \in Conns, Discard(c) PROVE RInv'
  BY <1>2 DEF Discard, Goto
<1>3. ASSUME NEW c \in Conns, Answer(c) PROVE RInv'
  BY <1>3 DEF Answer, Goto
<1>4. ASSUME NEW c \in Conns, GiveUp(c) PROVE RInv'
  BY <1>4 DEF GiveUp, Goto
<1>5. ASSUME NEW c \in Conns, Work(c) PROVE RInv'
  BY <1>5 DEF Work, Respond, Goto
<1>6. ASSUME NEW c \in Conns, BeginFill(c) PROVE RInv'
  BY <1>6 DEF BeginFill
<1>7. ASSUME NEW c \in Conns, EndFill(c) PROVE RInv'
  BY <1>7 DEF EndFill, Goto
<1>8. ASSUME NEW c \in Conns, EndParse(c) PROVE RInv'
  BY <1>8 DEF EndParse, Respond, Goto
<1>9. ASSUME NEW c \in Conns, EndBuild(c) PROVE RInv'
  BY <1>9 DEF EndBuild, AfterBuild, Respond, Goto
<1>10. ASSUME NEW c \in Conns, Lock(c) PROVE RInv'
  BY <1>10 DEF Lock, Free, Goto
<1>11. ASSUME NEW c \in Conns, StoreAndUnlock(c) PROVE RInv'
  BY <1>11 DEF StoreAndUnlock, Released, Respond, Goto
<1>12. ASSUME FatalError PROVE RInv'
  <2>1. ~serial
    BY <1>12, NoMapRace DEF FatalError
  <2> QED
    BY <1>12, <2>1 DEF FatalError
<1>13. ASSUME UNCHANGED rvars PROVE RInv'
  BY <1>13 DEF rvars
<1> QED
  BY <1>1, <1>2, <1>3, <1>4, <1>5, <1>6, <1>7, <1>8, <1>9, <1>10, <1>11, <1>12, <1>13
  DEF Next, Handle

LEMMA RInvariance == Spec => []RInv
  BY RInvInit, RInvNext, PTL DEF Spec

----------------------------------------------------------------------------
\* The server's state keeps its types, and mu is held by whoever stores.
THEOREM ServerTypeCorrect == Spec => []TypeOK
<1>1. RInv => TypeOK
  BY DEF RInv
<1> QED
  BY <1>1, RInvariance, PTL

\* Requests handled at once never bring the process down, if clients wait for each
\* other's deployments to be parsed.
THEOREM ServerStaysUp == Spec => []StaysUp
<1>1. RInv => StaysUp
  BY DEF RInv, OneParses, StaysUp
<1> QED
  BY <1>1, RInvariance, PTL

----------------------------------------------------------------------------
(* The refinement. *)
Deploying == {"building", "filling", "parsing", "misparsing", "locking", "storing"}

\* What the place of a goroutine says of its message and of what was built from it.
Faithful ==
  \A c \in Conns :
    /\ pc[c] = "reading" => msg[c] = NoMessage
    /\ pc[c] \in Deploying =>
         /\ msg[c].type = "DEPLOY"
         /\ built[c] = msg[c].artifact \/ (~serial /\ built[c] = Garbled)
    /\ pc[c] = "working" => msg[c].type # "DEPLOY"
    /\ pc[c] \in {"locking", "storing"} => msg[c].work = "done"
    /\ pc[c] = "misparsing" => ~serial
    /\ pc[c] = "responding" =>
         IF answer[c] = "success" THEN msg[c].work = "done"
         ELSE msg[c].work # "done" \/ ~serial

FInv == RInv /\ Faithful

LEMMA FInvInit == Init => FInv
  BY RInvInit DEF Init, FInv, Faithful, Deploying

\* One goroutine at a time parses when clients wait, so no parse is disturbed.
LEMMA NoneMisparses ==
  ASSUME RInv, serial, NEW c \in Conns, left[c] > 0, NEW d \in Conns, d # c
  PROVE  pc[d] \notin {"filling", "parsing", "misparsing"}
  BY DEF RInv, OneParses, BeingParsed, Working

LEMMA FInvNext == FInv /\ [Next]_rvars => FInv'
<1> SUFFICES ASSUME FInv, [Next]_rvars PROVE Faithful'
  BY RInvNext DEF FInv
<1> USE DEF FInv, Faithful, Deploying
<1>t. /\ serial \in BOOLEAN
      /\ DOMAIN pc = Conns /\ DOMAIN msg = Conns /\ DOMAIN left = Conns
      /\ DOMAIN answer = Conns /\ DOMAIN built = Conns /\ pc \in [Conns -> Places]
      /\ answer \in [Conns -> {"none", "success", "failure"}]
  BY DEF RInv, TypeOK
<1>1. ASSUME NEW c \in Conns, NEW m \in Messages, Receive(c, m) PROVE Faithful'
  BY <1>1, <1>t DEF Receive, Goto
<1>2. ASSUME NEW c \in Conns, Discard(c) PROVE Faithful'
  BY <1>2, <1>t DEF Discard, Goto
<1>3. ASSUME NEW c \in Conns, Answer(c) PROVE Faithful'
  BY <1>3, <1>t DEF Answer, Goto
<1>4. ASSUME NEW c \in Conns, GiveUp(c) PROVE Faithful'
  BY <1>4, <1>t DEF GiveUp, Goto
<1>5. ASSUME NEW c \in Conns, Work(c) PROVE Faithful'
  BY <1>5, <1>t DEF Work, Respond, Goto
<1>6. ASSUME NEW c \in Conns, BeginFill(c) PROVE Faithful'
  BY <1>6, <1>t, NoneMisparses DEF BeginFill
<1>7. ASSUME NEW c \in Conns, EndFill(c) PROVE Faithful'
  <2>1. left[c] > 0
    BY <1>7 DEF EndFill, RInv, Working
  <2>2. serial => At("filling") = {c}
    BY <1>7, <2>1, NoneMisparses DEF EndFill, At
  <2> QED
    BY <1>7, <1>t, <2>2 DEF EndFill, Goto
<1>8. ASSUME NEW c \in Conns, EndParse(c) PROVE Faithful'
  BY <1>8, <1>t DEF EndParse, Respond, Goto
<1>9. ASSUME NEW c \in Conns, EndBuild(c) PROVE Faithful'
  BY <1>9, <1>t DEF EndBuild, AfterBuild, Respond, Goto
<1>10. ASSUME NEW c \in Conns, Lock(c) PROVE Faithful'
  BY <1>10, <1>t DEF Lock, Goto
<1>11. ASSUME NEW c \in Conns, StoreAndUnlock(c) PROVE Faithful'
  BY <1>11, <1>t DEF StoreAndUnlock, Respond, Goto
<1>12. ASSUME FatalError PROVE Faithful'
  BY <1>12, <1>t DEF FatalError
<1>13. ASSUME UNCHANGED rvars PROVE Faithful'
  BY <1>13 DEF rvars
<1> QED
  BY <1>1, <1>2, <1>3, <1>4, <1>5, <1>6, <1>7, <1>8, <1>9, <1>10, <1>11, <1>12, <1>13
  DEF Next, Handle

States == [c \in Conns |-> ServiceState(c)]

LEMMA InitRefines == Init => Service!Init
<1> SUFFICES ASSUME Init PROVE Service!Init
  OBVIOUS
<1>1. \A c \in Conns : ServiceState(c) = "open"
  BY DEF Init, ServiceState
<1> QED
  BY <1>1 DEF Init, Service!Init

\* An action that moves one connection.
LEMMA OneMoves ==
  ASSUME NEW c \in Conns, \A d \in Others(c) : ServiceState(d)' = ServiceState(d)
  PROVE  States' = [States EXCEPT ![c] = ServiceState(c)']
  BY DEF States, Others

LEMMA OthersStay ==
  ASSUME NEW c \in Conns,
         \A d \in Others(c) : pc'[d] = pc[d] /\ msg'[d] = msg[d] /\ answer'[d] = answer[d]
  PROVE  States' = [States EXCEPT ![c] = ServiceState(c)']
<1>1. \A d \in Others(c) : ServiceState(d)' = ServiceState(d)
  BY DEF ServiceState
<1> QED
  BY <1>1, OneMoves

\* A step of a connection that nobody outside sees.
LEMMA UnseenStep ==
  ASSUME \A d \in Conns : ServiceState(d)' = ServiceState(d),
         UNCHANGED <<serial, msg, contracts>>
  PROVE  UNCHANGED Service!svars
<1>1. [d \in Conns |-> ServiceState(d)]' = [d \in Conns |-> ServiceState(d)]
  OBVIOUS
<1> QED
  BY <1>1 DEF Service!svars

LEMMA NextRefines == FInv /\ [Next]_rvars => [Service!Next]_Service!svars
<1> SUFFICES ASSUME FInv, [Next]_rvars PROVE [Service!Next]_Service!svars
  OBVIOUS
<1>t. /\ serial \in BOOLEAN
      /\ pc \in [Conns -> Places]
      /\ msg \in [Conns -> Messages \cup {NoMessage}]
      /\ answer \in [Conns -> {"none", "success", "failure"}]
      /\ \A c \in Conns : pc[c] \in {"responding", "answered"} => answer[c] \in {"success", "failure"}
      /\ \A c \in Conns : pc[c] \notin {"reading", "closed"} => msg[c] \in Messages
  BY DEF FInv, RInv, TypeOK, Working
<1>m. NoMessage \notin Messages
  BY RuntimeAssumption
<1>1. ASSUME NEW c \in Conns, NEW m \in Messages, Receive(c, m) PROVE Service!Ask(c, m)
  <2>1. \A d \in Conns : ServiceState(d)' = ServiceState(d)
    BY <1>1, <1>t DEF Receive, Goto, ServiceState
  <2>2. ServiceState(c) = "open" /\ msg[c] = NoMessage
    BY <1>1 DEF Receive, ServiceState, FInv, Faithful
  <2> QED
    BY <1>1, <2>1, <2>2 DEF Service!Ask, Receive
<1>2. ASSUME NEW c \in Conns, Discard(c) \/ GiveUp(c) PROVE Service!Close(c)
  <2>1. ServiceState(c)' = "closed" /\ ServiceState(c) \in {"open", "registered"}
    BY <1>2, <1>t DEF Discard, GiveUp, Goto, ServiceState
  <2>2. States' = [States EXCEPT ![c] = "closed"]
    BY <1>2, <1>t, <2>1, OthersStay DEF Discard, GiveUp, Goto, Others
  <2> QED
    BY <1>2, <2>1, <2>2 DEF Service!Close, States, Discard, GiveUp
<1>3. ASSUME NEW c \in Conns, Answer(c) PROVE Service!Succeed(c) \/ Service!Refuse(c)
  <2>1. States' = [States EXCEPT ![c] = answer[c]]
    <3>1. ServiceState(c)' = answer[c]
      BY <1>3, <1>t DEF Answer, Goto, ServiceState
    <3> QED
      BY <1>3, <1>t, <3>1, OthersStay DEF Answer, Goto, Others
  <2>2. pc[c] = "responding" /\ msg[c] # NoMessage
    BY <1>3, <1>t, <1>m DEF Answer
  <2>3. CASE answer[c] = "success"
    <3>1. IF msg[c].type = "DEPLOY" THEN ServiceState(c) = "registered"
          ELSE ServiceState(c) = "open" /\ msg[c].work = "done"
      BY <2>2, <2>3 DEF ServiceState, FInv, Faithful
    <3> QED
      BY <1>3, <2>1, <2>2, <2>3, <3>1 DEF Service!Succeed, Service!Asked, States, Answer
  <2>4. CASE answer[c] = "failure"
    <3>1. ServiceState(c) = "open" /\ (msg[c].work # "done" \/ ~serial)
      BY <2>2, <2>4 DEF ServiceState, FInv, Faithful
    <3> QED
      BY <1>3, <2>1, <2>2, <2>4, <3>1 DEF Service!Refuse, Service!Asked, States, Answer
  <2> QED
    BY <2>2, <2>3, <2>4, <1>t
<1>4. ASSUME NEW c \in Conns, StoreAndUnlock(c) PROVE Service!Register(c)
  <2>1. ServiceState(c)' = "registered" /\ ServiceState(c) = "open"
    BY <1>4, <1>t DEF StoreAndUnlock, Respond, Goto, ServiceState, FInv, Faithful, Deploying
  <2>2. States' = [States EXCEPT ![c] = "registered"]
    BY <1>4, <1>t, <2>1, OthersStay DEF StoreAndUnlock, Respond, Goto, Others
  <2>3. /\ msg[c] # NoMessage /\ msg[c].type = "DEPLOY" /\ msg[c].work = "done"
        /\ built[c] \in {msg[c].artifact} \cup (IF ~serial THEN {Garbled} ELSE {})
    BY <1>4, <1>t, <1>m DEF StoreAndUnlock, FInv, Faithful, Deploying
  <2> QED
    BY <1>4, <2>1, <2>2, <2>3 DEF Service!Register, Service!Asked, States, StoreAndUnlock
<1>5. ASSUME FatalError PROVE Service!Collapse
  <2>1. ~serial
    BY <1>5, NoMapRace DEF FatalError, FInv
  <2>2. \A d \in Conns :
          ServiceState(d)' = IF ServiceState(d) \in {"success", "failure"} THEN ServiceState(d)
                             ELSE "closed"
    BY <1>5, <1>t DEF FatalError, ServiceState
  <2> QED
    BY <1>5, <2>1, <2>2 DEF Service!Collapse, FatalError
<1>6. ASSUME NEW c \in Conns, Work(c) PROVE UNCHANGED Service!svars
  <2>1. \A d \in Conns : ServiceState(d)' = ServiceState(d)
    BY <1>6, <1>t DEF Work, Respond, Goto, ServiceState, FInv, Faithful
  <2> QED
    BY <1>6, <2>1, UnseenStep DEF Work
<1>7. ASSUME NEW c \in Conns, BeginFill(c) \/ EndFill(c) \/ Lock(c) PROVE UNCHANGED Service!svars
  <2>1. \A d \in Conns : ServiceState(d)' = ServiceState(d)
    BY <1>7, <1>t DEF BeginFill, EndFill, Lock, Goto, ServiceState
  <2> QED
    BY <1>7, <2>1, UnseenStep DEF BeginFill, EndFill, Lock
<1>8. ASSUME NEW c \in Conns, EndParse(c) \/ EndBuild(c) PROVE UNCHANGED Service!svars
  <2>1. \A d \in Conns : ServiceState(d)' = ServiceState(d)
    BY <1>8, <1>t DEF EndParse, EndBuild, AfterBuild, Respond, Goto, ServiceState
  <2> QED
    BY <1>8, <2>1, UnseenStep DEF EndParse, EndBuild
<1>9. ASSUME UNCHANGED rvars PROVE UNCHANGED Service!svars
  BY <1>9, UnseenStep DEF rvars, ServiceState
<1> QED
  BY <1>1, <1>2, <1>3, <1>4, <1>5, <1>6, <1>7, <1>8, <1>9 DEF Next, Handle, Service!Next

\* The goroutines implement an atomic registry of contracts, whatever their number and
\* whatever interleaving of their builds, locks and answers.
THEOREM ServerImplementsService == Spec => ServiceImplemented
<1>1. Spec => []FInv
  BY FInvInit, FInvNext, PTL DEF Spec
<1> QED
  BY <1>1, InitRefines, NextRefines, PTL DEF Spec, ServiceImplemented, Service!Spec
=============================================================================
