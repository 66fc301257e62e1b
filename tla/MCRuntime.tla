------------------------------ MODULE MCRuntime ------------------------------
(***************************************************************************)
(* Small instances of Runtime: three connections, every kind of request.   *)
(***************************************************************************)
EXTENDS Runtime

Deploy(hash, work, parses, encodes) ==
  [type |-> "DEPLOY", hash |-> hash, work |-> work, parses |-> parses,
   encodes |-> encodes, artifact |-> <<hash, work, parses>>]
Request(type, work, encodes) ==
  [type |-> type, hash |-> "h", work |-> work, parses |-> 0, encodes |-> encodes,
   artifact |-> <<>>]

\* A panic takes the path of a refusal, a PING that of an EXEC.
MCMessages ==
  {Deploy("h", "done", 1, TRUE), Deploy("h", "done", 2, FALSE),
   Deploy("k", "refused", 1, TRUE), Deploy("h", "endless", 1, TRUE),
   Request("EXEC", "done", FALSE), Request("EXEC", "panics", TRUE)}
=============================================================================
