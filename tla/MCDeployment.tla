---------------------------- MODULE MCDeployment ----------------------------
(***************************************************************************)
(* Small programs for Deployment: contracts in one file, of every sequence *)
(* of up to four declarations, and contracts spread over three files, of   *)
(* every shape of imports.                                                 *)
(***************************************************************************)
EXTENDS Deployment

Import(f) == [kind |-> "import", file |-> f]
Agent(name, version) ==
  [kind |-> "agent", name |-> name, version |-> version, complete |-> TRUE, readable |-> TRUE]
Declaration(kind, name, fields) ==
  [kind |-> kind, name |-> name, fields |-> fields, empty |-> FALSE]
Fn(slots) == [kind |-> "fn", name |-> "f", slots |-> slots]

Plain(kind, name) == Declaration(kind, name, NoFields)
WithHash(kind, name) == Declaration(kind, name, [NoFields EXCEPT !.hash = <<"0x00">>])
Named(kind, name, field) == Declaration(kind, name, [NoFields EXCEPT !.name = field])
Impostor == Declaration("let", "q", [name |-> "A", version |-> "1", hash |-> <<"0x00">>])

UpTo(n, S) == UNION {[1..k -> S] : k \in 0..n}

OneFile ==
  {[f \in {"main"} |-> body] :
     body \in UpTo(4, {Agent("A", "1"), Agent("B", "1"), Agent("A", "2"), Plain("policy", "P"),
                       WithHash("type", "T"), Named("policy", "Q", "A"), Impostor,
                       Plain("let", "x"), Fn(2)})}

\* Imports of main and of two modules, one of which may be missing or import the other back.
Contents == {Plain("policy", "P"), Plain("type", "T"), Plain("let", "x"), Agent("B", "1"), Fn(1)}
ThreeFiles ==
  {[f \in {"main", "m", "n"} |->
      CASE f = "main" -> main \o <<Agent("A", "1"), Plain("policy", "P")>>
        [] f = "m" -> m \o <<inM>>
        [] f = "n" -> n \o <<inN>>] :
     main \in UpTo(2, {Import("m"), Import("n")}), m \in UpTo(1, {Import("n"), Import("gone")}),
     n \in UpTo(1, {Import("m")}), inM \in Contents, inN \in Contents}

\* Declarations the analyzer or the compiler refuses, in the contract or in a module.
Faulty ==
  {[f \in {"main", "m"} |-> IF f = "main" THEN <<Import("m")>> \o main ELSE m] :
     main \in UpTo(2, {Agent("A", "1"), [Agent("A", "1") EXCEPT !.complete = FALSE],
                       [Agent("B", "1") EXCEPT !.readable = FALSE],
                       [Plain("policy", "P") EXCEPT !.empty = TRUE]}),
     m \in UpTo(1, {[Agent("B", "1") EXCEPT !.complete = FALSE],
                    [Plain("policy", "P") EXCEPT !.empty = TRUE]})}

MCPrograms == OneFile \cup ThreeFiles \cup Faulty
=============================================================================
