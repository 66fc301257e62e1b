------------------------------ MODULE MCParser ------------------------------
(***************************************************************************)
(* Inputs of Parser, by the part of the grammar they explore: every token  *)
(* list of up to most tokens of a set, between a fixed beginning and end.  *)
(***************************************************************************)
EXTENDS Parser

Between(given, tokens, most, after) ==
  [given |-> given, tokens |-> tokens, most |-> most, after |-> after]
Anything(tokens, most) == Between(<<>>, tokens, most, <<>>)

\* Every level of binding power, with a prefix operator and groups.
Grouping == Anything({"id", "+", "*", "&&", "<", "=", "++", "-", "(", ")"}, 6)
Brackets == Anything({"id", "(", ")", "[", "]", "{", "}", ",", ":", ".", "-"}, 6)
Builtins == Anything({"hash", "nonce", "getEnv", "Error", "this", "text", "(", ")", ","}, 6)

Branches ==
  Between(<<"if", "(", "id">>, {"id", "if", "else", "return", "let", "=", "(", ")", "{", "}"}, 8,
          <<>>)
Loops ==
  Between(<<"for", "(">>, {"id", "let", "=", ";", "while", "(", ")", "{", "}"}, 9, <<"}">>)
Functions ==
  Between(<<"fn">>, {"id", "(", ")", ":", ",", "[", "]", "{", "}", "return"}, 9, <<>>)
Handlers ==
  Between(<<"try", "{">>, {"catch", "emit", "require", "id", "(", ")", ",", ";", "{", "}"}, 8, <<>>)
Declarations ==
  Anything({"import", "library", "contract", "fn", "const", "id", "=", "text", "{", "}"}, 6)
Records ==
  Anything({"policy", "type", "id", "name", ":", "number", "{", "}", "["}, 6)
Agents ==
  Between(<<"agent", "id", "{">>,
          {"version", "provider", "onDeny", "type", "model", "behavior", "trigger", "tool",
           "skills", ":", "text", "{", "}"}, 6, <<"}">>)
Skills ==
  Between(<<"skills", "[">>, {"name", "content", "uses", ":", "text", "[", "]", "{", "}", ","}, 6,
          <<"]">>)
Tools ==
  Between(<<"tool", "id", "{">>, {"description", "steps", ":", "text", "[", "]", "{", "}", ","}, 6,
          <<"}">>)
Steps ==
  Between(<<"tool", "id", "{", "steps", ":", "[", "{">>,
          {"function", "input", ":", "id", ".", "{", "}", ","}, 8, <<"}", "]", "}">>)

StepsOfTool == <<"tool", "id", "{", "steps", ":", "[", "{", "action", ":", "{">>
ToolEnds == <<"}", "}", "]", "}">>
Http ==
  Between(StepsOfTool, {"type", "method", "url", ":", "'http'", "text", "id", ","}, 9, ToolEnds)
Shell ==
  Between(StepsOfTool \o <<"type", ":", "'shell'">>,
          {"command", "args", "agent", ":", "text", "[", "]", "(", ")"}, 7,
          ToolEnds)
Others ==
  Between(StepsOfTool,
          {"type", "operation", "path", "agent", ":", "id", "'filesystem'", "'skill'"}, 9, ToolEnds)

MCInputs ==
  {Grouping, Brackets, Builtins, Branches, Loops, Functions, Handlers, Declarations, Records,
   Agents, Skills, Tools, Steps, Http, Shell, Others}
=============================================================================
