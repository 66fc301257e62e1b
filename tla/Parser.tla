------------------------------- MODULE Parser -------------------------------
(***************************************************************************)
(* The parser of contracts: a Pratt parser for expressions under           *)
(* recursive-descent handlers for statements and declarations.  The        *)
(* recursion of the Go handlers is a stack of what is left to do (todo),   *)
(* and each handler is a production: the sequence of things it does.  The  *)
(* token list is chosen as it is read, one lookahead at a time, from an    *)
(* input: a fixed beginning, up to most tokens of a set, a fixed end.      *)
(* A token stands for itself; "id" is an identifier, "number" and "text"   *)
(* literals.  An identifier or a string whose literal the parser tests is  *)
(* written as that literal ("version", "'http'").                          *)
(***************************************************************************)
EXTENDS Integers, Sequences, FiniteSets, SequencesExt

CONSTANT Inputs   \* records [given, tokens, most, after]

VARIABLES
  input,    \* the input being read
  rest,     \* its tokens already fixed and not yet reached
  token,    \* the current token; "none" past the end
  read,     \* the tokens consumed
  todo,     \* what the handlers under way have left to do, innermost first
  tree,     \* the nodes under construction, innermost last
  status    \* "parsing", "parsed" or "panicked"

vars == <<input, rest, token, read, todo, tree, status>>

-----------------------------------------------------------------------------
(* Tokens.                                                                 *)

Keywords ==
  {"library", "import", "contract", "agent", "model", "behavior", "skills", "trigger",
   "tool", "policy", "type", "emit", "require", "hash", "getEnv", "nonce", "let", "const",
   "fn", "if", "else", "foreach", "while", "for", "try", "Error", "catch", "return", "this",
   "null", "true", "false"}

\* Identifiers whose literal a handler looks at.
FieldNames ==
  {"version", "owner", "purpose", "description", "steps", "function", "input", "action",
   "provider", "name", "temperature", "maxTokens", "systemPrompt", "maxSteps", "onDeny",
   "onError", "onFinish", "content", "uses", "method", "url", "headers", "body",
   "operation", "path", "command", "args"}

Identifiers == {"id"} \cup FieldNames

\* What expectIdentifierOrKeyword takes: the keywords that IsKeyword knows begin at CONTRACT
\* (lexer/token.go:92), after LIBRARY and IMPORT.
Names == Identifiers \cup (Keywords \ {"library", "import"})

ActionKinds == {"'http'", "'filesystem'", "'shell'", "'dispatch'", "'skill'"}
Texts == {"text"} \cup ActionKinds

Punctuation ==
  {"(", ")", "[", "]", "{", "}", ",", ":", ";", ".", "..", "=", "+=", "-=", "++", "--",
   "??=", "?", "&&", "||", "<", "<=", ">", ">=", "==", "!=", "!", "+", "-", "*", "/", "%"}

Tokens == Identifiers \cup Keywords \cup Texts \cup Punctuation \cup {"number", "hex", "EOF"}

ASSUME InputsAssumption ==
  Inputs \subseteq [given : Seq(Tokens), tokens : SUBSET Tokens, most : Nat, after : Seq(Tokens)]

-----------------------------------------------------------------------------
(* Binding powers, loosest first.                                          *)

defalt_bp == 0
assignment == 2
logical == 3
relational == 4
additive == 5
multiplicative == 6
call == 8

Levels ==
  << <<assignment, {"=", "+=", "-=", "++"}>>,
     <<logical, {"&&", "||", ".."}>>,
     <<relational, {"<", "<=", ">", ">=", "==", "!="}>>,
     <<additive, {"+", "-"}>>,
     <<multiplicative, {"*", "/", "%"}>>,
     <<call, {"[", "(", "."}>> >>

\* A token with no entry in the table has the power zero.
bp_lu(t) ==
  IF \E i \in DOMAIN Levels : t \in Levels[i][2]
  THEN LET i == CHOOSE i \in DOMAIN Levels : t \in Levels[i][2] IN Levels[i][1]
  ELSE defalt_bp

Led == UNION {Levels[i][2] : i \in DOMAIN Levels}
Binary == UNION {Levels[i][2] : i \in 2..5}

-----------------------------------------------------------------------------
(* What a handler can do.                                                  *)

\* Consume a token of the set, or panic; a leaf of the tree if kept.
Accept(set) == [do |-> "expect", any |-> set, keep |-> FALSE]
Keep(set) == [do |-> "expect", any |-> set, keep |-> TRUE]
Expect(t) == Accept({t})
Name == Accept(Names)
AnyToken == Accept(Tokens)

\* Call parse_expr, parse_stmt, parse_type; go on with the operators that follow.
Expr(bp) == [do |-> "expr", bp |-> bp]
Operators(bp) == [do |-> "operators", bp |-> bp]
Stmt == [do |-> "stmt"]
Type == [do |-> "type"]

\* Repeat a production until the closing token; statements while there are tokens.
Until(close, body) == [do |-> "until", close |-> close, body |-> body]
Statements(close) == [do |-> "statements", close |-> close]

\* A production only if the current token begins it.
IfNext(t, body) == [do |-> "if", next |-> t, body |-> body]
OptionalComma == IfNext(",", "comma")

\* A field of a declaration: its name, a colon and what the switch on the name does.
Field(switch) == [do |-> "field", switch |-> switch]
AgentItem == [do |-> "agent_item"]
ElseBranch == [do |-> "else"]
ReturnValue == [do |-> "return_value"]
Unknown == [do |-> "panic"]

\* Begin a node of the tree, and end it.
Node(op) == [do |-> "node", op |-> op]
Done == [do |-> "done"]

Switches == {"agent", "model", "behavior", "skill", "tool", "step"}
Repeated ==
  {"argument", "property", "parameter", "rule", "any_field", "input", "agent_item",
   "model_field", "behavior_field", "skill", "skill_field", "tool_field", "step",
   "step_field", "action_field"}
Optionals == {"comma", "comma_expr", "hash_data", "annotation", "catch", "member_ref"}
NodeOps == {"getEnv", "nonce", "hash", "Error", "prefix", "group", "array", "object", "block",
            "action"}

Items ==
  [do : {"expect"}, any : SUBSET Tokens, keep : BOOLEAN]
    \cup [do : {"expr", "operators"}, bp : Nat]
    \cup [do : {"until"}, close : Tokens, body : Repeated]
    \cup [do : {"statements"}, close : Tokens]
    \cup [do : {"if"}, next : Tokens, body : Optionals]
    \cup [do : {"field"}, switch : Switches]
    \cup [do : {"action_value"}, field : Names]
    \cup [do : {"node"}, op : NodeOps]
    \cup [do : {"stmt", "type", "agent_item", "else", "else_body", "return_value", "panic", "done",
               "action_field", "build_tool_action"}]

-----------------------------------------------------------------------------
(* Expressions.                                                            *)

parse_primary_expr == <<Keep({"number", "hex", "id"} \cup Texts \cup FieldNames)>>
parse_literal == <<Keep({"null", "this", "true", "false"})>>
parse_get_env_expr == <<Node("getEnv"), Expect("getEnv"), Expect("("), Expr(defalt_bp), Expect(")"), Done>>
parse_nonce_expr == <<Node("nonce"), Expect("nonce"), Expect("("), Expr(defalt_bp), Expect(")"), Done>>

parse_hash_expr ==
  <<Node("hash"), Expect("hash"), Expect("("), Expr(defalt_bp), IfNext(",", "hash_data"),
    Expect(")"), Done>>

parse_error_expr ==
  <<Node("Error"), Expect("Error"), Expect("("), Expr(defalt_bp), Expect(","),
    Expr(defalt_bp), Expect(")"), Done>>

\* The operand of a prefix operator is parsed with the lowest power.
parse_prefix_expr == <<Node("prefix"), Accept({"-", "!"}), Expr(defalt_bp), Done>>

\* A fault in grouping_expr: whatever follows closes the group.
grouping_advances == <<Node("group"), Expect("("), Expr(defalt_bp), AnyToken, Done>>

\* The group node is the model's: the code returns the inner expression.
grouping_expr == <<Node("group"), Expect("("), Expr(defalt_bp), Expect(")"), Done>>

parse_literal_array_expr ==
  <<Node("array"), Expect("["), Until("]", "argument"), Expect("]"), Done>>

parse_obj_assignment_expr ==
  <<Node("object"), Expect("{"), Until("}", "property"), Expect("}"), Done>>

parse_obj_item_assignment_expr ==
  <<Accept(Texts \cup Names), Expect(":"), Expr(defalt_bp), OptionalComma>>

\* A fault in argument: only its comma is read.
argument_unread == <<OptionalComma>>

\* A fault in argument: the comma is required.
argument_with_comma == <<Expr(defalt_bp), Expect(",")>>

\* An argument of a call, an item of an array or a use of a skill.
argument == <<Expr(defalt_bp), OptionalComma>>

nud_lu(t) ==
  CASE t \in {"number", "hex"} \cup Identifiers \cup Texts -> parse_primary_expr
    [] t \in {"null", "this", "true", "false"} -> parse_literal
    [] t \in {"-", "!"} -> parse_prefix_expr
    [] t = "(" -> grouping_expr
    [] t = "[" -> parse_literal_array_expr
    [] t = "{" -> parse_obj_assignment_expr
    [] t = "getEnv" -> parse_get_env_expr
    [] t = "nonce" -> parse_nonce_expr
    [] t = "hash" -> parse_hash_expr
    [] t = "Error" -> parse_error_expr
    [] OTHER -> <<Unknown>>

\* A fault in parse_binary_expr: operators of one level group to the right.
parse_binary_right(op) == <<Expect(op), Expr(bp_lu(op) - 1)>>

parse_binary_expr(op) == <<Expect(op), Expr(bp_lu(op))>>
parse_assignment(op) == <<Expect(op), Expr(assignment)>>
parse_incdec_expr == <<Expect("++")>>
parse_array_access_item_expr == <<Expect("["), Expr(defalt_bp), Expect("]")>>
parse_call_expr == <<Expect("("), Until(")", "argument"), Expect(")")>>
\* A fault in parse_member_expr: the property is taken without a look.
parse_member_any == <<Expect("."), AnyToken>>

parse_member_expr == <<Expect("."), Name>>

led_lu(t) ==
  CASE t \in {"=", "+=", "-="} -> parse_assignment(t)
    [] t = "++" -> parse_incdec_expr
    [] t = "[" -> parse_array_access_item_expr
    [] t = "(" -> parse_call_expr
    [] t = "." -> parse_member_expr
    [] OTHER -> parse_binary_expr(t)

-----------------------------------------------------------------------------
(* Statements.                                                             *)

\* A fault in parse_block: the node is never handed back.
parse_block_unfinished == <<Node("block"), Expect("{"), Statements("}"), Expect("}")>>

parse_block == <<Node("block"), Expect("{"), Statements("}"), Expect("}"), Done>>

\* The token after the imported name, meant for "from", may be any.
parse_import_stmt == <<Expect("import"), Accept(Identifiers), AnyToken, Accept(Texts)>>
parse_library_stmt == <<Expect("library"), Accept(Identifiers)>> \o parse_block
parse_contract_decl == <<Expect("contract"), AnyToken>> \o parse_block

parse_var_decl ==
  <<Accept({"let", "const"}), Accept(Identifiers), IfNext(":", "annotation"), Expect("="),
    Expr(assignment)>>

parse_if_stmt ==
  <<Expect("if"), Expect("("), Expr(defalt_bp), Expect(")")>> \o parse_block \o <<ElseBranch>>

parse_while_loop_stmt ==
  <<Expect("while"), Expect("("), Expr(defalt_bp), Expect(")")>> \o parse_block

parse_for_loop_stmt ==
  <<Expect("for"), Expect("("), Stmt, Expect(";"), Expr(defalt_bp), Expect(";"), Stmt,
    Expect(")")>> \o parse_block

parse_arguments == <<Expect("("), Until(")", "parameter"), Expect(")")>>
parameter == <<Expr(defalt_bp), Expect(":"), Expr(defalt_bp), OptionalComma>>

parse_func_stmt ==
  <<Expect("fn"), AnyToken>> \o parse_arguments \o <<Expect(":"), Type>> \o parse_block

parse_return_stmt == <<Expect("return"), ReturnValue>>

parse_require_stmt ==
  <<Expect("require"), Expect("("), Expr(defalt_bp), Expect(";"), Expr(defalt_bp), Expect(")")>>

parse_emit_stmt ==
  <<Expect("emit"), Expect("("), Expr(defalt_bp), IfNext(",", "comma_expr"), Expect(")")>>

parse_try_stmt == <<Expect("try")>> \o parse_block \o <<IfNext("catch", "catch")>>
parse_catch == <<Expect("catch"), Expect("("), Name, Expect(")")>> \o parse_block

-----------------------------------------------------------------------------
(* Declarations.                                                           *)

parse_agent_stmt ==
  <<Expect("agent"), Expr(defalt_bp), Expect("{"), Until("}", "agent_item"), Expect("}")>>
parse_trigger_stmt == <<Expect("trigger"), Expect("{"), Until("}", "any_field"), Expect("}")>>
parse_policy_stmt ==
  <<Expect("policy"), Expr(defalt_bp), Expect("{"), Until("}", "rule"), Expect("}")>>
parse_type_stmt ==
  <<Expect("type"), Expr(defalt_bp), Expect("{"), Until("}", "any_field"), Expect("}")>>
parse_model_stmt == <<Expect("model"), Expect("{"), Until("}", "model_field"), Expect("}")>>
parse_behavior_stmt ==
  <<Expect("behavior"), Expect("{"), Until("}", "behavior_field"), Expect("}")>>
parse_skills_stmt == <<Expect("skills"), Expect("["), Until("]", "skill"), Expect("]")>>
parse_skill == <<Expect("{"), Until("}", "skill_field"), Expect("}"), OptionalComma>>
parse_skill_uses == <<Expect("["), Until("]", "argument"), Expect("]")>>
parse_tool_stmt ==
  <<Expect("tool"), Expr(defalt_bp), Expect("{"), Until("}", "tool_field"), Expect("}")>>
parse_tool_steps == <<Expect("["), Until("]", "step"), Expect("]")>>
parse_tool_step == <<Expect("{"), Until("}", "step_field"), Expect("}"), OptionalComma>>
parse_tool_step_input == <<Expect("{"), Until("}", "input"), Expect("}")>>
parse_member_ref == <<Accept(Identifiers), IfNext(".", "member_ref")>>

parse_tool_action ==
  <<Node("action"), Expect("{"), Until("}", "action_field"), Expect("}"),
    [do |-> "build_tool_action"], Done>>

\* A string is kept as it is; anything else is an expression, which the field
\* "type" must not be.
action_value(field) ==
  IF token \in Texts THEN <<Keep(Texts), Done, OptionalComma>>
  ELSE <<Expr(defalt_bp)>> \o (IF field = "type" THEN <<Unknown>> ELSE <<Done, OptionalComma>>)

\* The switch on a field's name, by declaration.
switch(declaration, field) ==
  CASE declaration = "agent" /\ field \in {"version", "owner", "purpose"} -> <<Expr(defalt_bp)>>
    [] declaration = "model" /\ field \in {"provider", "name", "temperature", "maxTokens"} ->
         <<Expr(defalt_bp)>>
    [] declaration = "behavior"
       /\ field \in {"systemPrompt", "maxSteps", "onDeny", "onError", "onFinish"} ->
         <<Expr(defalt_bp)>>
    [] declaration = "skill" /\ field \in {"name", "content"} -> <<Expr(defalt_bp)>>
    [] declaration = "skill" /\ field = "uses" -> parse_skill_uses
    [] declaration = "tool" /\ field = "description" -> <<Expr(defalt_bp)>>
    [] declaration = "tool" /\ field = "steps" -> parse_tool_steps
    [] declaration = "step" /\ field = "function" -> parse_member_ref
    [] declaration = "step" /\ field = "input" -> parse_tool_step_input
    [] declaration = "step" /\ field = "action" -> parse_tool_action
    [] OTHER -> <<Unknown>>

\* The productions that are repeated or optional, by name.
Production(name) ==
  CASE name = "argument" -> argument
    [] name = "property" -> parse_obj_item_assignment_expr
    [] name = "parameter" -> parameter
    [] name = "comma" -> <<Expect(",")>>
    [] name = "comma_expr" -> <<Expect(","), Expr(defalt_bp)>>
    [] name = "hash_data" -> <<Expect(","), Expr(defalt_bp), IfNext(",", "hash_data")>>
    [] name = "annotation" -> <<Expect(":"), Type>>
    [] name = "catch" -> parse_catch
    [] name = "member_ref" -> <<Expect("."), Accept(Identifiers), IfNext(".", "member_ref")>>
    [] name = "rule" -> <<Accept(Identifiers), Expect(":"), Expr(defalt_bp)>>
    [] name = "any_field" -> <<Name, Expect(":"), Expr(defalt_bp)>>
    [] name = "input" -> <<Name, Expect(":"), Expr(defalt_bp), OptionalComma>>
    [] name = "agent_item" -> <<AgentItem>>
    [] name = "model_field" -> <<Field("model")>>
    [] name = "behavior_field" -> <<Field("behavior")>>
    [] name = "skill" -> parse_skill
    [] name = "skill_field" -> <<Field("skill")>>
    [] name = "tool_field" -> <<Field("tool")>>
    [] name = "step" -> parse_tool_step
    [] name = "step_field" -> <<Field("step"), OptionalComma>>
    [] name = "action_field" -> <<[do |-> "action_field"]>>

stmt_lu(t) ==
  CASE t = "import" -> parse_import_stmt
    [] t = "library" -> parse_library_stmt
    [] t = "contract" -> parse_contract_decl
    [] t \in {"let", "const"} -> parse_var_decl
    [] t = "if" -> parse_if_stmt
    [] t = "while" -> parse_while_loop_stmt
    [] t = "for" -> parse_for_loop_stmt
    [] t = "fn" -> parse_func_stmt
    [] t = "return" -> parse_return_stmt
    [] t = "require" -> parse_require_stmt
    [] t = "agent" -> parse_agent_stmt
    [] t = "policy" -> parse_policy_stmt
    [] t = "type" -> parse_type_stmt
    [] t = "emit" -> parse_emit_stmt
    [] t = "try" -> parse_try_stmt
    [] t = "tool" -> parse_tool_stmt
    [] t = "model" -> parse_model_stmt
    [] t = "behavior" -> parse_behavior_stmt
    [] t = "skills" -> parse_skills_stmt
    [] OTHER -> <<Expr(defalt_bp)>>

-----------------------------------------------------------------------------
(* The tree, a stack of nodes under construction.                          *)

\* The node the code would have in place of a group: of no more groups than tokens.
Plain(n) ==
  LET inner[i \in 0..Len(read)] ==
        IF i = 0 THEN n
        ELSE LET outer == inner[i - 1] IN IF outer.op = "group" THEN outer.of[1] ELSE outer
  IN  inner[Len(read)]

Open(op, children) == [op |-> op, of |-> children]
Leaf(t) == Open(t, <<>>)

WithChild(nodes, n) == [nodes EXCEPT ![Len(nodes)].of = Append(@, n)]

\* The node just finished becomes a child of the one around it.
Closed == WithChild(Front(tree), Last(tree))

\* The operand just parsed becomes the first child of an operator's node.
Wrapped(op) ==
  LET around == Last(tree) IN
  Append([tree EXCEPT ![Len(tree)].of = Front(@)], Open(op, <<Last(around.of)>>))

\* The value a field of the action has: the last one given, as in a Go map.
Values(f) == SelectSeq(Last(tree).of, LAMBDA n : n.op = f)
IsText(f) == Values(f) # <<>> /\ Last(Values(f)).of[1].op \in Texts
IsExpr(f) == Values(f) # <<>> /\ ~IsText(f)
IsArray(f) == IsExpr(f) /\ Plain(Last(Values(f)).of[1]).op = "array"

build_tool_action ==
  /\ IsText("type")
  /\ LET kind == Last(Values("type")).of[1].op IN
     CASE kind = "'http'" -> IsText("method") /\ IsExpr("url")
       [] kind = "'filesystem'" -> IsText("operation") /\ IsExpr("path")
       [] kind = "'shell'" -> IsText("command") /\ IsArray("args")
       [] kind \in {"'dispatch'", "'skill'"} -> Values("agent") # <<>>
       [] OTHER -> FALSE

-----------------------------------------------------------------------------
(* Reading.                                                                *)

Delivered == Len(read) + 1
Ending(i) == Append(i.after, "EOF")

\* Whichever token may come next.
NextToken ==
  \/ /\ rest # <<>>
     /\ token' = Head(rest) /\ rest' = Tail(rest)
  \/ /\ rest = <<>>
     /\ \/ /\ Delivered < Len(input.given) + input.most
           /\ token' \in input.tokens
           /\ UNCHANGED rest
        \/ token' = Head(Ending(input)) /\ rest' = Tail(Ending(input))

\* A token taken whatever it is counts as the identifier it is used as.
advance(as) ==
  /\ read' = Append(read, as)
  /\ IF token = "EOF" THEN token' = "none" /\ UNCHANGED rest ELSE NextToken

-----------------------------------------------------------------------------
(* Steps.                                                                  *)

Init ==
  /\ input \in Inputs
  /\ LET first == input.given \o (IF input.most = 0 THEN Ending(input) ELSE <<>>) IN
     IF first # <<>> THEN token = Head(first) /\ rest = Tail(first)
     ELSE \/ token \in input.tokens /\ rest = <<>>
          \/ token = Head(Ending(input)) /\ rest = Tail(Ending(input))
  /\ read = <<>>
  /\ todo = <<Statements("EOF")>>
  /\ tree = <<Open("program", <<>>)>>
  /\ status = "parsing"

Does(step) == status = "parsing" /\ token # "none" /\ Head(todo).do = step
Do(items) == todo' = items \o Tail(todo)
Parsing == UNCHANGED <<input, status>>
Looking == UNCHANGED <<input, status, rest, token, read>>

expect ==
  /\ Does("expect") /\ token \in Head(todo).any
  /\ Do(<<>>)
  /\ advance(IF Head(todo).any = Tokens THEN "id" ELSE token)
  /\ tree' = IF Head(todo).keep THEN WithChild(tree, Leaf(token)) ELSE tree
  /\ Parsing

BeginNode ==
  /\ Does("node") /\ Do(<<>>)
  /\ tree' = Append(tree, Open(Head(todo).op, <<>>))
  /\ Looking

EndNode ==
  /\ Does("done") /\ Do(<<>>)
  /\ tree' = Closed
  /\ Looking

parse_expr ==
  /\ Does("expr")
  /\ Do(nud_lu(token) \o <<Operators(Head(todo).bp)>>)
  /\ UNCHANGED tree /\ Looking

\* An operator that binds tighter than bp takes what was parsed as its left operand.
ApplyOperator ==
  /\ Does("operators") /\ bp_lu(token) > Head(todo).bp
  /\ Do(led_lu(token) \o <<Done, Head(todo)>>)
  /\ tree' = Wrapped(token)
  /\ Looking

EndExpression ==
  /\ Does("operators") /\ bp_lu(token) <= Head(todo).bp
  /\ Do(<<>>)
  /\ UNCHANGED tree /\ Looking

parse_stmt ==
  /\ Does("stmt")
  /\ Do(stmt_lu(token) \o <<Done>>)
  /\ tree' = Append(tree, Open("statement", <<>>))
  /\ Looking

parse_type ==
  /\ Does("type")
  /\ Do(CASE token \in Identifiers -> <<Accept(Identifiers)>>
          [] token = "[" -> <<Expect("["), Expect("]"), Type>>
          [] OTHER -> <<Unknown>>)
  /\ UNCHANGED tree /\ Looking

NextStatement ==
  /\ Does("statements") /\ token \notin {"EOF", Head(todo).close}
  /\ Do(<<Stmt, Head(todo)>>)
  /\ UNCHANGED tree /\ Looking

EndStatements ==
  /\ Does("statements") /\ token \in {"EOF", Head(todo).close}
  /\ Len(todo) > 1
  /\ Do(<<>>)
  /\ UNCHANGED tree /\ Looking

Repeat ==
  /\ Does("until") /\ token # Head(todo).close
  /\ Do(Production(Head(todo).body) \o <<Head(todo)>>)
  /\ UNCHANGED tree /\ Looking

EndRepeat ==
  /\ Does("until") /\ token = Head(todo).close
  /\ Do(<<>>)
  /\ UNCHANGED tree /\ Looking

Optional ==
  /\ Does("if")
  /\ Do(IF token = Head(todo).next THEN Production(Head(todo).body) ELSE <<>>)
  /\ UNCHANGED tree /\ Looking

ParseElse ==
  /\ Does("else")
  /\ IF token # "else" THEN Do(<<>>) /\ UNCHANGED <<rest, token, read>>
     ELSE Do(<<[do |-> "else_body"]>>) /\ advance(token)
  /\ UNCHANGED tree /\ Parsing

ParseElseBody ==
  /\ Does("else_body")
  /\ Do(IF token = "if" THEN parse_if_stmt ELSE parse_block)
  /\ UNCHANGED tree /\ Looking

\* A return has no value only at the end of its block or of the file.
ParseReturnValue ==
  /\ Does("return_value")
  /\ Do(IF token \in {"}", "EOF"} THEN <<>> ELSE <<Expr(defalt_bp)>>)
  /\ UNCHANGED tree /\ Looking

ParseAgentItem ==
  /\ Does("agent_item")
  /\ Do(CASE token = "model" -> parse_model_stmt
          [] token = "behavior" -> parse_behavior_stmt
          [] token = "skills" -> parse_skills_stmt
          [] token = "trigger" -> parse_trigger_stmt
          [] token = "tool" -> parse_tool_stmt
          [] OTHER -> <<Field("agent")>>)
  /\ UNCHANGED tree /\ Looking

ParseField ==
  /\ Does("field") /\ token \in Names
  /\ Do(<<Expect(":")>> \o switch(Head(todo).switch, token))
  /\ advance(token)
  /\ UNCHANGED tree /\ Parsing

ParseActionField ==
  /\ Does("action_field") /\ token \in Names
  /\ Do(<<Expect(":"), [do |-> "action_value", field |-> token]>>)
  /\ advance(token)
  /\ tree' = Append(tree, Open(token, <<>>))
  /\ Parsing

ParseActionValue ==
  /\ Does("action_value")
  /\ Do(action_value(Head(todo).field))
  /\ UNCHANGED tree /\ Looking

BuildToolAction ==
  /\ Does("build_tool_action") /\ build_tool_action
  /\ Do(<<>>)
  /\ UNCHANGED tree /\ Looking

\* The handlers' panics, and Go's when the current token is past the end.
Refused ==
  LET item == Head(todo) IN
  \/ token = "none"
  \/ item.do = "expect" /\ token \notin item.any
  \/ item.do \in {"field", "action_field"} /\ token \notin Names
  \/ item.do = "build_tool_action" /\ ~build_tool_action
  \/ item.do = "panic"

Panic ==
  /\ status = "parsing" /\ Refused
  /\ status' = "panicked"
  /\ UNCHANGED <<input, rest, token, read, todo, tree>>

Finish ==
  /\ Does("statements") /\ Len(todo) = 1 /\ token = "EOF"
  /\ status' = "parsed"
  /\ UNCHANGED <<input, rest, token, read, todo, tree>>

Next ==
  \/ expect \/ BeginNode \/ EndNode
  \/ parse_expr \/ ApplyOperator \/ EndExpression
  \/ parse_stmt \/ parse_type \/ NextStatement \/ EndStatements
  \/ Repeat \/ EndRepeat \/ Optional
  \/ ParseElse \/ ParseElseBody \/ ParseReturnValue
  \/ ParseAgentItem \/ ParseField \/ ParseActionField \/ ParseActionValue \/ BuildToolAction
  \/ Panic \/ Finish

Spec == Init /\ [][Next]_vars /\ WF_vars(Next)

-----------------------------------------------------------------------------
(* Properties.                                                             *)

\* Every variable has its type, and an accepted program is one whole tree, read
\* up to the end of the file.
TypeOK ==
  /\ input \in Inputs /\ rest \in Seq(Tokens)
  /\ token \in Tokens \cup {"none"}
  /\ read \in Seq(Tokens)
  /\ todo \in Seq(Items) /\ Len(todo) > 0
  /\ Len(tree) > 0
  /\ status \in {"parsing", "parsed", "panicked"}
  /\ status = "parsed" => Len(tree) = 1 /\ token = "EOF"

Infix(n) == n.op \in Led
TwoOperands == Binary \cup {"=", "+=", "-="}

\* The children of n: all of them, or its right or left operand.
Toward(side, n) ==
  CASE side = "below" -> Range(n.of)
    [] side = "right" -> IF n.op \in TwoOperands THEN {n.of[2]} ELSE {}
    [] side = "left" -> IF Infix(n) THEN {n.of[1]} ELSE {}

\* What is reached from the nodes of S, step by step. A finished node holds a token
\* of its own, a statement inside another the keyword of the one around it.
Reached(side, S) ==
  LET upto[i \in 0..(Len(read) + 1)] ==
        IF i = 0 THEN S
        ELSE LET above == upto[i - 1] IN above \cup UNION {Toward(side, n) : n \in above}
  IN  upto[Len(read) + 1]

AllNodes == Reached("below", Range(tree))

\* The operators of n that could still take what follows n, or what precedes it.
RightEdge(n) == {m.op : m \in Reached("right", {n})} \cap (TwoOperands \cup {"prefix"})
LeftEdge(n) == {m.op : m \in Reached("left", {n})} \cap Led

\* What is written without parentheses groups in one way only: an operator takes
\* as its left operand nothing that binds looser, as its right operand only what
\* binds tighter (so that every operator, assignment included, groups to the
\* left), and nothing continues a prefix operator, which takes all that follows.
Precedence ==
  \A n \in AllNodes : Infix(n) /\ n.of # <<>> =>
    /\ \A o \in RightEdge(n.of[1]) : o # "prefix" /\ bp_lu(o) >= bp_lu(n.op)
    /\ n.op \in TwoOperands /\ Len(n.of) = 2 =>
         \A o \in LeftEdge(n.of[2]) : bp_lu(o) > bp_lu(n.op)

\* The language of expressions, read from left to right with no tree: what may
\* come next depends on whether an operand is expected and on the brackets open.
Closer(bracket) ==
  CASE bracket \in {"group", "call"} -> ")"
    [] bracket \in {"array", "index"} -> "]"
    [] bracket = "object" -> "}"
    [] bracket = "program" -> "EOF"

Reader(at, open, statements) == [at |-> at, open |-> open, statements |-> statements]

\* After the first token of an operand, and of an item; in a program each operand
\* not preceded by an operator is a statement.
Begins(s, t) ==
  LET To(at) == Reader(at, s.open, s.statements)
      Into(bracket, at) == Reader(at, Append(s.open, bracket), s.statements)
  IN CASE t = "id" -> To("operator")
       [] t \in {"-", "!"} -> To("operand")
       [] t = "(" -> Into("group", "operand")
       [] t = "[" -> Into("array", "start")
       [] t = "{" -> Into("object", "key")
       [] OTHER -> To("dead")

BeginsItem(s, t) ==
  Begins(IF Last(s.open) = "program" THEN Reader(s.at, s.open, s.statements + 1) ELSE s, t)

Feed(s, t) ==
  LET top == Last(s.open)
      To(at) == Reader(at, s.open, s.statements)
      Into(bracket, at) == Reader(at, Append(s.open, bracket), s.statements)
      Close == IF top = "program" THEN To("end")
               ELSE Reader("operator", Front(s.open), s.statements)
      Key == To(IF t = "id" THEN "colon" ELSE "dead")
      NextItem == IF top \in {"program", "call", "array"} THEN BeginsItem(s, t)
                  ELSE IF top = "object" THEN Key ELSE To("dead")
      Continues ==
        CASE t \in TwoOperands -> To("operand")
          [] t = "++" -> To("operator")
          [] t = "(" -> Into("call", "start")
          [] t = "[" -> Into("index", "operand")
          [] t = "." -> To("name")
          [] t = "," /\ top \in {"call", "array"} -> To("start")
          [] t = "," /\ top = "object" -> To("key")
          [] OTHER -> NextItem
  IN IF s.at \in {"start", "operator", "key"} /\ t = Closer(top) THEN Close
     ELSE CASE s.at = "operand" -> Begins(s, t)
            [] s.at = "start" -> BeginsItem(s, t)
            [] s.at = "operator" -> Continues
            [] s.at = "key" -> Key
            [] s.at = "colon" -> To(IF t = ":" THEN "operand" ELSE "dead")
            [] s.at = "name" -> To(IF t = "id" THEN "operator" ELSE "dead")
            [] OTHER -> To("dead")

AtStart == Reader("start", <<"program">>, 0)

ExpressionTokens ==
  TwoOperands \cup {"id", "++", "!", "(", ")", "[", "]", "{", "}", ",", ":", "."}

OnlyExpressions ==
  input.given = <<>> /\ input.after = <<>> /\ input.tokens \subseteq ExpressionTokens

\* On expressions the parser accepts exactly that language, refuses at the first
\* token that no continuation could save, and splits the program into statements
\* only where no operator joins what is on either side: with no terminator in the
\* grammar, (, [ and - at the beginning of a line continue the line before.
AcceptsExpressions ==
  OnlyExpressions =>
    LET before == FoldLeft(Feed, AtStart, read)
        now == Feed(before, token)
    IN /\ status = "parsing" => before.at # "dead"
       /\ status = "panicked" => now.at = "dead"
       /\ status = "parsed" => now.at = "end" /\ now.statements = Len(tree[1].of)

Opening == {"(", "[", "{"}
MatchOf(t) == CASE t = ")" -> "(" [] t = "]" -> "[" [] t = "}" -> "{"

Nesting(open, t) ==
  CASE t \in Opening -> Append(open, t)
    [] t \in {")", "]", "}"} ->
         IF open # <<>> /\ Last(open) = MatchOf(t) THEN Front(open) ELSE Append(open, t)
    [] OTHER -> open

\* The brackets of an accepted program are nested: no handler leaves a bracket
\* open, or closes one of another kind, whatever it contains.
BracketsNested == status = "parsed" => FoldLeft(Nesting, <<>>, read) = <<>>

\* The end of the file is consumed only where the parser takes a token as a name
\* without looking at it: after contract, fn and the name of an import.
EndConsumedAsName ==
  token = "none" =>
    /\ Len(read) > 1 /\ Last(read) = "id"
    /\ \/ read[Len(read) - 1] \in {"contract", "fn"}
       \/ Len(read) > 2 /\ read[Len(read) - 2] = "import"

\* The parser ends on every token list: each of its loops consumes a token every turn.
ParsingEnds == <>(status # "parsing")
=============================================================================
