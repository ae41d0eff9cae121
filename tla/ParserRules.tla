---------------------------- MODULE ParserRules ----------------------------
(***************************************************************************)
(* The rules of Parser: recursive descent over tokens, where every rule    *)
(* takes a parser state to the state it leaves, with the node it returns   *)
(* in .out (see Transactions).  A node is only its kind: what the rules    *)
(* test of the nodes they are given.  Rules name each other through Call,  *)
(* which also watches what each of them does.                              *)
(***************************************************************************)
EXTENDS Transactions

CONSTANT Fragments  \* the expressions in each template string: [token -> Seq(Seq(token))]

Names == {"id", "constructor"}

RECURSIVE Call(_, _), one_of(_, _), all_of(_, _), ListTail(_, _), array_of(_, _), Items(_, _), FirstOf(_, _),
          DecompositorRest(_), ObjectRest(_), MemberTail(_), CallTail(_), BinaryTail(_, _, _),
          AssignTail(_), ExpressionTail(_), SequenceTail(_), DeclTail(_), CatchTail(_),
          StatementTail(_), PropertyTail(_)

(* The state with another node of the same shape.                          *)
As(s, k) == [s EXCEPT !.out = k]

(* Inner "nodes" of a rule: it gives up, or it is done.                    *)
GiveUp(s) == As(s, "stop")

(* `if (!typeIs(close)) { error; skipToNextType({close}) }`                *)
AtClose(s, close) == IF Tok(s) = close THEN s ELSE skipToNextType(Error(s), {close})

(* `if (!typeIs(tt_semicolon)) error; else consume`                        *)
Semicolon(s) == IF Tok(s) = ";" THEN Consume(s) ELSE Error(s)

-----------------------------------------------------------------------------
(* Helpers                                                                 *)

one_of(s, rules) ==
    IF rules = << >> THEN Null(s)
    ELSE LET n == Call(Head(rules), Begin(s))
         IN  IF Found(n) THEN Commit(n) ELSE one_of(Revert(n), Tail(rules))

(* The rules after Begin; the first node is the result.                    *)
all_of(s, rules) ==
    IF rules = << >> THEN Node(Commit(s), "all")
    ELSE LET n == Call(Head(rules), s)
             rest == all_of(n, Tail(rules))
         IN  CASE ~Parsed(n)  -> Null(Revert(n))
               [] Found(rest) -> As(rest, n.out)
               [] OTHER       -> rest

array_of(s, rule) ==
    LET n == Call(rule, s)
    IN  IF ~Parsed(n) THEN n
        ELSE LET rest == array_of(n, rule)
             IN  IF rest.out = "error" THEN Fail(rest) ELSE Node(rest, n.out)

(* Rules tried one after the other without a transaction.                  *)
FirstOf(s, rules) ==
    IF rules = << >> THEN Null(s)
    ELSE LET n == Call(Head(rules), s)
         IN  IF Found(n) THEN n ELSE FirstOf(n, Tail(rules))

(* What follows the first node of a list: a comma and a node, repeatedly.  *)
(* Null when a node is missing after a comma.                              *)
Items(s, rule) ==
    IF Tok(s) # "," THEN s
    ELSE LET n == Call(rule, Consume(s))
         IN  IF Found(n) THEN [Items(n, rule) EXCEPT !.more = TRUE] ELSE n

(* list_of, as it is used: both errors have a message.  An error node may  *)
(* be the first of the list, a later one ends it.                          *)
ListTail(s, rule) ==
    LET n == Call(rule, Consume(s))
    IN  CASE Tok(s) # ","     -> Node(s, "list")
          [] Parsed(n)        -> ListTail(n, rule)
          [] n.out = "error"  -> Fail(n)
          [] OTHER            -> Fail(Error(n))

list_of(s, rule) ==
    LET n    == Call(rule, s)
        rest == ListTail(n, rule)
    IN  CASE ~Found(n)    -> Fail(Error(n))
          [] Parsed(rest) -> Node(rest, n.out)
          [] OTHER        -> Fail(rest)

isAssignmentOperator(s) == Tok(s) \in {"=", "+=", "<<="}

(* An operator at the current token: a symbol, or a pair of brackets.      *)
getOperatorType(s) ==
    CASE Tok(s) \in Symbols \ {"++", "--"} -> As(s, "symbol")
      [] Tok(s) \in {"(", "["} ->
           LET in == Consume(Begin(s))
           IN  IF <<Tok(s), Tok(in)>> \in {<<"(", ")">>, <<"[", "]">>}
               THEN As(Revert(in), "pair")
               ELSE As(in, "undefined")
      [] OTHER -> As(s, "undefined")

-----------------------------------------------------------------------------
(* Misc                                                                    *)

eos(s) == IF Tok(s) = ";" THEN Node(Consume(s), "eos") ELSE Null(s)

eosRequired(s) ==
    IF Tok(s) = ";" THEN Node(Consume(s), "eos") ELSE Fail(skipToNextType(Error(s), {";"}))

identifier(s) == IF Tok(s) \in Names THEN Node(Consume(s), "identifier") ELSE Null(s)

typedIdentifier(s) ==
    LET id == Call("identifier", Begin(s))
    IN  IF ~Found(id) \/ Tok(id) # ":" THEN Null(Revert(id))
        ELSE LET t == Call("typeSpecifier", Consume(id))
             IN  CASE Parsed(t) -> Commit(Node(t, "typed"))
                   [] Found(t)  -> Commit(Fail(t))
                   [] OTHER     -> Commit(Fail(Error(t)))

objectDecompositorProperty(s) == one_of(s, <<"typedAssignable", "assignable">>)

(* The loop over the properties after the first.  An item that is missing  *)
(* ends it, one that is an error does not.                                 *)
DecompositorRest(s) ==
    IF Tok(s) # "," THEN s
    ELSE LET n == Call("objectDecompositorProperty", Consume(s))
             e == skipToNextType(Error(n), {",", "}", ";"})
         IN  CASE Parsed(n)    -> DecompositorRest(n)
               [] Tok(e) = "," -> IF Found(n) THEN DecompositorRest(e) ELSE e
               [] Tok(e) = "}" -> As(Consume(e), "closed")
               [] OTHER        -> GiveUp(e)

objectDecompositor(s) ==
    IF Tok(s) # "{" THEN Null(s)
    ELSE LET f == Call("objectDecompositorProperty", Consume(Begin(s)))
             n == DecompositorRest(Commit(f))
         IN  CASE ~Found(f)        -> Null(Revert(f))
               [] n.out = "stop"   -> Fail(n)
               [] n.out = "closed" -> Node(n, "decompositor")
               [] Tok(n) = "}"     -> Node(Consume(n), "decompositor")
               [] OTHER            -> Fail(Error(n))

-----------------------------------------------------------------------------
(* Parameters and arguments                                                *)

(* The end of a list in angle brackets whose first node is of kind k.      *)
CloseAngle(s, k) ==
    LET e == Error(s)
    IN  CASE IsSymbol(s, ">")         -> As(Consume(s), k)
          [] NextOf(e, {">"}) = ">"   -> As(Consume(skipToNextSymbol(e, ">", {})), k)
          [] OTHER                    -> Fail(e)

templateArgs(s) ==
    IF ~IsSymbol(s, "<") THEN Null(s)
    ELSE LET a == Call("typeSpecifier", Consume(s))
             first == Node(a, a.out)
             n == Items(first, "typeSpecifier")
             e == Error(n)
         IN  CASE a.out = "error"      -> a
               [] ~Found(a)            -> IF NextOf(Error(a), {","}) = "eof" THEN Null(Error(a))
                                          ELSE CloseAngle(skipToNextType(Error(a), {","}), "null")
               [] Found(n)             -> CloseAngle(n, a.out)
               [] NextOf(e, {">", ","}) = "eof" -> Fail(e)
               [] OTHER                -> CloseAngle(skipToNextSymbol(e, ">", {","}), a.out)

templateParams(s) ==
    IF ~IsSymbol(s, "<") THEN Null(s)
    ELSE LET a == Call("identifier", Consume(s))
             n == Items(a, "identifier")
             e == skipToNextType(Error(n), {","})
         IN  CASE ~Found(a) -> IF NextOf(Error(a), {","}) = "eof" THEN Null(Error(a))
                               ELSE CloseAngle(skipToNextType(Error(a), {","}), "null")
               [] Found(n)     -> CloseAngle(n, a.out)
               [] Tok(e) = "," -> CloseAngle(e, a.out)
               [] OTHER        -> Fail(e)

parameter(s) == one_of(s, <<"typedAssignable", "assignable">>)

typedParameter(s) == Call("typedAssignable", s)

(* The loop of the four parameter lists, after their first parameter f.    *)
Parameters(f, rule) ==
    LET n == Items(f, rule)
        e == skipToNextType(Error(n), {",", ")"})
    IN  CASE ~Found(f)              -> f
          [] Found(n)               -> As(n, f.out)
          [] Tok(e) \in {",", ")"}  -> As(e, f.out)
          [] OTHER                  -> GiveUp(e)

OrEmpty(n) == IF Found(n) THEN n.out ELSE "empty"

(* The end of a list that may turn out not to be one.                      *)
CloseMaybe(n) ==
    LET c == AtClose(n, ")")
    IN  CASE n.out = "stop"                -> Fail(n)
          [] Tok(n) # ")" /\ ~Found(n)     -> Null(Error(n))
          [] Tok(c) = ")"                  -> Node(Consume(c), OrEmpty(n))
          [] OTHER                         -> Fail(c)

(* The end of a list that must be one; `empty` is what a list without      *)
(* parameters returns after its bracket was missed.                        *)
CloseList(n, empty) ==
    LET c == AtClose(n, ")")
    IN  CASE n.out = "stop" -> Fail(n)
          [] Tok(c) # ")"   -> Fail(c)
          [] OTHER          -> Node(Consume(c), IF Found(n) THEN n.out
                                                ELSE IF Tok(n) = ")" THEN "empty" ELSE empty)

maybeTypedParameterList(s) ==
    IF Tok(s) # "(" THEN Null(s)
    ELSE LET f == Call("typedParameter", Consume(Begin(s)))
         IN  IF ~Found(f) /\ Tok(f) # ")" THEN Null(Revert(f))
             ELSE CloseMaybe(Parameters(Commit(f), "typedParameter"))

maybeParameterList(s) ==
    IF Tok(s) # "(" THEN Null(s)
    ELSE CloseMaybe(Parameters(Call("parameter", Consume(s)), "parameter"))

parameterList(s) ==
    IF Tok(s) # "(" THEN Null(s)
    ELSE CloseList(Parameters(Call("parameter", Consume(s)), "parameter"), "empty")

typedParameterList(s) ==
    IF Tok(s) # "(" THEN Null(s)
    ELSE CloseList(Parameters(Call("typedParameter", Consume(s)), "typedParameter"), "null")

arguments(s) ==
    IF Tok(s) # "(" THEN Null(s)
    ELSE LET n == Call("expressionSequence", Consume(s))
             c == AtClose(n, ")")
         IN  IF Tok(c) = ")" THEN Node(Consume(c), OrEmpty(n)) ELSE Fail(c)

-----------------------------------------------------------------------------
(* Types                                                                   *)

typeModifier(s) ==
    LET c == AtClose(Consume(s), "]")
    IN  CASE IsSymbol(s, "*") -> Node(Call("typeModifier", Consume(s)), "modifier")
          [] Tok(s) = "["     -> IF Tok(c) # "]" THEN Fail(c)
                                 ELSE Node(Call("typeModifier", Consume(c)), "modifier")
          [] OTHER            -> Null(s)

typeProperty(s) ==
    LET id == Call("identifier", Begin(s))
    IN  IF ~Found(id) \/ Tok(id) # ":" THEN Null(Revert(id))
        ELSE LET t == Call("typeSpecifier", Commit(Consume(id)))
             IN  CASE Parsed(t) -> Node(t, "property")
                   [] Found(t)  -> Fail(t)
                   [] OTHER     -> Fail(Error(t))

parenthesizedTypeSpecifier(s) ==
    IF Tok(s) # "(" THEN Null(s)
    ELSE LET n == Call("typeSpecifier", Consume(Begin(s)))
             c == AtClose(Commit(n), ")")
         IN  CASE ~Found(n)     -> Null(Revert(n))
               [] Tok(c) # ")"  -> Fail(c)
               [] OTHER         -> Node(Consume(c), n.out)

identifierTypeSpecifier(s) ==
    Node(Call("typeModifier", Call("templateArgs", s)), "type")

(* After a property of an object type: a semicolon, or likely a comma.     *)
PropertyEnd(s) ==
    CASE Tok(s) = ";" -> Consume(s)
      [] Tok(s) = "," -> Consume(Error(s))
      [] OTHER        -> Error(s)
PropertyTail(s) ==
    LET n == Call("typeProperty", s)
    IN  IF Found(n) THEN PropertyTail(PropertyEnd(n)) ELSE n

objectType(s) ==
    LET f == Call("typeProperty", Consume(Begin(s)))
        c == AtClose(PropertyTail(PropertyEnd(Commit(f))), "}")
    IN  CASE ~Found(f)    -> Null(Revert(f))
          [] Tok(c) # "}" -> Fail(c)
          [] OTHER        -> Node(Call("typeModifier", Consume(c)), "type")

(* The three returns of this branch leave the transaction that it began.   *)
functionType(p) ==
    LET t == Call("typeSpecifier", Consume(p))
    IN  CASE Tok(p) # "=>" -> Fail(Error(p))
          [] ~Found(t)     -> Fail(Error(t))
          [] OTHER         -> Node(t, "type")

typeSpecifier(s) ==
    LET id == Call("identifier", s)
        p  == Call("maybeTypedParameterList", Begin(s))
        n  == Call("parenthesizedTypeSpecifier", IF Tok(s) = "(" THEN Revert(p) ELSE s)
    IN  CASE Found(id)                  -> identifierTypeSpecifier(id)
          [] Tok(s) = "{"               -> objectType(s)
          [] Tok(s) = "(" /\ Parsed(p)  -> functionType(p)
          [] ~Found(n)                  -> n
          [] OTHER                      -> Node(Call("typeModifier", n), n.out)

assignable(s) == Call("identifier", s)

(* Mutant: keeps the name that turned out to have no type.                 *)
typedAssignableKept(s) ==
    LET id == Call("identifier", Begin(s))
    IN  IF ~Found(id) \/ Tok(id) # ":" THEN Null(Commit(id))
        ELSE LET t == Call("typeSpecifier", Consume(id))
             IN  Commit(IF Found(t) THEN Node(t, "typed") ELSE Fail(Error(t)))

typedAssignable(s) ==
    LET id == Call("identifier", Begin(s))
    IN  IF ~Found(id) \/ Tok(id) # ":" THEN Null(Revert(id))
        ELSE LET t == Call("typeSpecifier", Consume(id))
             IN  Commit(IF Found(t) THEN Node(t, "typed") ELSE Fail(Error(t)))

-----------------------------------------------------------------------------
(* Literals                                                                *)

numberLiteral(s) ==
    LET n == Consume(s)
    IN  IF Tok(s) # "num" THEN Null(s)
        ELSE Node(IF Tok(n) = "suffix" THEN Consume(n) ELSE n, "literal")

stringLiteral(s) ==
    IF Tok(s) \in {"str", "str*"} THEN Node(Consume(s), "literal") ELSE Null(s)

(* Each expression of a template string is read by a parser of its own,    *)
(* with the same logger; what follows the expression is not looked at.     *)
fragment(s, tokens) ==
    LET e == Call("expression", [s EXCEPT !.toks = tokens, !.pos = <<1>>])
        read == IF Found(e) THEN e ELSE Error(e)
    IN  [read EXCEPT !.toks = s.toks, !.pos = s.pos,
                     !.unread = @ \cup IF Tok(e) # "eof" /\ e.msgs = s.msgs
                                       THEN {"templateStringLiteral"} ELSE {}]

templateStringLiteral(s) ==
    IF Tok(s) \notin DOMAIN Fragments THEN Null(s)
    ELSE Node(FoldLeft(fragment, Consume(s), Fragments[Tok(s)]), "literal")

(* Mutant: an array without an end leaves its transaction.                 *)
arrayLiteralOpen(s) ==
    IF Tok(s) # "[" THEN Null(s)
    ELSE LET n == Call("expressionSequence", Consume(Begin(s)))
             c == AtClose(n, "]")
         IN  CASE ~Found(n) /\ Tok(n) # "]" -> Null(Revert(n))
               [] Tok(c) # "]"              -> Fail(c)
               [] OTHER                     -> Node(Commit(Consume(c)), "literal")

arrayLiteral(s) ==
    IF Tok(s) # "[" THEN Null(s)
    ELSE LET n == Call("expressionSequence", Consume(Begin(s)))
             c == AtClose(n, "]")
         IN  CASE ~Found(n) /\ Tok(n) # "]" -> Null(Revert(n))
               [] Tok(c) # "]"              -> Fail(Commit(c))
               [] OTHER                     -> Node(Commit(Consume(c)), "literal")

objectLiteralProperty(s, expected) ==
    LET n == Call("identifier", s)
        i == Call("singleExpression", Consume(n))
    IN  CASE ~Found(n)     -> n
          [] Tok(n) # ":"  -> IF expected THEN Fail(Error(n)) ELSE Null(n)
          [] ~Found(i)     -> Fail(Error(i))
          [] OTHER         -> Node(i, "property")

(* The loop over the properties after the first.                           *)
ObjectRest(s) ==
    IF Tok(s) # "," THEN s
    ELSE LET n == Call("objectLiteralPropertyExpected", Consume(s))
             e == skipToNextType(IF Found(n) THEN n ELSE Error(n), {",", "}"})
         IN  CASE Parsed(n)    -> ObjectRest(n)
               [] Tok(e) = "," -> IF Found(n) THEN ObjectRest(e) ELSE e
               [] Tok(e) = "}" -> GiveUp(Consume(e))
               [] OTHER        -> GiveUp(e)

(* The first property was an error: read on from the second, if there is   *)
(* one, as if it were the first.                                           *)
SecondProperty(f) ==
    LET t == skipToNextType(f, {",", "}"})
        n == Call("objectLiteralPropertyExpected", Consume(Begin(t)))
    IN  CASE Tok(t) = "}" -> GiveUp(Consume(t))
          [] Tok(t) # "," -> GiveUp(t)
          [] Parsed(n)    -> Commit(n)
          [] OTHER        -> GiveUp(Revert(n))

objectLiteral(s) ==
    IF Tok(s) # "{" THEN Null(s)
    ELSE LET first == Call("objectLiteralPropertyMaybe", Consume(Begin(s)))
             f == IF Parsed(first) THEN Commit(first) ELSE SecondProperty(Commit(first))
             n == ObjectRest(f)
             c == AtClose(n, "}")
         IN  CASE ~Found(first)                    -> Null(Revert(first))
               [] f.out = "stop"                   -> Fail(f)
               [] n.out = "stop"                   -> Fail(n)
               [] Tok(c) # "}"                     -> Fail(c)
               [] OTHER                            -> Node(Consume(c), "literal")

-----------------------------------------------------------------------------
(* Expressions                                                             *)

(* sizeof<type> and typeinfo<type>                                         *)
OneType(s) ==
    LET t == Call("templateArgs", s)
    IN  CASE ~IsSymbol(s, "<") -> Fail(Error(s))
          [] ~Found(t)         -> Fail(t)
          [] OTHER             -> Node(IF t.more THEN Error(t) ELSE t, "literal")

(* An identifier before "<": a type, a specialised function, or neither.   *)
Specialised(n) ==
    LET type == identifierTypeSpecifier(Begin(n))
        args == Call("templateArgs", Begin(Revert(type)))
    IN  CASE Parsed(Call("templateArgs", Begin(n))) -> Node(Commit(type), "type")
          [] Parsed(args)                           -> Node(Commit(args), "identifier")
          [] OTHER                                  -> Node(Revert(args), "identifier")

primaryExpression(s) ==
    LET l == FirstOf(s, <<"numberLiteral", "stringLiteral", "templateStringLiteral",
                          "arrayLiteral", "objectLiteral">>)
        n == Call("identifier", l)
    IN  CASE Tok(s) \in {"this", "null", "true", "false"} -> Node(Consume(s), "literal")
          [] Tok(s) \in {"sizeof", "typeinfo"}            -> OneType(Consume(s))
          [] Found(l)                                     -> l
          [] Found(n) /\ IsSymbol(n, "<")                 -> Specialised(n)
          [] Found(n)                                     -> n
          [] OTHER                                        -> Call("expressionSequenceGroup", n)

functionExpression(s) ==
    LET p == one_of(Begin(s), <<"identifier", "maybeParameterList">>)
        b == one_of(Consume(Commit(p)), <<"block", "expression">>)
    IN  CASE ~Parsed(p) \/ Tok(p) # "=>" -> Null(Revert(p))
          [] Parsed(b)                   -> Node(b, "function")
          [] Found(b)                    -> Fail(b)
          [] OTHER                       -> Fail(Error(b))

(* `[expression]` after an expression.                                     *)
Indexed(s) ==
    LET r == Call("expression", Consume(s))
        e == IF Found(r) THEN r ELSE skipToNextType(Error(r), {"]"})
        c == AtClose(e, "]")
    IN  IF Tok(c) # "]" THEN Fail(c) ELSE Node(Consume(c), "expression")

MemberTail(l) ==
    LET r == Call("identifier", Consume(l))
        x == Indexed(l)
    IN  CASE Tok(l) = "." -> IF Found(r) THEN MemberTail(Node(r, "member")) ELSE Fail(Error(r))
          [] Tok(l) = "[" -> IF Parsed(x) THEN MemberTail(x) ELSE x
          [] OTHER        -> l

memberExpression(s) ==
    LET n == FirstOf(s, <<"functionExpression", "primaryExpression">>)
    IN  IF Found(n) THEN MemberTail(n) ELSE n

newExpression(s) ==
    LET b == Call("memberExpression", Consume(s))
    IN  CASE ~IsKeyword(s, "new")                          -> Call("memberExpression", s)
          [] b.out \notin {"member", "type", "identifier"} -> Fail(Error(b))
          [] OTHER                                         -> Node(Call("arguments", b), "new")

(* A call, a member or an index of what is on the left.                    *)
CallTail(n) ==
    LET r == Call("identifier", Consume(n))
        x == Indexed(n)
    IN  CASE Tok(n) = "(" -> CallTail(Node(Call("arguments", n), "expression"))
          [] Tok(n) = "." -> IF Found(r) THEN CallTail(Node(r, "member")) ELSE GiveUp(Error(r))
          [] Tok(n) = "[" -> IF Parsed(x) THEN CallTail(x) ELSE GiveUp(x)
          [] OTHER        -> n

(* The returns from the loop leave the transaction begun here.             *)
callExpression(s) ==
    LET callee == Call("newExpression", Begin(s))
        args   == Call("arguments", callee)
        n      == CallTail(Node(args, "expression"))
    IN  CASE ~Found(callee)                       -> Null(Revert(callee))
          [] ~Found(args) /\ callee.out = "new"   -> Node(Commit(args), "new")
          [] ~Found(args)                         -> Null(Revert(args))
          [] n.out = "stop"                       -> Fail(n)
          [] OTHER                                -> Node(Commit(n), n.out)

(* Operators are looked for by text, so a string literal can be one.  A    *)
(* cast may lack the expression that is cast.                              *)
leftHandSideExpression(s) ==
    LET deref == Text(Tok(s)) = "*"
        n == FirstOf(IF deref THEN Consume(s) ELSE s, <<"callExpression", "memberExpression">>)
        t == Call("typeSpecifier", Consume(n))
        cast == IF Found(n) THEN t ELSE [t EXCEPT !.crashes = @ \cup {"leftHandSideExpression"}]
    IN  CASE deref /\ ~Found(n)  -> Fail(Error(n))
          [] Tok(n) # "as"       -> IF deref THEN Node(n, "expression") ELSE n
          [] ~Found(t)           -> Fail(Error(t))
          [] OTHER               -> Node(cast, "cast")

postfixExpression(s) ==
    LET n == Call("leftHandSideExpression", s)
    IN  IF Found(n) /\ Tok(n) \in {"++", "--"} THEN Node(Consume(n), "expression") ELSE n

unaryExpression(s) ==
    LET n == Call("postfixExpression", s)
        e == Call("unaryExpression", Consume(n))
    IN  CASE Found(n) \/ Tok(n) \notin {"-", "~", "!", "--", "++"} -> n
          [] Found(e) -> Node(e, "expression")
          [] OTHER    -> Fail(Error(e))

(* The levels of the binary operators: the loop after the first operand.   *)
BinaryTail(n, operand, operators) ==
    IF ~Found(n) \/ Text(Tok(n)) \notin operators THEN n
    ELSE LET r == Call(operand, Consume(n))
         IN  IF Found(r) THEN BinaryTail(Node(r, "expression"), operand, operators)
             ELSE Fail(Error(r))
Binary(s, operand, operators) == BinaryTail(Call(operand, s), operand, operators)

multiplicativeExpression(s) == Binary(s, "unaryExpression", {"*", "/", "%"})
additiveExpression(s) == Binary(s, "multiplicativeExpression", {"+", "-"})
shiftExpression(s) == Binary(s, "additiveExpression", {"<<", ">>"})
relationalExpression(s) == Binary(s, "shiftExpression", {"<", "<=", ">", ">="})
(* Two characters the first of which is "=" are also an arrow.             *)
equalityExpression(s) == Binary(s, "relationalExpression", {"==", "!=", "=>"})
bitwiseAndExpression(s) == Binary(s, "equalityExpression", {"&"})
XOrExpression(s) == Binary(s, "bitwiseAndExpression", {"^"})
bitwiseOrExpression(s) == Binary(s, "XOrExpression", {"|"})
logicalAndExpression(s) == Binary(s, "bitwiseOrExpression", {"&&"})
logicalOrExpression(s) == Binary(s, "logicalAndExpression", {"||"})

conditionalExpression(s) ==
    LET n == Call("logicalOrExpression", s)
        l == Call("assignmentExpression", Consume(n))
        r == Call("assignmentExpression", Consume(l))
    IN  CASE ~Found(n) \/ Tok(n) # "?"     -> n
          [] ~Found(l) \/ Tok(l) # ":"     -> Fail(Error(l))
          [] ~Found(r)                     -> Fail(Error(r))
          [] OTHER                         -> Node(r, "expression")

AssignTail(n) ==
    IF ~isAssignmentOperator(n) THEN n
    ELSE LET r == Call("assignmentExpression", Consume(n))
         IN  IF Found(r) THEN AssignTail(Node(r, "expression")) ELSE Fail(Error(r))

assignmentExpression(s) ==
    LET n == Call("leftHandSideExpression", Begin(s))
    IN  IF Found(n) /\ isAssignmentOperator(n) THEN AssignTail(Commit(n))
        ELSE Call("conditionalExpression", Revert(n))

singleExpression(s) == Call("assignmentExpression", s)

(* The loop of expression, after an expression that was found.             *)
ExpressionTail(b) ==
    IF Tok(b) # "," THEN b
    ELSE LET n == Call("assignmentExpression", Consume(b))
             e == skipToNextType(IF Found(n) THEN n ELSE Error(n), {",", ";", ")", "]"})
         IN  CASE Parsed(n)    -> ExpressionTail(n)
               [] Tok(e) = "," -> ExpressionTail(As(e, b.out))
               [] OTHER        -> GiveUp(e)

expression(s) ==
    LET n == Call("assignmentExpression", s)
        b == ExpressionTail(n)
    IN  CASE ~Found(n)       -> n
          [] b.out = "stop"  -> Fail(b)
          [] OTHER           -> Node(b, n.out)

(* A comma after a missing expression is taken to follow a node that is    *)
(* not there.                                                              *)
SequenceTail(f) ==
    IF Tok(f) # "," THEN f
    ELSE LET n == Call("singleExpression", Consume(f))
             e == skipToNextType(Error(n), {",", ";", ")"})
         IN  CASE Found(n)     -> [SequenceTail(n) EXCEPT !.more = TRUE]
               [] Tok(e) = "," -> GiveUp(Crash(e, "expressionSequence"))
               [] OTHER        -> GiveUp(e)

expressionSequence(s) ==
    LET f == Call("singleExpression", s)
        n == SequenceTail(Node(f, f.out))
    IN  CASE ~Found(f)       -> f
          [] n.out = "stop"  -> Fail(n)
          [] n.more          -> Node(n, "sequence")
          [] OTHER           -> Node(n, f.out)

(* A closing bracket that is found late is not consumed.                   *)
expressionSequenceGroup(s) ==
    IF Tok(s) # "(" THEN Null(s)
    ELSE LET n == Call("expressionSequence", Consume(Begin(s)))
             c == Commit(n)
             e == skipToNextType(Error(c), {")", ";"})
         IN  CASE ~Found(n)    -> Null(Revert(n))
               [] Tok(c) = ")" -> Node(Consume(c), n.out)
               [] Tok(e) = ")" -> Node(e, n.out)
               [] OTHER        -> Fail(e)

-----------------------------------------------------------------------------
(* Declarations                                                            *)

variableDecl(s) ==
    LET a == one_of(s, <<"typedAssignable", "assignable", "objectDecompositor">>)
        i == Call("singleExpression", Consume(a))
        e == skipToNextType(IF Found(i) THEN i ELSE Error(i), {";"})
    IN  CASE ~Parsed(a)          -> a
          [] ~IsSymbol(a, "=")   -> Node(a, "variable")
          [] Parsed(i)           -> Node(i, "variable")
          [] Tok(e) = ";"        -> Node(e, "variable")
          [] OTHER               -> Fail(e)

(* As in SequenceTail, a declaration missing between commas is followed.   *)
DeclTail(f) ==
    IF Tok(f) # "," THEN f
    ELSE LET n == Call("variableDecl", Consume(f))
             e == skipToNextType(Error(n), {",", ";"})
         IN  CASE Found(n)     -> DeclTail(n)
               [] Tok(e) = "," -> GiveUp(Crash(e, "variableDeclList"))
               [] OTHER        -> GiveUp(e)

(* Mutant: a declaration of nothing is not reported.                       *)
variableDeclListQuiet(s) ==
    IF Tok(s) \notin {"const", "let"} THEN Null(s)
    ELSE LET f == Call("variableDecl", Consume(s))
             n == DeclTail(f)
         IN  CASE ~Parsed(f)         -> Fail(f)
               [] n.out = "stop"     -> Fail(n)
               [] OTHER              -> Node(n, "variable")

variableDeclList(s) ==
    IF Tok(s) \notin {"const", "let"} THEN Null(s)
    ELSE LET f == Call("variableDecl", Consume(s))
             n == DeclTail(f)
         IN  CASE f.out = "error" -> f
               [] ~Found(f)       -> Fail(Error(f))
               [] n.out = "stop"  -> Fail(n)
               [] OTHER           -> Node(n, "variable")

(* The name after `operator`: an operator, or the type of a cast.          *)
OperatorName(s) ==
    LET o == getOperatorType(s)
        t == Call("typeSpecifier", o)
        e == skipToNextType(Error(t), {"{"})
    IN  CASE o.out = "symbol"           -> As(Consume(o), "operator")
          [] o.out = "pair"             -> As(Consume(Consume(o)), "operator")
          [] Found(t)                   -> As(t, "cast")
          [] Tok(e) = "{"               -> As(e, "cast")
          [] OTHER                      -> GiveUp(e)

(* Mutant: gives up also after a modifier.                                 *)
MemberNameLate(s, accessor, committed) ==
    LET n == Call("identifier", s)
        e == skipToNextType(Error(n), {"{"})
    IN  CASE Found(n)                     -> n
          [] Tok(n) = "operator"          -> OperatorName(Consume(IF accessor THEN Error(n) ELSE n))
          [] ~accessor                    -> n
          [] Tok(e) = "{"                 -> As(e, "missing")
          [] OTHER                        -> GiveUp(e)

(* The name of a class member; null when there is nothing like one.        *)
MemberName(s, accessor, committed) ==
    LET n == Call("identifier", s)
        e == skipToNextType(Error(n), IF accessor THEN {"{"} ELSE {";", "("})
    IN  CASE Found(n)                     -> n
          [] Tok(n) = "operator"          -> OperatorName(Consume(IF accessor THEN Error(n) ELSE n))
          [] ~accessor /\ ~committed      -> n
          [] Tok(e) \in {"{", ";", "("}   -> As(e, "missing")
          [] OTHER                        -> GiveUp(e)

MemberProperty(n, reserved) ==
    LET t == Call("typeSpecifier", Consume(IF reserved THEN Error(n) ELSE n))
        c == AtClose(IF Found(t) THEN t ELSE Error(t), ";")
    IN  IF Tok(c) = ";" THEN Node(Consume(c), "property") ELSE Fail(c)

(* A method from its parameters on.  `untyped` members may not name the    *)
(* type that they return, accessors have to.                               *)
MemberMethod(n, accessor, untyped) ==
    LET p == Call("typedParameterList", n)
        t == Call("typeSpecifier", Consume(IF untyped THEN Error(p) ELSE p))
        r == CASE Tok(p) = ":" /\ Found(t) -> t
               [] Tok(p) = ":"             -> skipToNextType(IF untyped THEN t ELSE Error(t), {"{"})
               [] OTHER                    -> IF accessor THEN Error(p) ELSE p
        b == Call("block", r)
        c == skipToNextType(Error(b), {"}"})
    IN  CASE Tok(p) = ":" /\ ~Found(t) /\ Tok(r) # "{" -> Fail(r)
          [] Found(b)                                  -> Node(b, "method")
          [] Tok(c) = "}"                              -> Node(c, "method")
          [] OTHER                                     -> Fail(c)

(* A modifier commits the member, once.                                    *)
Modifier(s, x, words) ==
    IF Tok(x) \notin words THEN x
    ELSE Consume(IF Len(x.pos) > Len(s.pos) THEN Commit(x) ELSE x)

(* From the parameters of the template on.                                 *)
MemberBody(n, m, accessor, untyped) ==
    CASE IsSymbol(n, "<") /\ ~Parsed(m) /\ NextOf(m, {"(", "{", "}"}) # "(" ->
            Fail(skipToNextType(m, {"(", "{", "}"}))
      [] IsSymbol(n, "<") /\ ~Parsed(m) ->
            MemberMethod(skipToNextType(m, {"(", "{", "}"}), accessor, untyped)
      [] Tok(m) = "(" -> MemberMethod(m, accessor, untyped)
      [] OTHER        -> Fail(Error(m))

(* From the name on.                                                       *)
MemberRest(n, accessor, reserved) ==
    IF ~accessor /\ Tok(n) = ":" THEN MemberProperty(n, reserved)
    ELSE MemberBody(n, Call("templateParams", n), accessor, reserved \/ n.out = "cast")

Member(head, committed, getset, name) ==
    CASE ~Found(name)       -> Null(Revert(name))
      [] name.out = "stop"  -> Fail(name)
      [] OTHER -> MemberRest(IF committed THEN name ELSE As(Commit(name), name.out),
                             getset /\ name.out \notin {"operator", "cast"},
                             Tok(head) = "constructor")

MemberFrom(s, head, getset) ==
    Member(head, Len(head.pos) = Len(s.pos), getset,
           MemberName(head, getset, Len(head.pos) = Len(s.pos)))

(* static, then get or set.                                                *)
MemberHead(s, x) ==
    MemberFrom(s, Modifier(s, x, {"get", "set"}), Tok(x) \in {"get", "set"})

classPropertyOrMethod(s) ==
    MemberHead(s, Modifier(s, Modifier(s, Begin(s), {"public", "private"}), {"static"}))

(* A class, a type or a function without a name, before the end of input,  *)
(* frees the node that it does not have.                                   *)
ClassClose(body) ==
    LET close == CASE Parsed(body) -> body
                   [] Found(body)  -> skipToNextType(body, {"}"})
                   [] OTHER        -> skipToNextType(Error(body), {"}"})
    IN  CASE Tok(close) = "}" -> Node(Semicolon(Consume(close)), "class")
          [] Parsed(body)     -> Null(Error(close))
          [] OTHER            -> Fail(close)

ClassOpen(bases) ==
    LET open == IF Parsed(bases) THEN bases ELSE skipToNextType(bases, {"{"})
    IN  CASE Tok(open) = "{" -> ClassClose(Call("membersOf", Consume(open)))
          [] Parsed(bases)   -> Null(Error(open))
          [] OTHER           -> Fail(open)

BasesOf(t) ==
    IF Tok(t) = "extends" THEN list_of(Consume(t), "typeSpecifier") ELSE As(t, "none")

ClassBases(t) ==
    CASE t.out # "error"                        -> ClassOpen(BasesOf(t))
      [] NextOf(t, {"extends", "{"}) = "eof"    -> Fail(t)
      [] OTHER -> ClassOpen(BasesOf(skipToNextKeyword(t, "extends", {"{"})))

ClassParams(n) ==
    CASE Found(n)                               -> ClassBases(Call("templateParams", n))
      [] NextOf(n, {"extends", "{"}) = "eof"    -> Crash(Error(n), "classDef")
      [] OTHER -> ClassBases(Call("templateParams", skipToNextKeyword(Error(n), "extends", {"{"})))

classDef(s) ==
    IF IsKeyword(s, "class") THEN ClassParams(Call("identifier", Consume(s))) ELSE Null(s)

TypeAfter == {"{"} \cup Names

TypeOf(t) == IF Found(t) THEN Node(Semicolon(t), "typedef") ELSE Fail(Error(t))

TypeEqual(t) ==
    CASE IsSymbol(t, "=")                       -> TypeOf(Call("typeSpecifier", Consume(t)))
      [] NextOf(t, TypeAfter) = "eof"           -> Fail(Error(t))
      [] OTHER -> TypeOf(Call("typeSpecifier", Consume(skipToNextType(Error(t), TypeAfter))))

TypeParams(t) ==
    CASE t.out # "error"                            -> TypeEqual(t)
      [] NextOf(t, {"="} \cup TypeAfter) = "eof"    -> Fail(t)
      [] OTHER                                      -> TypeEqual(skipToNextSymbol(t, "=", TypeAfter))

typeDef(s) ==
    LET n == Call("identifier", Consume(s))
    IN  CASE ~IsKeyword(s, "type")                  -> Null(s)
          [] Found(n)                               -> TypeParams(Call("templateParams", n))
          [] NextOf(n, TypeAfter) = "eof"           -> Crash(Error(n), "typeDef")
          [] OTHER -> TypeParams(Call("templateParams", skipToNextType(Error(n), TypeAfter)))

functionDecl(s) ==
    LET n     == Call("identifier", Consume(s))
        named == IF Found(n) THEN n ELSE skipToNextType(Error(n), {"("})
        p     == Call("parameterList", Call("templateParams", named))
        e     == skipToNextType(IF Found(p) THEN p ELSE Error(p), {"{", ";"})
    IN  CASE ~IsKeyword(s, "function")               -> Null(s)
          [] ~Found(n) /\ NextOf(n, {"("}) = "eof"   -> Crash(Error(n), "functionDecl")
          [] Parsed(p)                               -> Node(p, "function")
          [] Tok(e) = ";"                            -> Node(e, "function")
          [] OTHER                                   -> Fail(e)

functionDef(s) ==
    LET n == Call("functionDecl", s)
        b == Call("block", n)
    IN  CASE ~Found(n) -> n
          [] Found(b)  -> Node(b, n.out)
          [] OTHER     -> Node(Error(b), n.out)

declaration(s) == one_of(s, <<"variableStatement", "classDef", "typeDef", "functionDef">>)

-----------------------------------------------------------------------------
(* Statements                                                              *)

variableStatement(s) == all_of(Begin(s), <<"variableDeclList", "eosRequired">>)

emptyStatement(s) == eos(s)

expressionStatement(s) ==
    LET n == Call("expressionSequence", s)
        e == IF n.out = "error" THEN skipToNextType(n, {";"}) ELSE n
    IN  IF ~Found(n) \/ (n.out = "error" /\ Tok(e) # ";") THEN e
        ELSE Node(Call("eosRequired", e), n.out)

ifStatement(s) ==
    LET c == Call("expressionSequenceGroup", Consume(s))
        b == Call("statement", c)
        e == Call("statement", Consume(b))
    IN  CASE ~IsKeyword(s, "if")        -> Null(s)
          [] ~Found(c)                  -> Null(Error(c))
          [] ~Found(b)                  -> Null(Error(b))
          [] ~IsKeyword(b, "else")      -> Node(b, "if")
          [] ~Found(e)                  -> Null(Error(e))
          [] OTHER                      -> Node(e, "if")

continueStatement(s) ==
    IF IsKeyword(s, "continue") THEN Node(Semicolon(Consume(s)), "continue") ELSE Null(s)

(* The node is a continue.                                                 *)
breakStatement(s) ==
    IF IsKeyword(s, "break") THEN Node(Semicolon(Consume(s)), "continue") ELSE Null(s)

doLoop(s) ==
    LET b == Call("statement", Consume(s))
        c == Call("expressionSequenceGroup", Consume(b))
    IN  CASE ~Found(b) \/ ~IsKeyword(b, "while") -> Null(Error(b))
          [] ~Found(c)                           -> Null(Error(c))
          [] OTHER                               -> Node(Semicolon(c), "loop")

(* Mutant: a semicolon after every body.                                   *)
LoopBodyEnded(b) == IF Found(b) THEN Node(Semicolon(b), "loop") ELSE Null(Error(b))

(* A body that is not a block is followed by one more semicolon than its   *)
(* own.                                                                    *)
LoopBody(b) ==
    CASE ~Found(b)        -> Null(Error(b))
      [] b.out = "block"  -> Node(b, "loop")
      [] OTHER            -> Node(Semicolon(b), "loop")

whileLoop(s) ==
    LET c == Call("expressionSequenceGroup", Consume(s))
    IN  IF Found(c) THEN LoopBody(Call("statement", c)) ELSE Null(Error(c))

forLoop(s) ==
    LET i == one_of(Consume(Consume(s)), <<"expressionSequence", "variableDeclList">>)
        c == Call("expressionSequence", Consume(i))
        m == Call("expressionSequence", Consume(c))
    IN  CASE Tok(Consume(s)) # "("  -> Null(Error(Consume(s)))
          [] Tok(i) # ";"           -> Null(Error(i))
          [] Tok(c) # ";"           -> Null(Error(c))
          [] Tok(m) # ")"           -> Null(Error(m))
          [] OTHER                  -> LoopBody(Call("statement", Consume(m)))

iterationStatement(s) ==
    CASE IsKeyword(s, "do")    -> doLoop(s)
      [] IsKeyword(s, "while") -> whileLoop(s)
      [] IsKeyword(s, "for")   -> forLoop(s)
      [] OTHER                 -> Null(s)

deleteStatement(s) ==
    IF ~IsKeyword(s, "delete") THEN Null(s)
    ELSE Node(Semicolon(Call("singleExpression", Consume(s))), "delete")

returnStatement(s) ==
    IF ~IsKeyword(s, "return") THEN Null(s)
    ELSE Node(Semicolon(Call("singleExpression", Consume(s))), "return")

switchCase(s) ==
    LET c == Call("expressionSequence", Consume(s))
    IN  CASE ~IsKeyword(s, "case") -> Null(s)
          [] ~Found(c)             -> Null(Error(c))
          [] OTHER -> Node(Call("statement", IF Tok(c) = ":" THEN Consume(c) ELSE Error(c)), "case")

(* The node is a return.                                                   *)
switchStatement(s) ==
    LET c       == Call("expressionSequenceGroup", Consume(s))
        cases   == Call("casesOf", IF Tok(c) = "{" THEN Consume(c) ELSE Error(c))
        default == Consume(cases)
        all     == IF ~IsKeyword(cases, "default") THEN cases
                   ELSE Call("statement", IF Tok(default) = ":" THEN Consume(default)
                                                               ELSE Error(default))
    IN  CASE ~IsKeyword(s, "switch") -> Null(s)
          [] ~Found(c)               -> Null(Error(c))
          [] OTHER -> Node(IF Tok(all) = "}" THEN Consume(all) ELSE Error(all), "return")

throwStatement(s) ==
    LET e == Call("singleExpression", Consume(s))
    IN  CASE ~IsKeyword(s, "throw") -> Null(s)
          [] ~Found(e)              -> Null(Error(e))
          [] OTHER                  -> Node(Semicolon(e), "throw")

(* The bracket that closes the parameter is not consumed.                  *)
catchBlock(s) ==
    LET open == Consume(s)
        p    == Call("parameter", Consume(open))
        b    == Call("block", p)
    IN  CASE ~IsKeyword(s, "catch") -> Null(s)
          [] Tok(open) # "("        -> Null(Error(open))
          [] p.out # "typed"        -> Null(Error(p))
          [] Found(b)               -> Node(b, "catch")
          [] OTHER                  -> Node(Semicolon(b), "catch")

CatchTail(s) ==
    LET c == Call("catchBlock", s) IN IF Found(c) THEN CatchTail(c) ELSE c

tryStatement(s) ==
    LET b == Call("block", Consume(s))
        c == Call("catchBlock", b)
    IN  CASE ~IsKeyword(s, "try")      -> Null(s)
          [] ~Found(b)                 -> Null(Error(b))
          [] ~Found(c)                 -> Null(Error(c))
          [] OTHER                     -> Node(CatchTail(c), "try")

(* The last revert is of a transaction that was committed before: it takes *)
(* back one of the caller.                                                 *)
placementNewStatement(s) ==
    LET t    == Call("typeSpecifier", Consume(Begin(s)))
        args == Call("arguments", t)
        to   == Call("singleExpression", Consume(Commit(args)))
    IN  CASE ~IsKeyword(s, "new")        -> Null(s)
          [] ~Found(t) \/ Tok(t) # "("   -> Null(Revert(t))
          [] Tok(args) # "=>"            -> Null(Revert(args))
          [] ~Found(to)                  -> Null(Revert(Error(to)))
          [] OTHER                       -> Node(Semicolon(to), "placement")

symbolImport(s) ==
    LET n == one_of(s, <<"typedIdentifier", "identifier">>)
        a == Call("identifier", Consume(n))
    IN  CASE ~Found(n)               -> n
          [] ~IsKeyword(n, "as")     -> Node(n, "import")
          [] Found(a)                -> Node(a, "import")
          [] OTHER                   -> Fail(Error(a))

importList(s) ==
    LET f == Call("symbolImport", Consume(s))
        e == skipToNextType(f, {",", "}", ";"})
        from == IF f.out = "error" THEN e ELSE f
        n == IF Found(f) THEN Items(from, "symbolImport") ELSE f
        c == AtClose(IF Found(f) /\ ~Found(n) THEN Error(n) ELSE n, "}")
    IN  CASE Tok(s) # "{"                                    -> Null(s)
          [] f.out = "error" /\ Tok(e) \notin {",", "}"}     -> e
          [] Tok(c) # "}" -> IF Found(f) THEN Fail(c) ELSE Crash(c, "importList")
          [] OTHER                                           -> Node(Consume(c), f.out)

importModule(s) ==
    LET as == Consume(s)
        n  == Call("identifier", Consume(as))
        abandon(x) == LET e == skipToNextType(Error(x), {";"})
                      IN  Fail(IF Tok(e) = ";" THEN Consume(e) ELSE e)
    IN  CASE ~IsSymbol(s, "*")     -> Null(s)
          [] ~IsKeyword(as, "as")  -> abandon(as)
          [] Found(n)              -> Node(n, "import")
          [] OTHER                 -> abandon(n)

importStatement(s) ==
    LET b    == FirstOf(Consume(s), <<"importModule", "importList">>)
        from == IF Found(b) THEN b ELSE skipToNextKeyword(Error(b), "from", {";"})
        path == Consume(from)
    IN  CASE ~IsKeyword(s, "import")                          -> Null(s)
          [] ~IsKeyword(from, "from") /\ ~Found(b)            -> Fail(from)
          [] ~IsKeyword(from, "from")                         -> Fail(skipToNextType(Error(from), {";"}))
          [] Tok(path) \notin {"str", "str*"}                 -> Fail(skipToNextType(Error(path), {";"}))
          [] OTHER                                            -> Node(Consume(path), "import")

exportStatement(s) ==
    LET d == Call("declaration", Consume(s))
    IN  CASE ~IsKeyword(s, "export") -> Null(s)
          [] Found(d)                -> Node(d, "export")
          [] OTHER                   -> Null(Error(d))

statement(s) ==
    one_of(s, <<"block", "variableStatement", "importStatement", "exportStatement",
                "emptyStatement", "classDef", "typeDef", "placementNewStatement",
                "expressionStatement", "ifStatement", "iterationStatement",
                "continueStatement", "breakStatement", "deleteStatement", "returnStatement",
                "switchStatement", "throwStatement", "tryStatement", "functionDef", "eos">>)

StatementTail(f) ==
    LET n == Call("statement", f)
        e == skipToNextType(n, {";"})
    IN  CASE ~Found(n)      -> n
          [] Parsed(n)      -> StatementTail(n)
          [] Tok(e) = ";"   -> StatementTail(e)
          [] OTHER          -> GiveUp(n)

statementList(s) ==
    LET f == Call("statement", s)
        n == StatementTail(f)
    IN  CASE ~Found(f)       -> f
          [] n.out = "stop"  -> Fail(n)
          [] OTHER           -> Node(n, f.out)

block(s) ==
    LET l == Call("statementList", Consume(s))
    IN  CASE Tok(s) # "{"    -> Null(s)
          [] Tok(l) # "}"    -> Null(Error(l))
          [] OTHER           -> Node(Consume(l), "block")

-----------------------------------------------------------------------------
(* The function behind the name of a rule.                                 *)
Apply(rule, s) ==
    CASE rule = "identifier" -> identifier(s)
      [] rule = "typeSpecifier" -> typeSpecifier(s)
      [] rule = "objectDecompositorProperty" -> objectDecompositorProperty(s)
      [] rule = "typedAssignable" -> typedAssignable(s)
      [] rule = "typedParameter" -> typedParameter(s)
      [] rule = "parameter" -> parameter(s)
      [] rule = "expressionSequence" -> expressionSequence(s)
      [] rule = "typeModifier" -> typeModifier(s)
      [] rule = "templateArgs" -> templateArgs(s)
      [] rule = "typeProperty" -> typeProperty(s)
      [] rule = "maybeTypedParameterList" -> maybeTypedParameterList(s)
      [] rule = "parenthesizedTypeSpecifier" -> parenthesizedTypeSpecifier(s)
      [] rule = "expression" -> expression(s)
      [] rule = "singleExpression" -> singleExpression(s)
      [] rule = "objectLiteralPropertyExpected" -> objectLiteralProperty(s, TRUE)
      [] rule = "objectLiteralPropertyMaybe" -> objectLiteralProperty(s, FALSE)
      [] rule = "expressionSequenceGroup" -> expressionSequenceGroup(s)
      [] rule = "memberExpression" -> memberExpression(s)
      [] rule = "arguments" -> arguments(s)
      [] rule = "newExpression" -> newExpression(s)
      [] rule = "leftHandSideExpression" -> leftHandSideExpression(s)
      [] rule = "postfixExpression" -> postfixExpression(s)
      [] rule = "unaryExpression" -> unaryExpression(s)
      [] rule = "logicalOrExpression" -> logicalOrExpression(s)
      [] rule = "assignmentExpression" -> assignmentExpression(s)
      [] rule = "conditionalExpression" -> conditionalExpression(s)
      [] rule = "variableDecl" -> variableDecl(s)
      [] rule = "typedParameterList" -> typedParameterList(s)
      [] rule = "block" -> block(s)
      [] rule = "templateParams" -> templateParams(s)
      [] rule = "parameterList" -> parameterList(s)
      [] rule = "functionDecl" -> functionDecl(s)
      [] rule = "eosRequired" -> eosRequired(s)
      [] rule = "switchCase" -> switchCase(s)
      [] rule = "casesOf" -> array_of(s, "switchCase")
      [] rule = "membersOf" -> array_of(s, "classPropertyOrMethod")
      [] rule = "statement" -> statement(s)
      [] rule = "catchBlock" -> catchBlock(s)
      [] rule = "symbolImport" -> symbolImport(s)
      [] rule = "declaration" -> declaration(s)
      [] rule = "statementList" -> statementList(s)
      [] rule = "assignable" -> assignable(s)
      [] rule = "numberLiteral" -> numberLiteral(s)
      [] rule = "stringLiteral" -> stringLiteral(s)
      [] rule = "templateStringLiteral" -> templateStringLiteral(s)
      [] rule = "arrayLiteral" -> arrayLiteral(s)
      [] rule = "objectLiteral" -> objectLiteral(s)
      [] rule = "maybeParameterList" -> maybeParameterList(s)
      [] rule = "functionExpression" -> functionExpression(s)
      [] rule = "primaryExpression" -> primaryExpression(s)
      [] rule = "callExpression" -> callExpression(s)
      [] rule = "objectDecompositor" -> objectDecompositor(s)
      [] rule = "variableStatement" -> variableStatement(s)
      [] rule = "classDef" -> classDef(s)
      [] rule = "typeDef" -> typeDef(s)
      [] rule = "functionDef" -> functionDef(s)
      [] rule = "variableDeclList" -> variableDeclList(s)
      [] rule = "typedIdentifier" -> typedIdentifier(s)
      [] rule = "importModule" -> importModule(s)
      [] rule = "importList" -> importList(s)
      [] rule = "importStatement" -> importStatement(s)
      [] rule = "exportStatement" -> exportStatement(s)
      [] rule = "emptyStatement" -> emptyStatement(s)
      [] rule = "placementNewStatement" -> placementNewStatement(s)
      [] rule = "expressionStatement" -> expressionStatement(s)
      [] rule = "ifStatement" -> ifStatement(s)
      [] rule = "iterationStatement" -> iterationStatement(s)
      [] rule = "continueStatement" -> continueStatement(s)
      [] rule = "breakStatement" -> breakStatement(s)
      [] rule = "deleteStatement" -> deleteStatement(s)
      [] rule = "returnStatement" -> returnStatement(s)
      [] rule = "switchStatement" -> switchStatement(s)
      [] rule = "throwStatement" -> throwStatement(s)
      [] rule = "tryStatement" -> tryStatement(s)
      [] rule = "eos" -> eos(s)
      [] rule = "multiplicativeExpression" -> multiplicativeExpression(s)
      [] rule = "additiveExpression" -> additiveExpression(s)
      [] rule = "shiftExpression" -> shiftExpression(s)
      [] rule = "relationalExpression" -> relationalExpression(s)
      [] rule = "equalityExpression" -> equalityExpression(s)
      [] rule = "bitwiseAndExpression" -> bitwiseAndExpression(s)
      [] rule = "XOrExpression" -> XOrExpression(s)
      [] rule = "bitwiseOrExpression" -> bitwiseOrExpression(s)
      [] rule = "logicalAndExpression" -> logicalAndExpression(s)
      [] rule = "classPropertyOrMethod" -> classPropertyOrMethod(s)

(* A call of a rule.  What it returns is what the rule returns; the rest   *)
(* records what the rule itself did wrong (see Transactions): transactions *)
(* are counted by the logger, which all parsers of a source share, and a   *)
(* rule does not answer for the ones that the rules it calls left behind.  *)
Call(rule, s) ==
    IF s.fuel = 0 THEN Crash(s, "fuel")
    ELSE LET r   == Apply(rule, [s EXCEPT !.fuel = @ - 1])
             own == Len(r.logs) - Len(s.logs) - (r.owed - s.owed)
             mark(set, bad) == IF bad THEN set \cup {rule} ELSE set
         IN  [r EXCEPT !.fuel   = s.fuel,
                       !.owed   = @ + own,
                       !.leaks  = mark(@, own # 0),
                       !.strays = mark(@, ~Found(r) /\ own = 0 /\ Here(r) # Here(s)),
                       !.mute   = mark(@, r.out = "error" /\ r.msgs <= s.msgs)]
=============================================================================
