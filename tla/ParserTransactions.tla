------------------------- MODULE ParserTransactions -------------------------
(***************************************************************************)
(* Parsing a source: Parser::parse runs program, which reads statements    *)
(* until it finds none.  A step is a statement of the outermost list; the  *)
(* rules under it are those of ParserRules.  What matters is that the      *)
(* parser comes back to where it should be: that every transaction is      *)
(* ended by the rule that began it, that a rule that did not find what it  *)
(* describes leaves no trace, that an error comes with a message, that no  *)
(* rule follows a node that is missing, and that the loops end.  The       *)
(* places where the code falls short of this are named, so that the        *)
(* invariants say there are no others.                                     *)
(***************************************************************************)
EXTENDS ParserRules

CONSTANTS
    Sentences,  \* sources of the language: token sequences without the end
    Unreadable, \* those that are not accepted: see SentencesAcceptedApart
    Changes     \* tokens to put into them

VARIABLES
    parser,     \* the parser: a record, see Transactions
    first,      \* the first statement of the list: "null", "error" or its kind
    phase       \* "statements", "ended", "accepted" or "rejected"

vars == <<parser, first, phase>>

(***************************************************************************)
(* Sources: a sentence, or a sentence changed at one place: a token left   *)
(* out, put in or replaced, or the rest of the text lost.                  *)
(***************************************************************************)
ChangedAt(s, i) ==
    {RemoveAt(s, i), SubSeq(s, 1, i - 1)}
        \cup {InsertAt(s, i, t) : t \in Changes}
        \cup {ReplaceAt(s, i, t) : t \in Changes}
Sources == Sentences \cup UNION {UNION {ChangedAt(s, i) : i \in 1 .. Len(s)} : s \in Sentences}

Init ==
    /\ \E source \in Sources : parser = Start(Append(source, "eof"))
    /\ first = "null"
    /\ phase = "statements"

(* Mutant: goes on from where the erroneous statement began.               *)
StatementAgain ==
    /\ phase = "statements"
    /\ \E n \in {Call("statement", parser)} : LET e == skipToNextType(n, {";"}) IN
        /\ first' = IF first = "null" THEN n.out ELSE first
        /\ \/ Found(n) /\ (Parsed(n) \/ first = "null") /\ parser' = n /\ UNCHANGED phase
           \/ n.out = "error" /\ first # "null" /\ Tok(e) = ";"
              /\ parser' = [e EXCEPT !.pos = parser.pos] /\ UNCHANGED phase
           \/ n.out = "error" /\ first # "null" /\ Tok(e) # ";" /\ parser' = n /\ phase' = "ended"
           \/ ~Found(n) /\ parser' = n /\ phase' = "ended"

(* The loop of statementList: a statement, an error that is skipped to the *)
(* next semicolon, one that is not, or no statement.                       *)
Statement ==
    /\ phase = "statements"
    /\ \E n \in {Call("statement", parser)} : LET e == skipToNextType(n, {";"}) IN
        /\ first' = IF first = "null" THEN n.out ELSE first
        /\ \/ Found(n) /\ (Parsed(n) \/ first = "null") /\ parser' = n /\ UNCHANGED phase
           \/ n.out = "error" /\ first # "null" /\ Tok(e) = ";" /\ parser' = e /\ UNCHANGED phase
           \/ n.out = "error" /\ first # "null" /\ Tok(e) # ";" /\ parser' = n /\ phase' = "ended"
           \/ ~Found(n) /\ parser' = n /\ phase' = "ended"

(* program, after its statements.                                          *)
Finish ==
    /\ phase = "ended"
    /\ UNCHANGED first
    /\ \/ Tok(parser) # "eof" /\ parser' = Null(Error(parser)) /\ phase' = "rejected"
       \/ Tok(parser) = "eof" /\ parser' = Consume(parser)
          /\ phase' = IF first = "null" THEN "rejected" ELSE "accepted"

Next == Statement \/ Finish

Spec == Init /\ [][Next]_vars

Ended == phase \in {"accepted", "rejected"}
Source == Front(parser.toks)

-----------------------------------------------------------------------------
(* Types                                                                   *)
(* The parser is a stack of token indices and a stack of message counts.   *)
TypeOK ==
    /\ phase \in {"statements", "ended", "accepted", "rejected"}
    /\ parser.pos \in Seq(1 .. Len(parser.toks) + 1) /\ parser.pos # << >>
    /\ parser.logs \in Seq(0 .. parser.msgs) /\ parser.logs # << >>

-----------------------------------------------------------------------------
(* Safety                                                                  *)

(* The rules that can return with a transaction of theirs open, or having  *)
(* ended one of their caller's.                                            *)
Unbalanced == {"typeSpecifier", "callExpression", "classPropertyOrMethod",
               "placementNewStatement", "statement"}

(* Every transaction that a rule begins it ends, on every path, and it     *)
(* ends no other: only the named rules do not.  Without them the parser is *)
(* back at one position when a statement ends.  The two stacks agree, and  *)
(* what a revert drops is what was said since its begin: the last count is *)
(* the number of messages.  (A parser of a template string goes away with  *)
(* its positions, not with its counts.)                                    *)
TransactionsEndedApart ==
    /\ parser.leaks \subseteq Unbalanced
    /\ parser.leaks = {} => Len(parser.pos) = 1
    /\ Len(parser.logs) # Len(parser.pos) =>
           parser.leaks # {} /\ ToSet(parser.toks) \cap DOMAIN Fragments # {}
    /\ Last(parser.logs) = parser.msgs

(* The rules that can return no node and stand at another token than       *)
(* before: a rule that calls them reads on from there, unless it is in a   *)
(* transaction of its own.  (Where a transaction was left open, a revert   *)
(* goes back to where that one began, and any rule may stray.)             *)
Straying == {"templateArgs", "templateParams", "maybeParameterList", "typedParameterList",
             "objectLiteralPropertyMaybe", "importList", "block", "classDef",
             "exportStatement", "ifStatement", "iterationStatement", "switchStatement",
             "switchCase", "casesOf", "throwStatement", "catchBlock", "tryStatement"}
FailedRulesStayApart == parser.leaks = {} => parser.strays \subseteq Straying

(* A rule that returns an error node has left a message, and a source is   *)
(* rejected with a message.  Tokens are dropped without one only after the *)
(* expression in a template string.                                        *)
ErrorsExplained ==
    /\ parser.mute = {}
    /\ phase = "rejected" => parser.msgs > 0 \/ Source = << >>
    /\ parser.unread \subseteq {"templateStringLiteral"}

(* No rule follows or frees a node that it was not given, builds on one    *)
(* that is missing, or pops an empty stack: only the named rules do, and   *)
(* "revert" is that of placementNewStatement.                              *)
Crashing == {"expressionSequence", "variableDeclList", "leftHandSideExpression",
             "classDef", "typeDef", "functionDecl", "importList", "revert"}
NoCrashApart ==
    /\ parser.crashes \subseteq Crashing
    /\ "revert" \in parser.crashes => "placementNewStatement" \in parser.leaks

(* Every sentence is accepted without a message, apart from the ones that  *)
(* the parser is known not to read.                                        *)
SentencesAcceptedApart ==
    Ended /\ Source \in Sentences \ Unreadable => phase = "accepted" /\ parser.msgs = 0

(* A statement that was read is behind the parser, also when it was read   *)
(* after an error: the list of statements ends.                            *)
StatementsAdvance ==
    [][phase = "statements" /\ phase' = "statements" => Here(parser') > Here(parser)]_vars
=============================================================================
