---------------------------- MODULE Transactions ----------------------------
(***************************************************************************)
(* Where a parser stands and what it has to say.  A Parser keeps a stack   *)
(* of token indices (m_currentIdx) and its Logger a stack of message       *)
(* counts (m_logCountStack); begin, revert and commit move both together,  *)
(* so that a rule can try a reading of the input and take it back, with    *)
(* the messages it caused.                                                 *)
(*                                                                         *)
(* A parser state is a record: its tokens, the two stacks (.pos and        *)
(* .logs), the number of messages (.msgs; what they say matters to no      *)
(* rule), the node the last rule returned (.out) and whether that node has *)
(* a following one (.more).  The fields below are not state of the         *)
(* program, they record for the properties what a rule did wrong:          *)
(*   leaks   rules that ended with more or fewer transactions than they    *)
(*           began with, apart from what the rules they called owed        *)
(*   strays  rules that returned null standing at another token            *)
(*   mute    rules that returned an error node and left no message         *)
(*   crashes rules that used a null node, or popped an empty stack         *)
(*   unread  rules that dropped tokens without reading them                *)
(* and .fuel bounds the depth of a parse.                                  *)
(***************************************************************************)
EXTENDS Integers, Sequences, FiniteSets, SequencesExt

(***************************************************************************)
(* Tokens are their text, except string literals, whose text is what they  *)
(* quote: the token "str*" is a literal whose text is an asterisk.         *)
(***************************************************************************)
Keywords == {"as", "break", "case", "catch", "class", "const", "continue", "default",
             "delete", "do", "else", "export", "extends", "false", "for", "from",
             "function", "get", "if", "import", "let", "new", "null", "operator",
             "private", "public", "return", "set", "sizeof", "static", "switch", "this",
             "throw", "true", "try", "type", "typeinfo", "while"}
Symbols == {"=", "+=", "<<=", "+", "-", "*", "/", "%", "<", ">", "<=", ">=", "==", "!=",
            "<<", ">>", "&", "|", "^", "&&", "||", "!", "~", "++", "--", "?"}
Text(t) == IF t = "str*" THEN "*" ELSE t

(***************************************************************************)
(* Logger                                                                  *)
(***************************************************************************)
LoggerBegin(s) == [s EXCEPT !.logs = Append(@, s.msgs)]

LoggerCommit(s) ==
    LET outer == Front(s.logs)
    IN  [s EXCEPT !.logs = IF outer = << >> THEN outer
                           ELSE [outer EXCEPT ![Len(outer)] = s.msgs]]

LoggerRevert(s) ==
    LET outer == Front(s.logs)
    IN  [s EXCEPT !.logs = outer,
                  !.msgs = IF outer # << >> /\ Last(outer) < @ THEN Last(outer) ELSE @]

LoggerSubmit(s) == [s EXCEPT !.msgs = @ + 1, !.logs[Len(s.logs)] = @ + 1]

(***************************************************************************)
(* Parser                                                                  *)
(***************************************************************************)
Begin(s) == LoggerBegin([s EXCEPT !.pos = Append(@, Last(@))])

(* Popping the last index leaves get() to read before the stack: the       *)
(* record keeps the stack as it was and remembers the crash.               *)
Revert(s) == IF Len(s.pos) = 1 THEN [s EXCEPT !.crashes = @ \cup {"revert"}]
             ELSE LoggerRevert([s EXCEPT !.pos = Front(@)])

Commit(s) == IF Len(s.pos) = 1 THEN [s EXCEPT !.crashes = @ \cup {"commit"}]
             ELSE LoggerCommit([s EXCEPT !.pos = Append(Front(Front(@)), Last(@))])

Consume(s) == [s EXCEPT !.pos[Len(s.pos)] = @ + 1]

Here(s) == Last(s.pos)
Tok(s)  == IF Here(s) > Len(s.toks) THEN "past" ELSE s.toks[Here(s)]

IsKeyword(s, t) == Tok(s) = t /\ t \in Keywords
IsSymbol(s, t)  == Tok(s) = t /\ t \in Symbols

(* Parser::error for a rule that goes on.                                  *)
Error(s) == LoggerSubmit(s)

(* What a rule returns: a node of kind k, no node, or the error node.      *)
Node(s, k) == [s EXCEPT !.out = k, !.more = FALSE]
Null(s)    == Node(s, "null")
Fail(s)    == Node(s, "error")
Crash(s, rule) == [Fail(s) EXCEPT !.crashes = @ \cup {rule}]

(* Whether a rule returned something, and something that is not an error.  *)
Found(s)  == s.out # "null"
Parsed(s) == s.out \notin {"null", "error"}

(***************************************************************************)
(* The skipping functions look for the first token of a set at or after    *)
(* the current one.  skipToNextType stays there, or where it was when it   *)
(* meets the end of input first; the others also stay where they were when *)
(* they meet a token they stop at.  NextOf is the token they return.       *)
(***************************************************************************)
First(s, stop) ==
    CHOOSE i \in Here(s) .. Len(s.toks) :
        /\ s.toks[i] \in stop \cup {"eof"}
        /\ \A j \in Here(s) .. i - 1 : s.toks[j] \notin stop \cup {"eof"}
NextOf(s, stop) == s.toks[First(s, stop)]

skipToNextType(s, stop) ==
    IF NextOf(s, stop) = "eof" THEN s ELSE [s EXCEPT !.pos[Len(s.pos)] = First(s, stop)]

skipToNextSymbol(s, symbol, stop) ==
    IF NextOf(s, {symbol} \cup stop) # symbol THEN s
    ELSE [s EXCEPT !.pos[Len(s.pos)] = First(s, {symbol} \cup stop)]

skipToNextKeyword(s, keyword, stop) == skipToNextSymbol(s, keyword, stop)

Start(tokens) == [toks |-> tokens, pos |-> <<1>>, logs |-> <<0>>, msgs |-> 0,
                  out |-> "null", more |-> FALSE, fuel |-> 150, owed |-> 0,
                  leaks |-> {}, strays |-> {}, mute |-> {}, crashes |-> {}, unread |-> {}]
=============================================================================
