------------------------ MODULE MCParserTransactions ------------------------
(* One sentence or more for every construct, and every sentence that is    *)
(* one change away.                                                        *)
EXTENDS ParserTransactions

MCSentences == {
    <<"let", "id", ":", "id", "=", "id", "(", "num", ",", "str", ")", ";">>,
    <<"const", "{", "id", ":", "id", ",", "id", "}", "=", "id", ";">>,
    <<"id", "[", "id", "]", ".", "id", "=", "[", "num", ",", "num", "]", ";">>,
    <<"id", "=", "{", "id", ":", "num", ",", "id", ":", "str", "}", ";">>,
    <<"id", "=", "(", "id", ":", "id", ",", "id", ")", "=>", "{", "return", "id", ";", "}", ";">>,
    <<"id", "=", "sizeof", "<", "id", ">", "+", "-", "num", "*", "(", "id", "?", "num", ":", "num", ")", ";">>,
    <<"let", "id", ":", "{", "id", ":", "id", ";", "id", ":", "id", "[", "]", ";", "}", ",", "id", ";">>,
    <<"let", "id", ":", "(", "id", ":", "id", ")", "=>", "id", ";">>,
    <<"let", "id", ":", "(", "id", ")", "*", ";">>,
    <<"id", "<", "id", ">", "(", "id", ")", ".", "id", "[", "id", "]", "(", ")", ";">>,
    <<"id", "=", "new", "id", "<", "id", ",", "id", ">", "(", "num", ")", ";">>,
    <<"new", "id", "(", ")", "=>", "id", ";">>,
    <<"id", "=", "new", "(", "id", "(", ")", ".", "id", ")", "(", ")", ";">>,
    <<"class", "id", "<", "id", ">", "extends", "id", ",", "id", "{", "private", "static", "id", ":", "id", ";", "get", "id", "(", ")", ":", "id", "{", "}", "operator", "+", "(", "id", ":", "id", ")", ":", "id", "{", "}", "}", ";">>,
    <<"class", "id", "{", "operator", "id", "(", ")", "{", "}", "constructor", "(", ")", "{", "}", "operator", "[", "]", "(", "id", ":", "id", ")", ":", "id", "{", "}", "}", ";">>,
    <<"type", "id", "<", "id", ",", "id", ">", "=", "id", ";">>,
    <<"function", "id", "<", "id", ">", "(", "id", ":", "id", ",", "id", ")", "{", "return", ";", "}">>,
    <<"import", "{", "id", ":", "id", ",", "id", "as", "id", "}", "from", "str", ";">>,
    <<"id", ";", "import", "*", "as", "id", "from", "str", ";">>,
    <<"export", "function", "id", "(", ")", "{", "}">>,
    <<"if", "(", "id", ")", "{", "id", ";", "}", "else", "id", "++", ";">>,
    <<"for", "(", "let", "id", "=", "num", ";", "id", "<", "num", ";", "++", "id", ")", "{", "continue", ";", "}">>,
    <<"while", "(", "id", ")", "{", "break", ";", "}">>,
    <<"do", "id", ";", "while", "(", "id", ")", ";">>,
    <<"switch", "(", "id", ")", "{", "case", "num", ":", "id", ";", "case", "num", ":", "{", "}", "default", ":", "id", ";", "}">>,
    <<"throw", "id", ";", "delete", "id", ";">>,
    <<"try", "{", "}", "catch", "(", "id", ":", "id", ")", "{", "}">>,
    <<"while", "(", "id", ")", "id", ";">>,
    <<"id", "=", "tstr", ";">>,
    <<"tstr2", ";">>,
    <<"id", "=", "str*", ";">>,
    <<"id", "=", "id", "as", "id", ";">>,
    <<"id", ",", "id", ",", "id", ";">>}
MCChanges == {")", ";", ",", "=>"}
(* A try statement, a loop over one statement and a literal asterisk.      *)
MCTry == <<"try", "{", "}", "catch", "(", "id", ":", "id", ")", "{", "}">>
MCTrySentences == {MCTry}
MCUnreadable == {MCTry, <<"while", "(", "id", ")", "id", ";">>, <<"id", "=", "str*", ";">>}
(* The second has more in its braces than an expression.                   *)
MCFragments == [tstr |-> << <<"id", "+", "num", "eof">> >>, tstr2 |-> << <<"id", "id", "eof">> >>]
=============================================================================
