---------------------------- MODULE MCLuaScanner ----------------------------
(* Instances of LuaScanner for TLC: all files of a few tokens, each file of *)
(* one of three kinds: literals, delimiters, and the keys of tables.        *)
EXTENDS LuaScanner, SequencesExt

CONSTANTS MaxLiteralTokens, MaxTokens

LiteralTokens == {<<"'">>, <<"\"">>, <<"\\">>, <<"-">>, <<"-", "-">>, <<"[">>, <<"[", "[">>,
  <<"]", "]">>, <<"[", "=", "[">>, <<"]", "=", "]">>, <<"\n">>, <<"i", "o">>}
DelimiterTokens == {<<"{">>, <<"}">>, <<"(">>, <<")">>, <<"i">>}
KeyTokens == {<<"{">>, <<"}">>, <<",">>, <<"=">>, <<"i", "o">>, <<"i">>, <<"0">>, <<" ">>}

Texts(tokens, n) == {FlattenSeq(s) : s \in UNION {[1..k -> tokens] : k \in 0..n}}
InstanceSources == Texts(LiteralTokens, MaxLiteralTokens) \cup
  Texts(DelimiterTokens, MaxTokens) \cup Texts(KeyTokens, MaxTokens)
InstanceCharacters == UNION {ToSet(s) : s \in LiteralTokens \cup DelimiterTokens \cup KeyTokens}
InstanceWords == <<<<"i", "o">>, <<"i">>>>
=============================================================================
