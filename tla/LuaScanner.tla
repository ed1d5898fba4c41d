----------------------------- MODULE LuaScanner -----------------------------
(***************************************************************************)
(* How the engine reads a Lua settings file it is to import: the scanner   *)
(* of native/src/core.cpp as scan_setting runs it, one action for each     *)
(* turn of a loop of its.  Literals are masked, delimiters matched, table  *)
(* keys masked, and words looked for in what is left.                      *)
(*                                                                         *)
(* A source is a sequence of characters; what the loops do not tell apart  *)
(* is one letter.  Positions count from 1 and a span [b, e) excludes e.    *)
(***************************************************************************)
EXTENDS Naturals, Sequences, FiniteSets, FiniteSetsExt

CONSTANTS
  Characters,
  Sources,   (* contents of the files                                     *)
  Letters,   (* characters that begin identifiers, and go on with them    *)
  Digits,    (* characters that identifiers only go on with               *)
  Words      (* the prohibited words, in their order                      *)

Space == " "
Spaces == {Space, "\n"}
Quotes == {"'", "\""}
Separators == {"{", ","}
Closer == [d \in {"(", "{", "["} |-> CASE d = "(" -> ")" [] d = "{" -> "}" [] d = "[" -> "]"]

\* A word begins and ends as an identifier does; it may have a dot in it, and no space.
ASSUME ScannerAssumption ==
  /\ Space \in Characters /\ Sources \subseteq Seq(Characters)
  /\ (Letters \cup Digits) \cap (Spaces \cup Separators \cup {"="}) = {}
  /\ Words \in Seq(Seq(Characters \ {Space}) \ {<< >>})
  /\ \A i \in DOMAIN Words : {Words[i][1], Words[i][Len(Words[i])]} \subseteq Letters \cup Digits

VARIABLES
  source,      \* the file
  text,        \* what is left of it
  loop,        \* the loop that runs
  index,       \* where it is
  begin,       \* where the literal it is in began
  stack,       \* open delimiters
  malformed,
  remaining,   \* words still to be looked for
  findings,    \* words found, with their lines
  spans        \* history: the literals masked

scanVars == <<source, text, loop, index, begin, stack, malformed, remaining, findings, spans>>

ScanInit ==
  /\ source \in Sources /\ text = source /\ loop = "code" /\ index = 1 /\ begin = 0
  /\ stack = << >> /\ malformed = FALSE /\ remaining = Words /\ findings = {} /\ spans = {}

End == Len(source) + 1
At(s, i, c) == i \in DOMAIN s /\ s[i] = c
Occurs(s, pattern, i) ==
  i + Len(pattern) - 1 <= Len(s) /\ \A k \in DOMAIN pattern : s[i + k - 1] = pattern[k]

\* The level of the long bracket that opens at i: none, or the only one.
Levels(i) == {n \in 0..Len(source) :
  At(source, i, "[") /\ At(source, i + n + 1, "[") /\ \A k \in 1..n : source[i + k] = "="}

Close(n) == <<"]">> \o [k \in 1..n |-> "="] \o <<"]">>

\* Mutant: the first closing bracket of any level ends it.
AnyLongEnds(i, n) ==
  LET ends == {j \in (i + n + 2)..Len(source) : Occurs(source, Close(0), j)}
  IN  IF ends = {} THEN {} ELSE {Min(ends) + 2}

\* Where what opens a long bracket of level n at i ends: after the first closing
\* bracket of its level, or nowhere.
Brackets(i, n) == {j \in (i + n + 2)..Len(source) : Occurs(source, Close(n), j)}
LongEnds(i, n) == IF Brackets(i, n) = {} THEN {} ELSE {Min(Brackets(i, n)) + n + 2}

Blank(s, b, e) == [i \in DOMAIN s |-> IF i \in b..(e - 1) /\ s[i] # "\n" THEN Space ELSE s[i]]
Mask(b, e) == text' = Blank(text, b, e) /\ spans' = spans \cup {<<b, e>>}

Later == UNCHANGED <<source, stack, remaining, findings>>
-----------------------------------------------------------------------------
(* mask_lua_literals                                                        *)

Comment(i) == At(source, i, "-") /\ At(source, i + 1, "-")
Opens(i) == (i \in DOMAIN source /\ source[i] \in Quotes) \/ Comment(i) \/ Levels(i) # {}

OpenQuote ==
  /\ loop = "code" /\ index < End /\ source[index] \in Quotes
  /\ loop' = "quote" /\ begin' = index /\ index' = index + 1
  /\ Later /\ UNCHANGED <<text, malformed, spans>>

\* A character of a string; a backslash takes the next one with it.
InQuote ==
  /\ loop = "quote" /\ index < End /\ source[index] # source[begin]
  /\ index' = (IF source[index] = "\\" /\ index + 1 < End THEN index + 2 ELSE index + 1)
  /\ Later /\ UNCHANGED <<text, loop, begin, malformed, spans>>

CloseQuote ==
  /\ loop = "quote" /\ (index < End => source[index] = source[begin])
  /\ malformed' = (malformed \/ index >= End)
  /\ index' = (IF index < End THEN index + 1 ELSE index) /\ Mask(begin, index')
  /\ loop' = "code" /\ Later /\ UNCHANGED begin

LineComment ==
  /\ loop = "code" /\ Comment(index) /\ Levels(index + 2) = {}
  /\ index' = Min({End} \cup {j \in (index + 2)..Len(source) : source[j] = "\n"})
  /\ Mask(index, index') /\ Later /\ UNCHANGED <<loop, begin, malformed>>

\* --[[ ... ]] or [[ ... ]], of any level.
LongBracket ==
  /\ loop = "code" /\ Opens(index) /\ source[index] \notin Quotes
  /\ \E open \in {IF Comment(index) THEN index + 2 ELSE index} : \E n \in Levels(open) :
       /\ malformed' = (malformed \/ LongEnds(open, n) = {})
       /\ index' = (IF LongEnds(open, n) = {} THEN End ELSE Min(LongEnds(open, n)))
  /\ Mask(index, index') /\ Later /\ UNCHANGED <<loop, begin>>

Skip ==
  /\ loop = "code" /\ index < End /\ ~Opens(index) /\ index' = index + 1
  /\ Later /\ UNCHANGED <<text, loop, begin, malformed, spans>>

Masked ==
  /\ loop = "code" /\ index >= End
  /\ loop' = (IF malformed THEN "done" ELSE "balance") /\ index' = 1
  /\ Later /\ UNCHANGED <<text, begin, malformed, spans>>

MaskLiterals ==
  OpenQuote \/ InQuote \/ CloseQuote \/ LineComment \/ LongBracket \/ Skip \/ Masked
-----------------------------------------------------------------------------
(* balanced_lua_delimiters                                                  *)

Pairs == UNCHANGED <<source, text, begin, remaining, findings, spans>>
Opener(c) == c \in DOMAIN Closer
Delimiter(c) == Opener(c) \/ \E d \in DOMAIN Closer : Closer[d] = c

\* Mutant: a closing delimiter closes whatever is open.
MatchAny ==
  /\ loop = "balance" /\ index < End /\ index' = index + 1 /\ UNCHANGED <<loop, malformed>> /\ Pairs
  /\ stack' = (IF Opener(text[index]) THEN Append(stack, text[index])
               ELSE IF Delimiter(text[index]) /\ stack # << >> THEN SubSeq(stack, 1, Len(stack) - 1)
               ELSE stack)

ClosesTop(c) == stack # << >> /\ Closer[stack[Len(stack)]] = c

Match ==
  /\ loop = "balance" /\ index < End /\ Pairs
  /\ LET c == text[index] IN
     \/ Opener(c) /\ stack' = Append(stack, c) /\ index' = index + 1 /\ UNCHANGED <<loop, malformed>>
     \/ ~Delimiter(c) /\ index' = index + 1 /\ UNCHANGED <<loop, malformed, stack>>
     \/ /\ Delimiter(c) /\ ~Opener(c) /\ ClosesTop(c)
        /\ stack' = SubSeq(stack, 1, Len(stack) - 1) /\ index' = index + 1
        /\ UNCHANGED <<loop, malformed>>
     \/ /\ Delimiter(c) /\ ~Opener(c) /\ ~ClosesTop(c)
        /\ malformed' = TRUE /\ loop' = "done" /\ UNCHANGED <<index, stack>>

Matched ==
  /\ loop = "balance" /\ index >= End /\ UNCHANGED stack /\ Pairs
  /\ malformed' = (stack # << >>) /\ loop' = (IF stack = << >> THEN "keys" ELSE "done") /\ index' = 1
-----------------------------------------------------------------------------
(* mask_lua_table_keys                                                      *)

Letter(s, i) == i \in DOMAIN s /\ s[i] \in Letters
Ident(s, i) == i \in DOMAIN s /\ s[i] \in Letters \cup Digits

\* The character next to the spaces at or after i, or at or before i.
After(s, i) == Min({Len(s) + 1} \cup {j \in i..Len(s) : s[j] \notin Spaces})
Before(s, i) == Max({0} \cup {j \in 1..i : s[j] \notin Spaces})

\* The end of the identifier that begins at i.
RunEnd(s, i) == Min({Len(s) + 1} \cup {j \in i..Len(s) : ~Ident(s, j)})

Key(s, b, e) == At(s, After(s, e), "=") /\ \E c \in Separators : At(s, Before(s, b - 1), c)

MaskKey ==
  /\ loop = "keys" /\ index < End
  /\ IF Letter(text, index)
     THEN /\ index' = RunEnd(text, index)
          /\ text' = IF Key(text, index, index') THEN Blank(text, index, index') ELSE text
     ELSE index' = index + 1 /\ UNCHANGED text
  /\ Later /\ UNCHANGED <<loop, begin, malformed, spans>>

KeysMasked ==
  /\ loop = "keys" /\ index >= End /\ loop' = "words" /\ index' = 1
  /\ Later /\ UNCHANGED <<text, begin, malformed, spans>>
-----------------------------------------------------------------------------
(* scan_lua                                                                 *)

LineAt(s, i) == 1 + Cardinality({j \in 1..(i - 1) : s[j] = "\n"})
Whole(s, word, i) == Occurs(s, word, i) /\ ~Ident(s, i - 1) /\ ~Ident(s, i + Len(word))

Report(at) == findings' = findings \cup {[word |-> Head(remaining), line |-> LineAt(text, at)]}

\* The next occurrence of a word: the first that stands alone is reported, and one that
\* does not sends the search on from the next character.
Search(step) ==
  /\ loop = "words" /\ remaining # << >>
  /\ UNCHANGED <<source, text, loop, begin, stack, malformed, spans>>
  /\ LET found == {j \in index..Len(text) : Occurs(text, Head(remaining), j)} IN
     \/ found = {} /\ remaining' = Tail(remaining) /\ index' = 1 /\ UNCHANGED findings
     \/ /\ found # {} /\ Whole(text, Head(remaining), Min(found))
        /\ Report(Min(found)) /\ remaining' = Tail(remaining) /\ index' = 1
     \/ /\ found # {} /\ ~Whole(text, Head(remaining), Min(found))
        /\ index' = Min(found) + step /\ UNCHANGED <<remaining, findings>>

\* Mutant: only the first occurrence of a word is looked at.
LookOnce == Search(Len(text))

Look == Search(1)

Looked ==
  /\ loop = "words" /\ remaining = << >> /\ loop' = "done"
  /\ UNCHANGED <<source, text, index, begin, stack, malformed, remaining, findings, spans>>

ScanNext == MaskLiterals \/ Match \/ Matched \/ MaskKey \/ KeysMasked \/ Look \/ Looked

ScanSpec == ScanInit /\ [][ScanNext]_scanVars
-----------------------------------------------------------------------------
(* What the loops are to compute, said of the source as a whole             *)

\* A character of a string that an odd number of backslashes comes before.
Escaped(b, k) ==
  \E n \in 1..(k - b - 1) :
    /\ n % 2 = 1 /\ \A j \in (k - n)..(k - 1) : source[j] = "\\"
    /\ k - n - 1 = b \/ source[k - n - 1] # "\\"

\* Where the literal that opens at b is closed, if it is.
StringCloses(b) == {k + 1 : k \in {j \in (b + 1)..Len(source) : source[j] = source[b] /\ ~Escaped(b, j)}}
LineCloses(b) == {k \in (b + 2)..Len(source) : source[k] = "\n"} \cup {End}
LongCloses(open) == UNION {{j + n + 2 : j \in Brackets(open, n)} : n \in Levels(open)}
Closes(b) ==
  IF source[b] \in Quotes THEN StringCloses(b)
  ELSE IF Comment(b) /\ Levels(b + 2) = {} THEN LineCloses(b)
  ELSE LongCloses(IF Comment(b) THEN b + 2 ELSE b)

LiteralEnd(b) == IF Closes(b) = {} THEN End ELSE Min(Closes(b))
Inside(i) == \E s \in spans : i \in s[1]..(s[2] - 1)
WithoutLiterals == [i \in DOMAIN source |-> IF Inside(i) /\ source[i] # "\n" THEN Space ELSE source[i]]

\* The delimiters of a text are nested if each that opens can be given one that closes
\* it, such that two pairs are apart or one is within the other and none is left over.
Ups(t) == {i \in DOMAIN t : Opener(t[i])}
Downs(t) == {i \in DOMAIN t : Delimiter(t[i]) /\ ~Opener(t[i])}
Pairing(t, m) ==
  /\ {m[i] : i \in Ups(t)} = Downs(t)
  /\ \A i \in Ups(t) : i < m[i] /\ t[m[i]] = Closer[t[i]]
  /\ \A i, j \in Ups(t) : i < j => m[i] < j \/ m[j] < m[i]
Nested(t) == \E m \in [Ups(t) -> Downs(t)] : Pairing(t, m)

\* i is in an identifier that is the key of a table; what a key is next to makes the
\* identifier a whole one.
InKey(t, i) == \E b \in 1..i, e \in (i + 1)..(Len(t) + 1) :
  Letter(t, b) /\ (\A j \in b..(e - 1) : Ident(t, j)) /\ Key(t, b, e)

\* Where a word stands alone and is no key of a table.
Uses(t, word) == {i \in DOMAIN t : Whole(t, word, i) /\ \A j \in i..(i + Len(word) - 1) : ~InKey(t, j)}
-----------------------------------------------------------------------------
(* Properties                                                               *)

\* Every variable stays in its type; the one type invariant of this module.
ScanTypeOK ==
  /\ source \in Seq(Characters) /\ text \in Seq(Characters) /\ Len(text) = Len(source)
  /\ loop \in {"code", "quote", "balance", "keys", "words", "done"}
  /\ index \in Nat \ {0} /\ begin \in Nat /\ malformed \in BOOLEAN
  /\ stack \in Seq(DOMAIN Closer)
  /\ remaining \in Seq(Seq(Characters)) /\ spans \subseteq (Nat \X Nat)
  /\ findings \subseteq [word : Seq(Characters), line : Nat \ {0}]

\* What is masked are the literals of the source, all and no more: each span opens and
\* closes as a string, comment or long bracket of its level does, spans do not overlap,
\* nothing opens outside them, and the lines stay where they were, as findings name them.
MasksTheLiterals == loop \notin {"code", "quote"} =>
  /\ \A s \in spans : Opens(s[1]) /\ s[2] = LiteralEnd(s[1])
  /\ \A s, t \in spans : s # t => s[2] <= t[1] \/ t[2] <= s[1]
  /\ \A i \in DOMAIN source : Opens(i) => Inside(i)
  /\ loop = "balance" => text = WithoutLiterals

\* A file is called malformed when a literal in it is not closed or the delimiters
\* outside of literals are not nested, and never otherwise.
MalformedIsTrue == loop \in {"keys", "words", "done"} =>
  (malformed <=> \/ \E s \in spans : Closes(s[1]) = {}
                 \/ ~Nested(WithoutLiterals))

\* The words reported are those that stand alone, outside of literals and of the keys of
\* tables, each with the line of its first such use in the file as it was written;
\* that keys are masked one after the other, in the text that is being searched for the
\* next one, makes no difference.
ReportsTheWords == loop = "done" /\ ~malformed =>
  findings = {[word |-> w, line |-> LineAt(source, Min(Uses(WithoutLiterals, w)))] :
                w \in {v \in {Words[i] : i \in DOMAIN Words} : Uses(WithoutLiterals, v) # {}}}
=============================================================================
