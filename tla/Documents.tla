------------------------------- MODULE Documents -------------------------------
(***************************************************************************)
(* Tools for the repository's documents (stage 39): bilingual-doc-checker, *)
(* markdown-parser, link-checker and text-diff.  obj is a text, one symbol *)
(* or line longer with each step.                                          *)
(***************************************************************************)
EXTENDS Naturals, Sequences, SequencesExt, FiniteSets, FiniteSetsExt

CONSTANTS MaxSymbols, MaxLines   \* bounds: of a text

VARIABLES obj, abs

Longer(symbols, max) == Len(obj) < max /\ (\E c \in symbols : obj' = Append(obj, c)) /\ UNCHANGED abs
At(s, i) == IF i \in DOMAIN s THEN s[i] ELSE "end"
-----------------------------------------------------------------------------
(* Code: stripComments, blankStrings and tokenize.  Of the symbols, two    *)
(* are quotes, B is a backslash and 1 a digit.                             *)
Q == "quote"
A == "apostrophe"
B == "backslash"
CodeSymbols == {Q, A, B, "/", "*", "nl", "1", "a"}

RECURSIVE stripped(_, _, _, _), blanked(_, _, _, _), tokens(_, _), quoted(_, _), lineEnd(_, _), commentEnd(_, _)
lineEnd(s, i) == IF i > Len(s) \/ s[i] = "nl" THEN i ELSE lineEnd(s, i + 1)
commentEnd(s, i) == IF i >= Len(s) THEN Len(s) + 1 ELSE IF s[i] = "*" /\ s[i + 1] = "/" THEN i + 2 ELSE commentEnd(s, i + 1)
\* An apostrophe between digits separates them.
Separates(s, i, out) == s[i] = A /\ out # <<>> /\ Last(out) = "1" /\ At(s, i + 1) = "1"
Opens(s, i, out) == s[i] = Q \/ (s[i] = A /\ ~Separates(s, i, out))

\* in: the quote of the literal that is being read, or code.
stripped(s, i, in, out) ==
  CASE i > Len(s) -> out
    [] in # "code" /\ s[i] = B /\ i < Len(s) -> stripped(s, i + 2, in, out \o <<B, s[i + 1]>>)
    [] in # "code" /\ ~(s[i] = B /\ i < Len(s)) -> stripped(s, i + 1, IF s[i] = in THEN "code" ELSE in, Append(out, s[i]))
    [] in = "code" /\ s[i] = "/" /\ At(s, i + 1) = "/" -> stripped(s, lineEnd(s, i), in, out)
    [] in = "code" /\ s[i] = "/" /\ At(s, i + 1) = "*" -> stripped(s, commentEnd(s, i + 2), in, Append(out, " "))
    [] OTHER -> stripped(s, i + 1, IF Opens(s, i, out) THEN s[i] ELSE in, Append(out, s[i]))
stripComments(s) == stripped(s, 1, "code", <<>>)

blanked(s, i, in, out) ==
  CASE i > Len(s) -> out
    [] in # "code" /\ s[i] = B /\ i < Len(s) -> blanked(s, i + 2, in, out)
    [] in # "code" /\ s[i] = in -> blanked(s, i + 1, "code", Append(out, s[i]))
    [] in # "code" /\ s[i] # in /\ ~(s[i] = B /\ i < Len(s)) -> blanked(s, i + 1, in, out)
    [] OTHER -> blanked(s, i + 1, IF Opens(s, i, out) THEN s[i] ELSE in, Append(out, s[i]))
blankStrings(s) == blanked(s, 1, "code", <<>>)

\* Where the literal ends that begins at i with s[i].
quoted(s, i) ==
  LET end[j \in i + 1..Len(s) + 2] ==
        IF j > Len(s) THEN Len(s) + 1
        ELSE IF s[j] = B /\ j < Len(s) THEN end[j + 2] ELSE IF s[j] = s[i] THEN j + 1 ELSE end[j + 1] IN
  end[i + 1]
wordEnd(s, i) ==
  LET end[j \in i..Len(s) + 1] ==
        IF At(s, j) \in {"1", "a"} \/ (s[i] = "1" /\ At(s, j) = A /\ At(s, j + 1) = "1") THEN end[j + 1] ELSE j IN
  end[i]
tokens(s, i) ==
  LET Token(end) == <<SubSeq(s, i, end - 1)>> \o tokens(s, end) IN
  CASE i > Len(s) -> <<>>
    [] At(s, i) \in {"nl", " "} -> tokens(s, i + 1)
    [] At(s, i) \in {"1", "a"} -> Token(wordEnd(s, i))
    [] At(s, i) \in {Q, A} -> Token(quoted(s, i))
    [] OTHER -> Token(i + 1)
tokenize(s) == tokens(s, 1)
codeEquivalent(a, b) == tokenize(stripComments(a)) = tokenize(stripComments(b))
codeEquivalentIgnoringStrings(a, b) ==
  tokenize(blankStrings(stripComments(a))) = tokenize(blankStrings(stripComments(b)))

CodeInit == obj = <<>> /\ abs = <<>>
CodeNext == Longer(CodeSymbols, MaxSymbols)

\* Code without its comments is equivalent to it and has no comment; what is left
\* of literals is their quotes; the tokens have all that is not white space; and
\* equivalent code is equivalent when literals are ignored.
CommentsDontMatter ==
  LET code == stripComments(obj)
      Solid(s) == SelectSeq(s, LAMBDA c : c \notin {"nl", " "}) IN
  /\ stripComments(code) = code
  /\ blankStrings(blankStrings(code)) = blankStrings(code)
  /\ Solid(FlattenSeq(tokenize(code))) = Solid(code)
  /\ \A more \in {<<"/", "/", Q, "a">>, <<"/", "*", Q, "/", "*", "/">>, <<Q, "a">>, <<"nl">>} :
       codeEquivalent(obj \o more, obj) => codeEquivalentIgnoringStrings(obj \o more, obj)
-----------------------------------------------------------------------------
(* Structure: lines are fences of a character and a length, headings with  *)
(* a level and a language, and others, which are prose unless they are     *)
(* code.                                                                   *)
Lines == {[kind |-> "fence", char |-> c, run |-> r] : c \in {"grave", "tilde"}, r \in {3, 4}}
         \union {[kind |-> "heading", level |-> n, language |-> "en"] : n \in {1, 2}}
         \union {[kind |-> "text", language |-> l] : l \in {"en", "zh", "none"}}
Closes(line, fence) == line.kind = "fence" /\ line.char = fence.char /\ line.run >= fence.run
NoFence == [kind |-> "none"]

\* Each line's place: prose, fence, or the line of the fence whose code it is.
Scan(doc) ==
  FoldLeft(LAMBDA st, line :
             IF st.fence = NoFence
             THEN IF line.kind = "fence" THEN [st EXCEPT !.fence = line, !.place = Append(@, "fence"), !.from = Len(st.place) + 1]
                  ELSE [st EXCEPT !.place = Append(@, "prose")]
             ELSE IF Closes(line, st.fence) THEN [fence |-> NoFence, from |-> 0, place |-> Append(st.place, "fence"), closed |-> st.closed \union {st.from}]
                  ELSE [st EXCEPT !.place = Append(@, "code")],
           [fence |-> NoFence, place |-> <<>>, from |-> 0, closed |-> {}], doc)
Selected(doc, place) == LET S == Scan(doc).place IN
  FoldLeft(LAMBDA st, line : [n |-> st.n + 1, out |-> IF S[st.n + 1] = place THEN Append(st.out, line) ELSE st.out],
           [n |-> 0, out |-> <<>>], doc).out
stripCodeBlocks(doc) == Selected(doc, "prose")
extractHeadings(doc) == LET hs == SelectSeq(stripCodeBlocks(doc), LAMBDA l : l.kind = "heading") IN [i \in DOMAIN hs |-> hs[i].level]
\* By the line of the fence that opens it; a block that is not closed is none.
extractCodeBlocks(doc) ==
  LET S == Scan(doc)
      fences == SetToSortSeq(S.closed, <)
      Code(f) == LET after == {i \in DOMAIN doc : i > f /\ S.place[i] = "fence"} IN SubSeq(doc, f + 1, Min(after) - 1) IN
  [b \in DOMAIN fences |-> Code(fences[b])]
detectLanguage(doc) ==
  LET prose == SelectSeq(stripCodeBlocks(doc), LAMBDA l : l.kind = "heading" \/ l.language # "none")
      Count(l) == Len(SelectSeq(prose, LAMBDA p : p.language = l)) IN
  IF prose = <<>> THEN "unknown" ELSE IF Count("zh") > Count("mixed") THEN "zh" ELSE "en"
\* Pairs of blocks are compared as code, which is here their lines.
comparePair(en, zh) ==
  LET h == extractHeadings(en) i == extractHeadings(zh)
      b == extractCodeBlocks(en) c == extractCodeBlocks(zh) IN
  {issue \in {"EnglishBodyIsChinese", "ChineseBodyIsEnglish", "HeadingCountMismatch", "HeadingLevelMismatch",
              "CodeBlockCountMismatch", "CodeBlockMismatch"} :
     CASE issue = "EnglishBodyIsChinese" -> detectLanguage(en) = "zh"
       [] issue = "ChineseBodyIsEnglish" -> detectLanguage(zh) = "en"
       [] issue = "HeadingCountMismatch" -> Len(h) # Len(i)
       [] issue = "HeadingLevelMismatch" -> Len(h) = Len(i) /\ h # i
       [] issue = "CodeBlockCountMismatch" -> Len(b) # Len(c)
       [] OTHER -> Len(b) = Len(c) /\ b # c}

\* An English document, and the Chinese one that is made of it by an edit.
Translated(line) == IF line.kind = "text" /\ line.language = "en" THEN [line EXCEPT !.language = "zh"] ELSE line
Translation(doc) == [i \in DOMAIN doc |-> IF Scan(doc).place[i] = "prose" THEN Translated(doc[i]) ELSE doc[i]]
PairInit == obj = <<>> /\ abs = <<>>
PairNext == Longer(Lines, MaxLines - 1)

\* A document and its translation differ in nothing but that a body without text
\* counts as not translated; if a line of closed code, a heading, or a fence that
\* closes a block is left out of the translation, an issue is found.
EditsAreFound ==
  LET zh == Translation(obj)
      S == Scan(obj)
      structure == comparePair(obj, zh) \ {"EnglishBodyIsChinese", "ChineseBodyIsEnglish"}
      untranslated == \A i \in DOMAIN obj : S.place[i] = "prose" => obj[i].kind = "heading" \/ obj[i].language # "en" IN
  /\ structure = {}
  /\ extractHeadings(stripCodeBlocks(obj)) = extractHeadings(obj)
  /\ untranslated \/ "ChineseBodyIsEnglish" \notin comparePair(obj, zh)
  /\ \A i \in DOMAIN obj :
       (S.place[i] = "prose" /\ obj[i].kind = "heading") \/ (S.fence = NoFence /\ S.place[i] = "code")
       => comparePair(obj, RemoveAt(zh, i)) \ {"EnglishBodyIsChinese", "ChineseBodyIsEnglish"} # {}
-----------------------------------------------------------------------------
(* markdown_parser: the blocks that parseBlocks makes of lines, each with  *)
(* its lines; a line is named by its kind.                                 *)
MarkdownLines == {"fence", "heading", "item", "quote", "blank", "text"}
flushPara(st) == IF st.para = <<>> THEN st ELSE [st EXCEPT !.blocks = Append(@, <<"paragraph", st.para>>), !.para = <<>>]
\* A closed fence's block is pushed without the lines that were collected.
step(st, kind) ==
  LET n == st.n + 1
      f == [flushPara(st) EXCEPT !.n = n]
      closed == [st EXCEPT !.n = n, !.inCode = FALSE, !.para = <<>>, !.blocks = Append(@, <<"code", <<>>>>)] IN
  CASE kind = "fence" -> IF st.inCode THEN closed ELSE [f EXCEPT !.inCode = TRUE]
    [] kind # "fence" /\ st.inCode -> [st EXCEPT !.n = n, !.para = Append(@, n)]
    [] kind = "blank" /\ ~st.inCode -> f
    [] kind = "text" /\ ~st.inCode -> [st EXCEPT !.n = n, !.para = Append(@, n)]
    [] OTHER -> [f EXCEPT !.blocks = Append(@, <<kind, <<n>>>>)]
parseBlocks(doc) ==
  LET st == FoldLeft(step, [n |-> 0, inCode |-> FALSE, para |-> <<>>, blocks |-> <<>>], doc) IN
  IF st.inCode THEN Append(st.blocks, <<"code", st.para>>) ELSE flushPara(st).blocks

MarkdownInit == obj = <<>> /\ abs = <<>>
MarkdownNext == Longer(MarkdownLines, MaxLines)

\* Every line that is not blank, a fence or in a fenced block that is closed is in
\* one block, in the order of the lines, and of the kind the line is of; the lines
\* of a closed one are in none.
LinesInBlocks ==
  LET blocks == parseBlocks(obj)
      InCode(i) == Cardinality({j \in 1..i : obj[j] = "fence"}) % 2 = 1
      Closed(i) == InCode(i) /\ \E j \in i + 1..Len(obj) : obj[j] = "fence"
      kept == {i \in DOMAIN obj : obj[i] # "fence" /\ ~Closed(i) /\ (obj[i] = "blank" => InCode(i))} IN
  /\ FlattenSeq([b \in DOMAIN blocks |-> blocks[b][2]]) = SetToSortSeq(kept, <)
  /\ \A b \in DOMAIN blocks : \A i \in DOMAIN blocks[b][2] :
       LET n == blocks[b][2][i] IN blocks[b][1] = IF InCode(n) THEN "code" ELSE IF obj[n] = "text" THEN "paragraph" ELSE obj[n]
-----------------------------------------------------------------------------
(* The links of a line, for markdown_parser and for link_checker: where    *)
(* their target is.                                                        *)
LinkSymbols == {"[", "]", "(", ")"}
Find(s, c, from) == LET at == {i \in DOMAIN s : i >= from /\ s[i] = c} IN IF at = {} THEN 0 ELSE Min(at)
Bracket(s, pos) == \E i \in 1..pos : s[i] = "["
FindPair(s, from) == LET at == {i \in DOMAIN s : i >= from /\ s[i] = "]" /\ At(s, i + 1) = "("} IN IF at = {} THEN 0 ELSE Min(at)

RECURSIVE extractLinks(_, _), extractFromLine(_, _)
extractLinks(s, from) ==
  LET pos == Find(s, "]", from)
      close == Find(s, ")", pos + 2) IN
  CASE pos = 0 -> <<>>
    [] pos # 0 /\ (~Bracket(s, pos) \/ At(s, pos + 1) # "(") -> extractLinks(s, pos + 1)
    [] OTHER -> IF close = 0 THEN <<>> ELSE <<pos>> \o extractLinks(s, close + 1)
extractFromLine(s, from) ==
  LET pos == FindPair(s, from)
      close == Find(s, ")", pos + 2) IN
  IF pos = 0 \/ close = 0 \/ ~Bracket(s, pos) THEN <<>> ELSE <<pos>> \o extractFromLine(s, close + 1)

LinksInit == obj = <<>> /\ abs = <<>>
LinksNext == Longer(LinkSymbols, MaxSymbols + 1)

\* Both tools find the same links, but that the checker finds none after a pair
\* of brackets that nothing opens.
SameLinks ==
  LET checked == extractFromLine(obj, 1)
      parsed == extractLinks(obj, 1) IN
  checked = parsed \/ (checked = <<>> /\ FindPair(obj, 1) # 0 /\ ~Bracket(obj, FindPair(obj, 1)))
-----------------------------------------------------------------------------
(* normalizePath: obj are the segments, abs says whether the path begins   *)
(* with a slash.                                                           *)
Names == {"a", "b", ".", "..", ""}
Up(parts, absolute, seg) ==
  CASE seg \in {"", "."} -> parts
    [] seg = ".." -> IF parts # <<>> /\ Last(parts) # ".." THEN Front(parts) ELSE IF absolute THEN parts ELSE Append(parts, "..")
    [] OTHER -> Append(parts, seg)
normalizePath(path, absolute) == FoldLeft(LAMBDA p, seg : Up(p, absolute, seg), <<>>, path)

PathInit == obj = <<>> /\ abs \in BOOLEAN
PathNext == Longer(Names, MaxSymbols)

\* Where one comes to from a directory on a path: up from the root is the root.
Walk(from, path) ==
  FoldLeft(LAMBDA at, seg : CASE seg \in {"", "."} -> at
                              [] seg = ".." -> IF at = <<>> THEN at ELSE Front(at)
                              [] OTHER -> Append(at, seg), from, path)
\* The normal form leads to the same place, from a directory that is deep enough
\* or from the root, and has no segment that it could do without.
SamePlace ==
  LET n == normalizePath(obj, abs)
      from == IF abs THEN <<>> ELSE [i \in 1..MaxSymbols |-> "d"] IN
  /\ Walk(from, n) = Walk(from, obj)
  /\ normalizePath(n, abs) = n
  /\ \A i \in DOMAIN n : n[i] \notin {"", "."} /\ (n[i] = ".." => ~abs /\ \A j \in 1..i : n[j] = "..")
-----------------------------------------------------------------------------
(* text_diff: obj and abs are the lines before and after.                  *)
DiffInit == obj = <<>> /\ abs = <<>>
DiffNext ==
  \E c \in {"x", "y"} :
    \/ Len(obj) < MaxLines - 1 /\ obj' = Append(obj, c) /\ UNCHANGED abs
    \/ Len(abs) < MaxLines - 1 /\ abs' = Append(abs, c) /\ UNCHANGED obj

diffLines(a, b) ==
  LET dp[i \in 1..Len(a) + 1, j \in 1..Len(b) + 1] ==
        IF i > Len(a) \/ j > Len(b) THEN 0
        ELSE IF a[i] = b[j] THEN dp[i + 1, j + 1] + 1
        ELSE IF dp[i + 1, j] >= dp[i, j + 1] THEN dp[i + 1, j] ELSE dp[i, j + 1]
      hunks[i \in 1..Len(a) + 1, j \in 1..Len(b) + 1] ==
        CASE i > Len(a) /\ j > Len(b) -> <<>>
          [] i <= Len(a) /\ j <= Len(b) /\ At(a, i) = At(b, j) -> <<<<"Equal", a[i]>>>> \o hunks[i + 1, j + 1]
          [] j > Len(b) \/ (i <= Len(a) /\ j <= Len(b) /\ At(a, i) # At(b, j) /\ dp[i + 1, j] >= dp[i, j + 1])
             -> <<<<"Delete", a[i]>>>> \o hunks[i + 1, j]
          [] OTHER -> <<<<"Insert", b[j]>>>> \o hunks[i, j + 1] IN
  hunks[1, 1]
LinesOf(hunks, ops) == LET h == SelectSeq(hunks, LAMBDA x : x[1] \in ops) IN [i \in DOMAIN h |-> h[i][2]]
Subsequences(s) == {[i \in 1..Cardinality(I) |-> s[SetToSortSeq(I, <)[i]]] : I \in SUBSET DOMAIN s}

\* A difference has the lines of both texts in their order, and no two texts
\* have more lines in common than it keeps.
DiffIsShortest ==
  LET h == diffLines(obj, abs)
      same == LinesOf(h, {"Equal"}) IN
  /\ LinesOf(h, {"Equal", "Delete"}) = obj
  /\ LinesOf(h, {"Equal", "Insert"}) = abs
  /\ \A s \in Subsequences(obj) \intersect Subsequences(abs) : Len(s) <= Len(same)
=============================================================================
