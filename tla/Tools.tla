-------------------------------- MODULE Tools --------------------------------
(***************************************************************************)
(* The scripts under tools/ that read and write the documents: check_docs, *)
(* check_links, check_doc_examples, check_overview_parity and the scripts  *)
(* that link examples and reading lists.  The first two are twins of the   *)
(* programs of stage 39 that Documents has, with which they are compared.  *)
(***************************************************************************)
EXTENDS Documents

CONSTANTS Projects,   \* a set of projects
          shards      \* shards of the CI

\* Sequences of at most n elements, as texts that a step makes longer.
Grows(field, lines, n) ==
  Len(obj[field]) < n /\ (\E l \in lines : obj' = [obj EXCEPT ![field] = Append(@, l)]) /\ UNCHANGED abs
Count(s, c) == Len(SelectSeq(s, LAMBDA x : x = c))
Closing(c, s, from) == {j \in from..Len(s) : s[j] = c}
-----------------------------------------------------------------------------
(* check_docs.py: code.  A brace stands for the three kinds of brackets.   *)
PySymbols == (CodeSymbols \ {"a"}) \union {"{"}

RECURSIVE strip_comments_(_, _, _, _, _), drop_strings(_, _), unbalanced_(_, _, _, _, _)
\* last_was_digit is kept apart from what was put out.
strip_comments_(s, i, in, last_was_digit, out) ==
  LET c == At(s, i)
      Put(in_, digit) == strip_comments_(s, i + 1, in_, digit, Append(out, c)) IN
  CASE i > Len(s) -> out
    [] in # "code" /\ c = B /\ i < Len(s) -> strip_comments_(s, i + 2, in, FALSE, out \o <<c, s[i + 1]>>)
    [] in # "code" /\ ~(c = B /\ i < Len(s)) -> Put(IF c = in THEN "code" ELSE in, c = "1")
    [] in = "code" /\ c = A /\ last_was_digit /\ At(s, i + 1) = "1" -> Put(in, FALSE)
    [] in = "code" /\ c \in {Q, A} /\ ~(c = A /\ last_was_digit /\ At(s, i + 1) = "1") -> Put(c, FALSE)
    [] in = "code" /\ c = "/" /\ At(s, i + 1) = "/" -> strip_comments_(s, lineEnd(s, i), in, last_was_digit, out)
    [] in = "code" /\ c = "/" /\ At(s, i + 1) = "*" -> strip_comments_(s, commentEnd(s, i + 2), in, FALSE, Append(out, " "))
    [] OTHER -> Put(in, c = "1")
strip_comments(s) == strip_comments_(s, 1, "code", FALSE, <<>>)

\* The expression matches from a quote to the next that no backslash escapes, and
\* does not know that a quote may be a character.
StringEnd(s, i) ==
  LET end[j \in i + 1..Len(s) + 2] ==
        CASE j > Len(s) -> 0
          [] j <= Len(s) /\ At(s, j) = B -> IF At(s, j + 1) \in {"nl", "end"} THEN 0 ELSE end[j + 2]
          [] OTHER -> IF s[j] = Q THEN j ELSE end[j + 1] IN
  end[i + 1]
drop_strings(s, i) ==
  CASE i > Len(s) -> <<>>
    [] i <= Len(s) /\ At(s, i) = Q /\ StringEnd(s, i) # 0 -> <<Q, Q>> \o drop_strings(s, StringEnd(s, i) + 1)
    [] OTHER -> <<s[i]>> \o drop_strings(s, i + 1)
normalize_code(s) == tokenize(drop_strings(strip_comments(s), 1))

unbalanced_(s, i, in, last_digit, depth) ==
  LET c == At(s, i)
      separator == last_digit /\ At(s, i + 1) = "1" IN
  CASE i > Len(s) -> depth
    [] in = "line" /\ i <= Len(s) -> unbalanced_(s, i + 1, IF c = "nl" THEN "code" ELSE in, last_digit, depth)
    [] in = "block" /\ i <= Len(s) -> IF c = "*" /\ At(s, i + 1) = "/" THEN unbalanced_(s, i + 2, "code", last_digit, depth)
                                      ELSE unbalanced_(s, i + 1, in, last_digit, depth)
    [] in \in {Q, A} /\ i <= Len(s) -> IF c = B THEN unbalanced_(s, i + 2, in, last_digit, depth)
                                       ELSE unbalanced_(s, i + 1, IF c = in THEN "code" ELSE in, last_digit, depth)
    [] in = "code" /\ c = "/" /\ At(s, i + 1) \in {"/", "*"} ->
         unbalanced_(s, i + 2, IF s[i + 1] = "/" THEN "line" ELSE "block", last_digit, depth)
    [] in = "code" /\ c \in {Q, A} -> unbalanced_(s, i + 1, IF c = A /\ separator THEN "code" ELSE c, FALSE, depth)
    [] OTHER -> unbalanced_(s, i + 1, in, c = "1", IF c = "{" THEN depth + 1 ELSE depth)
unbalanced(s) == unbalanced_(s, 1, "code", FALSE, 0)

PyCodeInit == obj = <<>> /\ abs = <<>>
PyCodeNext == Longer(PySymbols, MaxSymbols)

\* The script and the program strip the same comments, and see the same code
\* without literals where no apostrophe is in it and each string is closed without
\* an escape; the braces that the script balances are those of the tokens.
SameCode ==
  LET code == strip_comments(obj)
      plain == A \notin ToSet(obj)
      closed == B \notin ToSet(obj) /\ Count(code, Q) % 2 = 0 IN
  /\ code = stripComments(obj)
  /\ plain /\ closed => normalize_code(obj) = tokenize(blankStrings(code))
  /\ unbalanced(obj) = Count(tokenize(code), <<"{">>)
-----------------------------------------------------------------------------
(* check_docs.py: structure.  Fences have an info string, cpp or none.     *)
Fence(char, run, info) == [kind |-> "fence", char |-> char, run |-> run, info |-> info]
PyLines == {Fence("grave", 3, "cpp"), Fence("grave", 3, ""), Fence("grave", 4, ""), Fence("tilde", 3, "")}
           \union {[kind |-> "heading", level |-> 1, language |-> "en"]}
           \union {[kind |-> "text", language |-> l] : l \in {"zh", "mixed", "none"}}

\* A fence is closed by any of its character, whatever its length.
PyScan(doc) ==
  FoldLeft(LAMBDA st, line :
             IF st.fence = NoFence
             THEN IF line.kind = "fence" THEN [st EXCEPT !.fence = line, !.place = Append(@, "fence")]
                  ELSE [st EXCEPT !.place = Append(@, "prose")]
             ELSE IF line.kind = "fence" /\ line.char = st.fence.char THEN [fence |-> NoFence, place |-> Append(st.place, "fence")]
                  ELSE [st EXCEPT !.place = Append(@, "code")],
           [fence |-> NoFence, place |-> <<>>], doc)
strip_code_blocks(doc) == LET place == PyScan(doc).place IN
  FoldLeftDomain(LAMBDA out, i : IF place[i] = "prose" THEN Append(out, doc[i]) ELSE out, <<>>, doc)
headings(doc) == LET hs == SelectSeq(strip_code_blocks(doc), LAMBDA l : l.kind = "heading") IN [i \in DOMAIN hs |-> hs[i].level]
Graves(doc, from) == {i \in from..Len(doc) : doc[i].kind = "fence" /\ doc[i].char = "grave"}
\* The expression takes three graves and cpp wherever they are.
RECURSIVE code_blocks(_, _)
code_blocks(doc, from) ==
  LET opens == {i \in Graves(doc, from) : doc[i].info = "cpp"} IN
  IF opens = {} \/ Graves(doc, Min(opens) + 1) = {} THEN <<>>
  ELSE LET close == Min(Graves(doc, Min(opens) + 1)) IN
       <<SubSeq(doc, Min(opens) + 1, close - 1)>> \o code_blocks(doc, close + 1)
classify(doc) ==
  LET lines == SelectSeq(strip_code_blocks(doc), LAMBDA l : l.kind = "text")
      Of(language) == Len(SelectSeq(lines, LAMBDA l : l.language = language)) IN
  IF Of("zh") > Of("mixed") THEN "zh" ELSE "en"

PyDocsInit == obj = <<>> /\ abs = <<>>
PyDocsNext == Longer(PyLines, MaxLines - 1)

\* Both see the same prose, headings and language (English where the program does
\* not know) unless a shorter fence stands in a block of longer ones, and the same
\* code if no fence at all stands in a block and all are fences of cpp.
SameReading ==
  LET S == Scan(obj)
      shorter == \E i, j \in DOMAIN obj : i < j /\ S.place[i] = "fence" /\ S.place[j] = "code"
                                          /\ obj[j].kind = "fence" /\ obj[j].char = obj[i].char /\ obj[j].run < obj[i].run
      tidy == \A i \in DOMAIN obj : obj[i].kind = "fence" =>
                /\ S.place[i] = "fence"
                /\ obj[i].char = "grave" /\ obj[i].run = 3
                /\ (obj[i].info = "cpp" <=> Count(SubSeq(S.place, 1, i), "fence") % 2 = 1) IN
  /\ ~shorter => /\ strip_code_blocks(obj) = stripCodeBlocks(obj)
                 /\ headings(obj) = extractHeadings(obj)
                 /\ classify(obj) = IF detectLanguage(obj) = "unknown" THEN "en" ELSE detectLanguage(obj)
  /\ tidy => code_blocks(obj, 1) = extractCodeBlocks(obj)
-----------------------------------------------------------------------------
(* check_docs.py: pairs.  A document is the levels of its headings, its    *)
(* code and the English name in its title, which a Chinese one may not     *)
(* have.                                                                   *)
Docs == 1..2
Faithful(i) == {[levels |-> l, code |-> c, gloss |-> g] : l \in {<<1>>, <<2>>, <<1, 2>>}, c \in {<<>>, <<i>>}, g \in {i, 0}}
NoPairs == [map |-> <<>>, en |-> {}, zh |-> {}]
PyPairsInit ==
  /\ \E f \in [Docs -> Faithful(1) \union Faithful(2)] :
       /\ \A i \in Docs : f[i] \in Faithful(i)
       /\ obj = [zh |-> f, en |-> [i \in Docs |-> [f[i] EXCEPT !.gloss = i]]]
  /\ abs = 0

\* An edit of one half of a pair: abs is the document.
edit(half, i) ==
  /\ abs = 0
  /\ \E l \in {<<1>>, <<2>>, <<1, 2>>}, c \in {<<>>, <<3>>, <<i, 3>>} :
       \/ l # obj[half][i].levels /\ obj' = [obj EXCEPT ![half][i].levels = l]
       \/ obj[half][i].code # <<>> /\ obj' = [obj EXCEPT ![half][i].code = c]
  /\ abs' = i

code_signature(d) == d.code
Keyed(key, value) == {i \in Docs : obj.zh[i][key] = value}
Candidates(d) ==
  LET sig == IF d.code = <<>> THEN {} ELSE {i \in Docs : code_signature(obj.zh[i]) = code_signature(d)}
      keys == <<Keyed("gloss", d.gloss), Keyed("levels", d.levels), {i \in Docs : Len(obj.zh[i].levels) = Len(d.levels)}>>
      single == {k \in DOMAIN keys : Cardinality(keys[k]) = 1} IN
  IF Cardinality(sig) = 1 THEN sig ELSE IF single = {} THEN sig ELSE keys[Min(single)]
compare_documents(d, z) ==
  {p \in {"heading", "block count", "code"} :
     CASE p = "heading" -> d.levels # z.levels
       [] p = "block count" -> Len(d.code) # Len(z.code)
       [] OTHER -> Len(d.code) = Len(z.code) /\ d.code # z.code}
unverifiable == {i \in Docs : Cardinality(Candidates(obj.en[i])) # 1}
document_pairs == {<<i, Min(Candidates(obj.en[i]))>> : i \in Docs \ unverifiable}
check_pairs == UNION {compare_documents(obj.en[pair[1]], obj.zh[pair[2]]) : pair \in document_pairs}

PyPairsNext == \E half \in {"en", "zh"}, i \in Docs : edit(half, i)

\* Translations that agree are never reported; when one document of one language
\* was changed, that is reported, or a document is told to be without a pair, if
\* the document had code or its translation the English name in the title.
DriftIsSeen ==
  /\ abs = 0 => check_pairs = {}
  /\ abs # 0 /\ (obj.zh[abs].gloss # 0 \/ obj.zh[abs].code # <<>> \/ obj.en[abs].code # <<>>)
     => check_pairs # {} \/ unverifiable # {}
-----------------------------------------------------------------------------
(* check_docs.py: the map of the pitfalls, kept by hand.                   *)
EnNames == {"e", "f"}
ZhNames == {"y", "z"}
PyMapInit == obj = [pairs |-> [n \in {} |-> ""], en |-> {}, zh |-> {}] /\ abs = 0

mapLine(e, z) == obj' = [obj EXCEPT !.pairs = [n \in DOMAIN @ \union {e} |-> IF n = e THEN z ELSE @[n]]]
onDisk(half, name) == obj' = [obj EXCEPT ![half] = IF name \in @ THEN @ \ {name} ELSE @ \union {name}]
pair_pitfalls == {e \in DOMAIN obj.pairs : e \in obj.en /\ obj.pairs[e] \in obj.zh}
check_pitfall_pairs ==
  (DOMAIN obj.pairs \ pair_pitfalls) \union (obj.en \ DOMAIN obj.pairs) \union (obj.zh \ Range(obj.pairs))
PyMapNext ==
  /\ \/ \E e \in EnNames : onDisk("en", e) \/ \E z \in ZhNames : mapLine(e, z)
     \/ \E z \in ZhNames : onDisk("zh", z)
  /\ UNCHANGED abs

\* Without a problem every article has a twin and is one; that no two share their
\* twin is known only if there are as many Chinese articles as English ones.
MapIsComplete ==
  obj.pairs # <<>> /\ check_pitfall_pairs = {} =>
    /\ pair_pitfalls = obj.en
    /\ {obj.pairs[e] : e \in obj.en} = obj.zh
    /\ Cardinality(obj.en) = Cardinality(obj.zh) => IsInjective(obj.pairs)
-----------------------------------------------------------------------------
(* check_links.py.  Two documents; links go to the second, to its heading  *)
(* or to one of the first; the second may be gone, or in a submodule that  *)
(* was not checked out.                                                    *)
LinkLines == {[kind |-> "fence"], [kind |-> "heading"]} \union {[kind |-> "link", to |-> t, anchor |-> a] : t \in {"first", "second"}, a \in BOOLEAN}
PyLinksInit == obj = [first |-> <<>>, second |-> <<>>] /\ abs \in {"there", "unpopulated"}

removeSecond == abs = "there" /\ abs' = "gone" /\ UNCHANGED obj
InProse(doc, i) == Count([j \in 1..i |-> doc[j].kind], "fence") % 2 = 0 /\ doc[i].kind # "fence"
strip_code(doc) == {i \in DOMAIN doc : InProse(doc, i)}
anchors_of(doc) == \E i \in DOMAIN doc : doc[i].kind = "heading"
Exists(link) == link.to = "first" \/ abs = "there"
\* A pure in-page link has an anchor.
checked == {i \in strip_code(obj.first) : obj.first[i].kind = "link" /\ (obj.first[i].to = "second" \/ obj.first[i].anchor)}
unverified == {i \in checked : obj.first[i].to = "second" /\ abs = "unpopulated"}
broken == {i \in checked \ unverified :
             LET link == obj.first[i] IN ~Exists(link) \/ (link.anchor /\ ~anchors_of(obj[link.to]))}
PyLinksNext ==
  \/ Grows("first", LinkLines, MaxLines - 1)
  \/ abs # "gone" /\ Grows("second", {[kind |-> "fence"], [kind |-> "heading"]}, MaxLines - 2)
  \/ removeSecond

normalize(path, absolute) ==
  FoldLeft(LAMBDA parts, segment :
             IF segment \in {"", "."} THEN parts
             ELSE IF segment # ".." THEN Append(parts, segment)
             ELSE IF parts # <<>> /\ Last(parts) # ".." THEN Front(parts)
             ELSE IF absolute THEN parts ELSE Append(parts, ".."),
           <<>>, path)
\* What the docstring says: paths are normalised as the program does it.
PathsAgree == SamePlace /\ normalize(obj, abs) = normalizePath(obj, abs)

\* A link that is reported leads nowhere, and one that leads nowhere is reported
\* unless its anchor is a line of code that looks like a heading.
BrokenAreFound ==
  LET Leads(link) == Exists(link) /\ (link.anchor => \E i \in strip_code(obj[link.to]) : obj[link.to][i].kind = "heading") IN
  /\ \A i \in broken : ~Leads(obj.first[i])
  /\ \A i \in checked \ broken : Leads(obj.first[i]) \/ i \in unverified \/ anchors_of(obj[obj.first[i].to])
-----------------------------------------------------------------------------
(* check_doc_examples.py: a program is put together from the blocks of a   *)
(* document.  A block may include, define, use what was defined, be main.  *)
ExampleBlocks == [include : BOOLEAN, define : BOOLEAN, use : BOOLEAN, main : BOOLEAN]
PyExamplesInit == obj = <<>> /\ abs = [expected |-> FALSE, sanitizer |-> FALSE]
PyExamplesNext ==
  \/ Longer(ExampleBlocks, MaxLines - 2)
  \/ \E f \in {"expected", "sanitizer"} : abs' = [abs EXCEPT ![f] = ~@] /\ UNCHANGED obj

main_idx == LET mains == {i \in DOMAIN obj : obj[i].main} IN IF mains = {} THEN 0 ELSE Min(mains)
assemble(start) == SubSeq(obj, start, main_idx)
candidate_starts == IF main_idx = 0 THEN {} ELSE {main_idx} \union {i \in 1..main_idx - 1 : obj[i].include}
\* A definition and an include come once, before what uses them.
Compiles(program) ==
  /\ Cardinality({i \in DOMAIN program : program[i].define}) <= 1
  /\ \A i \in DOMAIN program :
       /\ program[i].use => \E j \in 1..i : program[j].define
       /\ program[i].use \/ program[i].define => \E j \in 1..i : program[j].include
check ==
  LET good == {i \in candidate_starts : Compiles(assemble(i))} IN
  IF candidate_starts = {} THEN "skip" ELSE IF good = {} THEN "fail" ELSE "ok"
\* The entry says the failure belongs to the run with the sanitizer only.
applies == abs.expected /\ abs.sanitizer
\* An expected failure that does not fail is a failure of the run.
exampleFails == CASE check = "ok" -> applies
                  [] check = "skip" -> FALSE
                  [] OTHER -> ~applies

\* The blocks that are tried as the first are enough: the document is found to be
\* good if any of its blocks begins a program that ends with main; it passes in the
\* two kinds of run alike unless it is listed.
ProgramsAreFound ==
  LET starts == {i \in 1..main_idx : Compiles(assemble(i))} IN
  /\ main_idx # 0 => (check = "ok" <=> starts # {})
  /\ ~abs.expected => (exampleFails <=> check = "fail")
-----------------------------------------------------------------------------
(* link_docs_to_examples.py, write_example_headers.py and                  *)
(* write_overview_reading_lists.py write into files.  abs has the lines as *)
(* their authors wrote them.                                               *)
WrittenLines == {"text", "Summary", "See Also"}
ReadingLabels == <<"Read:", "Pitfalls:">>
Slugs == {"d", "p"}
PyWritersInit ==
  /\ obj = [doc |-> <<>>, example |-> <<>>, index |-> <<"Stage", "project">>, listed |-> {}]
  /\ abs = [doc |-> <<>>, example |-> <<>>, full |-> FALSE]

\* The lines of one file are followed at a time.
writeDoc(line) ==
  /\ Len(obj.doc) < MaxLines /\ obj.example = <<>> /\ obj.listed = {}
  /\ obj' = [obj EXCEPT !.doc = Append(@, line)]
  /\ abs' = [abs EXCEPT !.doc = Append(@, line)]
\* Before the last summary, or the first See Also, or at the end.
insert_section ==
  LET closing == Closing("Summary", obj.doc, 1)
      also == Closing("See Also", obj.doc, 1)
      at == IF closing # {} THEN Max(closing) ELSE IF also # {} THEN Min(also) ELSE Len(obj.doc) + 1 IN
  /\ obj.doc # <<>> /\ "Example" \notin ToSet(obj.doc)
  /\ obj' = [obj EXCEPT !.doc = InsertAt(@, at, "Example")]
  /\ UNCHANGED abs

writeCode(line) ==
  /\ Len(obj.example) < MaxLines /\ obj.doc = <<>> /\ obj.listed = {}
  /\ obj' = [obj EXCEPT !.example = Append(@, line)]
  /\ abs' = [abs EXCEPT !.example = Append(@, line)]
\* Whatever comments the file begins with are dropped; the blank line is not.
writeHeader ==
  LET code == {i \in DOMAIN obj.example : obj.example[i] # "comment"}
      body == IF code = {} THEN <<>> ELSE SubSeq(obj.example, Min(code), Len(obj.example)) IN
  /\ obj.example # <<>> /\ Count(obj.example, "blank") < MaxLines
  /\ obj' = [obj EXCEPT !.example = <<"comment", "comment", "comment", "blank">> \o body]
  /\ UNCHANGED abs

\* The map gives the stage an article or a pitfall.
mapSlug(slug) ==
  /\ obj.doc = <<>> /\ obj.example = <<>> /\ slug \notin obj.listed
  /\ obj' = [obj EXCEPT !.listed = @ \union {slug}]
  /\ abs' = [abs EXCEPT !.full = FALSE]
Mapped(kind) == obj.listed \intersect {IF kind = "Read:" THEN "d" ELSE "p"}
\* Where the list under the first label ends, 0 if there is none.
ListEnd(text, kind) ==
  LET at == Closing(kind, text, 1)
      past == {j \in Min(at) + 1..Len(text) : text[j] \notin Slugs} IN
  IF at = {} THEN 0 ELSE IF past = {} THEN Len(text) ELSE Min(past) - 1
merge_into(text) ==
  FoldLeft(LAMBDA t, kind :
             LET end == ListEnd(t, kind)
                 listed == ToSet(SubSeq(t, Min(Closing(kind, t, 1)), end)) IN
             IF end = 0 THEN t ELSE SubSeq(t, 1, end) \o SetToSeq(Mapped(kind) \ listed) \o SubSeq(t, end + 1, Len(t)),
           text, ReadingLabels)
insert_new(text) ==
  LET Block(kind) == IF Mapped(kind) = {} THEN <<>> ELSE <<kind>> \o SetToSeq(Mapped(kind))
      at == Min(Closing("project", text, 1)) IN
  SubSeq(text, 1, at - 1) \o Block("Read:") \o Block("Pitfalls:") \o SubSeq(text, at, Len(text))
writeReadingLists ==
  LET merged == merge_into(obj.index) IN
  /\ obj.listed # {} /\ Len(obj.index) <= MaxLines
  /\ obj' = [obj EXCEPT !.index = IF merged # @ THEN merged ELSE insert_new(@)]
  /\ abs' = [abs EXCEPT !.full = merged = obj.index]

PyWritersNext ==
  \/ \E l \in WrittenLines : writeDoc(l)
  \/ \E l \in {"comment", "blank", "code"} : writeCode(l)
  \/ \E slug \in Slugs : mapSlug(slug)
  \/ insert_section \/ writeHeader \/ writeReadingLists

\* The authors' lines stay as they were, but for the comments and the blanks at the
\* head of an example; there is one Example section; when the reading lists are
\* written a second time, all that the map has is in them.
WritersKeep ==
  LET Code(text) == SelectSeq(text, LAMBDA l : l = "code")
      Lists(kind) == {i \in DOMAIN obj.index : obj.index[i] = kind} IN
  /\ SelectSeq(obj.doc, LAMBDA l : l # "Example") = abs.doc /\ Count(obj.doc, "Example") <= 1
  /\ Code(obj.example) = Code(abs.example)
  /\ abs.full => obj.listed \subseteq ToSet(obj.index)
  /\ \A slug \in Slugs : Count(obj.index, slug) <= Cardinality(Lists("Read:") \union Lists("Pitfalls:"))
-----------------------------------------------------------------------------
(* check_overview_parity.py: two indexes of what is on disk.               *)
IndexLinks == {"article", "pitfall", "project"}
PyParityInit == obj = [en |-> <<>>, zh |-> <<>>] /\ abs \in SUBSET {"article", "pitfall"}
PyParityNext == \E half \in {"en", "zh"} : Grows(half, IndexLinks \union {"heading"}, MaxLines - 2)

project_links(text) == ToSet(text) \intersect {"project"}
parityHeadings(text) == SelectSeq(text, LAMBDA l : l = "heading")
parityProblems ==
  {unlinked \in {"en", "zh"} \X abs : unlinked[2] \notin ToSet(obj[unlinked[1]])}
  \union {p \in {"headings", "projects"} :
            IF p = "headings" THEN parityHeadings(obj.en) # parityHeadings(obj.zh)
            ELSE project_links(obj.en) \ project_links(obj.zh) # {}}

\* Indexes without a problem link all that is on disk, have headings alike, and the
\* Chinese one has the projects of the English one; not the other way round.
IndexesAgree ==
  parityProblems = {} =>
    /\ \A half \in {"en", "zh"} : abs \subseteq ToSet(obj[half])
    /\ Count(obj.en, "heading") = Count(obj.zh, "heading")
    /\ "project" \in ToSet(obj.en) => "project" \in ToSet(obj.zh)
-----------------------------------------------------------------------------
(***************************************************************************)
(* The scripts under tools/ that check the code, build it and run it.      *)
(***************************************************************************)
(* plan_ci_shards.py: obj are the numbers of projects of the stages.       *)
ShardInit == obj = <<>> /\ abs = <<>>
ShardNext == Longer(1..3, MaxSymbols)

lightest(loads) == Min({i \in DOMAIN loads : \A j \in DOMAIN loads : loads[i] <= loads[j]})
Heaviest(stages) == SortSeq([i \in DOMAIN stages |-> <<i, stages[i]>>], LAMBDA s, t : s[2] > t[2] \/ (s[2] = t[2] /\ s[1] < t[1]))
plan(stages) ==
  FoldLeft(LAMBDA p, s : LET i == lightest(p.loads) IN [buckets |-> [p.buckets EXCEPT ![i] = @ \union {s[1]}], loads |-> [p.loads EXCEPT ![i] = @ + s[2]]],
           [buckets |-> [i \in 1..shards |-> {}], loads |-> [i \in 1..shards |-> 0]], Heaviest(stages))

\* Every stage is in one shard, and no shard would be the lighter for giving its
\* smallest stage to another.
ShardsAreEven ==
  LET p == plan(obj)
      Load(i) == FoldSet(LAMBDA s, n : n + obj[s], 0, p.buckets[i]) IN
  /\ UNION Range(p.buckets) = DOMAIN obj
  /\ \A i, j \in 1..shards : /\ p.loads[i] = Load(i)
                             /\ i # j => p.buckets[i] \intersect p.buckets[j] = {}
                             /\ \A s \in p.buckets[i] : Load(i) - obj[s] <= Load(j)
-----------------------------------------------------------------------------
(* check_callback_under_lock.py: obj is the text of a function.            *)
LockText == {"{", "}", "lock", "call"}
Depth(text, i) == Count(SubSeq(text, 1, i), "{") - Count(SubSeq(text, 1, i), "}")
LockTextInit == obj = <<"{">> /\ abs = <<>>
LockTextNext ==
  /\ Longer(LockText, MaxSymbols + 3)
  /\ Depth(obj', Len(obj')) >= 1

block_end(text, start) ==
  LET ends == {j \in start + 1..Len(text) : text[j] = "}" /\ Depth(text, j) = Depth(text, start) - 1} IN
  IF ends = {} THEN Len(text) + 1 ELSE Min(ends)
enclosing_blocks(text, position) == {s \in 1..position - 1 : text[s] = "{" /\ block_end(text, s) > position}
own_level(text, start) ==
  {i \in start + 1..block_end(text, start) - 1 : text[i] \notin {"{", "}"} /\ Depth(text, i) = Depth(text, start)}
LocksOf(text, start) == {i \in own_level(text, start) : text[i] = "lock"}
\* The innermost block that takes a lock decides, by the last lock it takes.
underLock(text, call) ==
  LET locking == {s \in enclosing_blocks(text, call) : LocksOf(text, s) # {}} IN
  locking # {} /\ Max(LocksOf(text, Max(locking))) < call

\* Each call that is reported is made with a lock held, and one that is made with
\* a lock held and is not reported comes before another lock of its block.
CallsUnderLock ==
  \A c \in {i \in DOMAIN obj : obj[i] = "call"} :
    LET Held == \E s \in enclosing_blocks(obj, c) : \E l \in LocksOf(obj, s) : l < c IN
    /\ underLock(obj, c) => Held
    /\ Held /\ ~underLock(obj, c) => \E s \in enclosing_blocks(obj, c) : \E l \in LocksOf(obj, s) : l > c
-----------------------------------------------------------------------------
(* The lists of what is expected: check_warnings.py and, for callbacks     *)
(* under a lock, check_callback_under_lock.py.  The world is what the      *)
(* compiler says; the list is read line by line, a malformed one is left   *)
(* out.                                                                    *)
Warnings == {"file"} \X {"unused", "shadow", "does not compile"}
malformed == <<"file", "">>
LedgerInit == obj = [found |-> {}, list |-> <<>>] /\ abs = "never"
codeChanges(w) == obj' = [obj EXCEPT !.found = IF w \in @ THEN @ \ {w} ELSE @ \union {w}] /\ abs' = "changed"
listChanges ==
  /\ Len(obj.list) < MaxLines - 2
  /\ \E w \in Warnings \union {malformed} : obj' = [obj EXCEPT !.list = Append(@, w)]
  /\ abs' = "changed"
load_allowlist == ToSet(obj.list) \ {malformed}
unexpected == obj.found \ load_allowlist
stale == load_allowlist \ obj.found
checkWarnings == abs' = (IF unexpected = {} /\ stale = {} THEN "passed" ELSE "failed") /\ UNCHANGED obj
LedgerNext == listChanges \/ checkWarnings \/ \E w \in Warnings : codeChanges(w)

\* After a run that passed, a warning that comes or goes makes the next run fail.
NothingChangesUnseen ==
  abs = "passed" => \A w \in Warnings : LET now == (obj.found \ {w}) \union ({w} \ obj.found) IN now # load_allowlist
-----------------------------------------------------------------------------
(* check_examples.py: an example, what it needs, and the compilers at      *)
(* hand.                                                                   *)
Standards == {17, 20, 23}
FallbackStandards == {20, 23}
ExamplesInit ==
  /\ obj \in [declared : Standards \union {0}, needs : Standards, newest : Standards, output : {"a", "b"}, runs : BOOLEAN, broken : BOOLEAN]
  /\ abs = [status |-> "", run |-> "", collision |-> FALSE]

too_old(standard) == standard > obj.newest
compiles(standard) == ~too_old(standard) /\ ~obj.broken /\ standard >= obj.needs
check_one ==
  IF obj.declared # 0
  THEN IF compiles(obj.declared) THEN "ok" ELSE IF too_old(obj.declared) THEN "skip" ELSE "fail"
  ELSE IF \E s \in FallbackStandards : compiles(s) THEN "ok" ELSE IF \A s \in FallbackStandards : too_old(s) THEN "skip" ELSE "fail"
run_example ==
  LET standard == IF obj.declared = 0 THEN 20 ELSE obj.declared IN
  IF ~compiles(standard) THEN "compile" ELSE IF ~obj.runs THEN "run" ELSE "ok"
\* Another example writes its program to a.
check_output_collisions == obj.declared # 0 /\ obj.output = "a"
checkExamples ==
  /\ abs.status = ""
  /\ \E run \in BOOLEAN : abs' = [status |-> check_one, run |-> IF run THEN run_example ELSE "", collision |-> check_output_collisions]
  /\ UNCHANGED obj
editExample ==
  /\ \E s \in Standards \union {0} : obj' = [obj EXCEPT !.declared = s]
  /\ abs' = [abs EXCEPT !.status = "", !.run = ""]
ExamplesNext == checkExamples \/ editExample
examplesFail == abs.status = "fail" \/ abs.run \notin {"", "ok"} \/ abs.collision

\* An example that is reported is broken, needs a newer standard than it declares
\* or does not run, but for one that was skipped or that declares none, which the
\* run counts as failed; one that passes the run compiles and runs.
ExamplesVerdict ==
  /\ abs.status = "fail" => obj.broken \/ (IF obj.declared = 0 THEN obj.needs > obj.newest ELSE obj.needs > obj.declared)
  /\ abs.run = "ok" => abs.status = "ok" /\ obj.runs /\ ~obj.broken
  /\ abs.status = "skip" => abs.run \in {"", "compile"}
  /\ abs.status = "ok" /\ abs.run = "compile" => obj.declared = 0 /\ obj.needs = 23
-----------------------------------------------------------------------------
(* check_tests.py: the body of a function, which function_body finds.      *)
BodySymbols == {Q, B, "/", "*", "{", "}", "nl"}
BodyInit == obj = <<"{">> /\ abs = <<>>
BodyNext == Longer(BodySymbols, MaxSymbols)

\* Past a literal, after the last symbol if it has no end.
literalEnd(s, i) ==
  LET end[j \in i + 1..Len(s) + 2] ==
        IF j > Len(s) THEN Len(s) + 1 ELSE IF s[j] = B THEN end[j + 2] ELSE IF s[j] = s[i] THEN j + 1 ELSE end[j + 1] IN
  end[i + 1]
commentPast(s, i) == LET at == {j \in i + 2..Len(s) - 1 : s[j] = "*" /\ s[j + 1] = "/"} IN IF at = {} THEN Len(s) + 1 ELSE Min(at) + 2
RECURSIVE bodyEnd(_, _, _)
bodyEnd(s, i, depth) ==
  CASE i > Len(s) -> Len(s) + 1
    [] i <= Len(s) /\ At(s, i) = "/" /\ At(s, i + 1) = "/" -> bodyEnd(s, lineEnd(s, i), depth)
    [] i <= Len(s) /\ At(s, i) = "/" /\ At(s, i + 1) = "*" -> bodyEnd(s, commentPast(s, i), depth)
    [] At(s, i) = Q -> bodyEnd(s, literalEnd(s, i), depth)
    [] At(s, i) = "}" -> IF depth = 1 THEN i ELSE bodyEnd(s, i + 1, depth - 1)
    [] OTHER -> bodyEnd(s, i + 1, IF At(s, i) = "{" THEN depth + 1 ELSE depth)
function_body(s) == SubSeq(s, 2, bodyEnd(s, 1, 0) - 1)

\* The body is what stands between the braces that match among the tokens.
BodyIsFound ==
  LET t == tokenize(strip_comments(obj))
      Level(i) == Count(SubSeq(t, 1, i), <<"{">>) - Count(SubSeq(t, 1, i), <<"}">>)
      match == {i \in DOMAIN t : Level(i) = 0} IN
  tokenize(strip_comments(function_body(obj))) = SubSeq(t, 2, IF match = {} THEN Len(t) ELSE Min(match) - 1)
-----------------------------------------------------------------------------
(* check_tests.py: which test functions are called, and what they throw.   *)
Functions == {"t", "u"}
FailureTypes == {"logic_error", "Failure"}
TestsInit ==
  /\ obj = [calls |-> {}, asserts |-> {}, thrown |-> {}, caught |-> {}]
  /\ abs = 0
addCall(from, to) == obj' = [obj EXCEPT !.calls = @ \union {<<from, to>>}]
addAssert(f) == obj' = [obj EXCEPT !.asserts = @ \union {f}]
addThrow(f, t) == obj' = [obj EXCEPT !.thrown = @ \union {t}, !.asserts = @ \union {f}]
addCatch(t) == obj' = [obj EXCEPT !.caught = @ \union {t}]
TestsNext ==
  /\ \/ \E f \in Functions : addAssert(f) \/ \E g \in Functions \union {"main"} : addCall(g, f)
     \/ \E t \in FailureTypes : addCatch(t) \/ \E f \in Functions : addThrow(f, t)
     \/ addCatch("exception")
  /\ UNCHANGED abs

\* The name stands a second time in the file, if anything is called at all there.
check_calls == {f \in Functions : obj.calls # {} /\ \A c \in obj.calls : c[2] # f}
check_assertions == Functions \ obj.asserts
check_failure_is_reported ==
  IF obj.thrown = {} \/ obj.caught = {} \/ "exception" \in obj.caught THEN {} ELSE obj.thrown \ obj.caught

\* A function that is reported does not run; one that does not run and is not
\* reported is called by itself or by another that does not run, or no test is
\* called at all; without a problem every failure is caught, if any is.
TestsAreRun ==
  LET Runs(f) == <<"main", f>> \in obj.calls \/ \E g \in Functions : <<"main", g>> \in obj.calls /\ <<g, f>> \in obj.calls IN
  /\ \A f \in check_calls : ~Runs(f)
  /\ \A f \in Functions \ check_calls : Runs(f) \/ obj.calls = {} \/ \E g \in Functions : <<g, f>> \in obj.calls /\ (g = f \/ ~Runs(g))
  /\ check_failure_is_reported = {} /\ obj.caught # {} => obj.thrown \subseteq obj.caught \/ "exception" \in obj.caught
-----------------------------------------------------------------------------
(* check_test_ports.py: the ports of the tests and the demos.  A test file *)
(* is read if it opens a socket.                                           *)
Ports == {80, 8080, 9090}
Directories == Projects \X {"tests", "src"}
PortsInit == obj = [owners |-> {}, sockets |-> {}] /\ abs = 0
opensSocket(d) == obj' = [obj EXCEPT !.sockets = @ \union {d}]
writesPort(d, port) == obj' = [obj EXCEPT !.owners = @ \union {<<d, port>>}]
PortsNext ==
  /\ \E d \in Directories : (d[2] = "tests" /\ opensSocket(d)) \/ \E port \in Ports : writesPort(d, port)
  /\ UNCHANGED abs
owners(port) == {d \in Directories : <<d, port>> \in obj.owners /\ port >= 1024 /\ (d[2] = "src" \/ d \in obj.sockets)}
sharedPorts == {port \in Ports : Cardinality(owners(port)) > 1}

\* Two projects that use one port are found; what is found is two projects, or the
\* tests and the demo of one.
PortsApart ==
  /\ \A d, e \in Directories, port \in Ports : d[1] # e[1] /\ {d, e} \subseteq owners(port) => port \in sharedPorts
  /\ \A port \in sharedPorts : \E d, e \in owners(port) : d # e /\ (d[1] # e[1] \/ {d[2], e[2]} = {"tests", "src"})
-----------------------------------------------------------------------------
(* check_demos.py: the demos of a project are run one by one, in obj; what *)
(* is under test says something, a port or not, listens, and may end.      *)
Demos == 1..2
DemosInit ==
  /\ obj = [demo |-> 1, said |-> {}, listening |-> FALSE, code |-> 0 - 1, time |-> 0, result |-> ""]
  /\ abs = [d \in Demos |-> "waits"]
demoRuns == obj.result = "" /\ obj.code < 0 /\ obj.time < MaxLines
prints(what) == demoRuns /\ obj' = [obj EXCEPT !.said = @ \union {what}] /\ UNCHANGED abs
listens == demoRuns /\ obj' = [obj EXCEPT !.listening = TRUE] /\ UNCHANGED abs
exits(code) == demoRuns /\ obj' = [obj EXCEPT !.code = code, !.listening = FALSE] /\ UNCHANGED abs
sleeps == demoRuns /\ obj' = [obj EXCEPT !.time = @ + 1] /\ UNCHANGED abs
Returned(result) == obj' = [obj EXCEPT !.result = result]
\* After the deadline: what hangs without a word, or does not listen where it says.
killDemo ==
  /\ obj.result = "" /\ obj.code < 0 /\ obj.time = MaxLines
  /\ IF obj.said = {} \/ ("port" \in obj.said /\ ~obj.listening) THEN Returned("fail") ELSE Returned("skip")
  /\ abs' = [abs EXCEPT ![obj.demo] = IF obj.said = {} THEN "hung" ELSE "served"]
\* A demo that ends with a code is excused if it printed that the port is taken.
demoEnded ==
  /\ obj.result = "" /\ obj.code >= 0
  /\ IF obj.code = 0
     THEN IF obj.demo = 2 THEN Returned("ok")
          ELSE obj' = [demo |-> 2, said |-> {}, listening |-> FALSE, code |-> 0 - 1, time |-> 0, result |-> ""]
     ELSE Returned(IF "bind" \in obj.said THEN "skip" ELSE "fail")
  /\ abs' = [abs EXCEPT ![obj.demo] = IF obj.code = 0 THEN "clean" ELSE "failed"]
DemosNext ==
  \/ \E what \in {"text", "port", "bind"} : prints(what)
  \/ \E code \in {0, 1} : exits(code)
  \/ listens \/ sleeps \/ killDemo \/ demoEnded

\* A project is good only if all its demos ended well; one that hangs without a
\* word fails; but with the first that is skipped, a server as well, the project
\* is done and the demos after it are not run; none fails that listens and says so.
DemosAreSeen ==
  /\ obj.result = "ok" => \A d \in Demos : abs[d] = "clean"
  /\ obj.result # "" /\ (\E d \in Demos : abs[d] = "hung") => obj.result = "fail"
  /\ obj.result = "skip" => abs[obj.demo] \in {"served", "failed"} /\ \A d \in obj.demo + 1..2 : abs[d] = "waits"
  /\ obj.result = "fail" => ~obj.listening \/ obj.said = {}
-----------------------------------------------------------------------------
(* build_all_projects.py, run_sanitizers.py and run_all_checks.sh.  abs    *)
(* has what happened to each project.                                      *)
Steps == <<"configure", "build", "list", "test">>
Outcomes == {"good", "bad", "hangs"}
BuildInit ==
  /\ obj \in [tool : {"build", "sanitize"}, keep : BOOLEAN, todo : {Projects}, failures : {{}}, step : {1}, code : {0 - 1}, dirs : {{}}]
  /\ abs = [p \in Projects |-> "none"]

Goes(p) == p \in obj.todo /\ obj.code < 0 /\ \A q \in Projects : q # p => abs[q] # "going"
Done(p, failed) ==
  obj' = [obj EXCEPT !.todo = @ \ {p}, !.step = 1, !.dirs = @ \union {p}, !.failures = IF failed THEN @ \union {p} ELSE @]
\* A step that does not finish: only the tests have a limit, after which the one
\* tool counts a failure and the other ends with an exception.
buildStep(p) ==
  /\ Goes(p)
  /\ \E outcome \in Outcomes :
       /\ outcome = "hangs" => Steps[obj.step] = "test"
       /\ CASE outcome = "good" /\ obj.step < Len(Steps) -> obj' = [obj EXCEPT !.step = @ + 1]
            [] outcome = "hangs" /\ obj.tool = "sanitize" -> obj' = [obj EXCEPT !.code = 1, !.failures = @ \union {p}, !.dirs = {}]
            [] OTHER -> Done(p, outcome # "good")
       /\ abs' = [abs EXCEPT ![p] = CASE outcome # "good" -> outcome
                                      [] OTHER -> IF obj.step < Len(Steps) THEN "going" ELSE "good"]
\* The directories of a run with failures are left where they are.
finishBuild ==
  /\ obj.todo = {} /\ obj.code < 0
  /\ obj' = [obj EXCEPT !.code = IF @ < 0 /\ obj.failures = {} THEN 0 ELSE 1,
                        !.dirs = IF obj.tool = "build" /\ (obj.keep \/ obj.failures # {}) THEN @ ELSE {}]
  /\ UNCHANGED abs
BuildNext == finishBuild \/ \E p \in Projects : buildStep(p)

\* A run is good if and only if each project was configured, built and tested well;
\* its directories are kept if that was asked for or a project failed, but none of
\* the run with the sanitizers.
BuildsAreTrue ==
  obj.code >= 0 =>
    /\ obj.code = 0 <=> \A p \in Projects : abs[p] = "good"
    /\ obj.dirs # {} <=> obj.tool = "build" /\ (obj.keep \/ obj.failures # {})
-----------------------------------------------------------------------------
(* run_all_checks.sh.  checks are those of the documentation, as one.      *)
AllChecks == {"documentation", "projects", "sanitizers"}
ChecksInit == obj = [argument |-> "none", failed |-> {}, ran |-> {}, code |-> 0 - 1] /\ abs = {}
giveArgument(a) == obj.ran = {} /\ obj' = [obj EXCEPT !.argument = a] /\ UNCHANGED abs
breaks(c) == c \notin obj.ran /\ abs' = abs \union {c} /\ UNCHANGED obj
Asked(c) == c = "documentation" \/ (c = "projects" /\ obj.argument = "--full") \/ (c = "sanitizers" /\ obj.argument = "--sanitize")
runCheck(c) ==
  /\ Asked(c) /\ c \notin obj.ran /\ obj.code < 0
  /\ c # "documentation" => "documentation" \in obj.ran
  /\ obj' = [obj EXCEPT !.ran = @ \union {c}, !.failed = IF c \in abs THEN @ \union {c} ELSE @]
  /\ UNCHANGED abs
allChecks ==
  /\ \A c \in AllChecks : Asked(c) => c \in obj.ran
  /\ obj' = [obj EXCEPT !.code = IF obj.failed = {} THEN 0 ELSE 1]
  /\ UNCHANGED abs
ChecksNext == allChecks \/ (\E a \in {"--full", "--sanitize", "other"} : giveArgument(a)) \/ \E c \in AllChecks : breaks(c) \/ runCheck(c)

\* A check that failed does not keep the next from being made, and is told in the
\* end; the sanitizers do not come with the build of --full.
AllIsTold ==
  obj.code >= 0 =>
    /\ obj.code = 0 <=> \A c \in abs : ~Asked(c)
    /\ obj.failed = obj.ran \intersect abs
    /\ ~({"projects", "sanitizers"} \subseteq obj.ran)
==============================================================================
