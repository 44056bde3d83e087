-------------------------------- MODULE Formats --------------------------------
(***************************************************************************)
(* Text formats: json-parser, csv-parser and base64-codec (03-advanced)    *)
(* and template-engine (stage 41).  obj is a text, one symbol longer with  *)
(* each step; a property says something of what is read from it.           *)
(***************************************************************************)
EXTENDS Naturals, Sequences, SequencesExt, FiniteSets, Functions

CONSTANTS MaxText   \* bound: symbols of a text

VARIABLES obj, abs

Q == "quote"
Append1(symbols, max) == Len(obj) < max /\ (\E c \in symbols : obj' = Append(obj, c)) /\ UNCHANGED abs
At(s, i) == IF i \in DOMAIN s THEN s[i] ELSE "end"
-----------------------------------------------------------------------------
(* json.  A literal (null, true, false or a number) is one symbol, there   *)
(* is no white space, and an escape stands for the symbol it names: the    *)
(* backslash with a literal's letter is a newline.                         *)
B == "backslash"
Symbols == {"[", "]", "{", "}", ",", ":", "null", Q, B}
Failed == <<"failed">>
Result(at, value) == [at |-> at, value |-> value]
Escaped(c) == IF c = "null" THEN "newline" ELSE c

RECURSIVE stringContent(_, _, _), parseValue(_, _), parseArray(_, _, _), parseObject(_, _, _), stringify(_)
\* A string that is not closed ends with the text.
stringContent(s, i, read) ==
  CASE i > Len(s) -> Result(i, read)
    [] At(s, i) = Q -> Result(i + 1, read)
    [] At(s, i) = B -> stringContent(s, i + 2, Append(read, Escaped(At(s, i + 1))))
    [] OTHER -> stringContent(s, i + 1, Append(read, s[i]))
parseValue(s, i) ==
  CASE At(s, i) = "null" -> Result(i + 1, <<"null">>)
    [] At(s, i) = Q -> LET r == stringContent(s, i + 1, <<>>) IN Result(r.at, <<"string", r.value>>)
    [] At(s, i) = "[" -> IF At(s, i + 1) = "]" THEN Result(i + 2, <<"array", <<>>>>) ELSE parseArray(s, i + 1, <<>>)
    [] At(s, i) = "{" -> IF At(s, i + 1) = "}" THEN Result(i + 2, <<"object", <<>>>>) ELSE parseObject(s, i + 1, <<>>)
    [] OTHER -> Result(i, Failed)
parseArray(s, i, values) ==
  LET r == parseValue(s, i) IN
  CASE r.value = Failed -> r
    [] At(s, r.at) = "]" -> Result(r.at + 1, <<"array", Append(values, r.value)>>)
    [] At(s, r.at) = "," -> parseArray(s, r.at + 1, Append(values, r.value))
    [] OTHER -> Result(r.at, Failed)
\* A name that comes twice has its last value.
parseObject(s, i, object) ==
  LET key == stringContent(s, i + 1, <<>>)
      r == parseValue(s, key.at + 1)
      more == [k \in DOMAIN object \union {key.value} |-> IF k = key.value THEN r.value ELSE object[k]] IN
  CASE At(s, i) # Q -> Result(i, Failed)
    [] At(s, key.at) # ":" -> Result(key.at, Failed)
    [] r.value = Failed -> r
    [] At(s, r.at) = "}" -> Result(r.at + 1, <<"object", more>>)
    [] At(s, r.at) = "," -> parseObject(s, r.at + 1, more)
    [] OTHER -> Result(r.at, Failed)
parse(s) == LET r == parseValue(s, 1) IN IF r.at <= Len(s) THEN Result(r.at, Failed) ELSE r

Joined(texts) == FlattenSeq([i \in DOMAIN texts |-> (IF i = 1 THEN <<>> ELSE <<",">>) \o texts[i]])
\* Strings are printed as they are.
stringify(v) ==
  CASE v[1] = "string" -> <<Q>> \o v[2] \o <<Q>>
    [] v[1] = "array" -> <<"[">> \o Joined([i \in DOMAIN v[2] |-> stringify(v[2][i])]) \o <<"]">>
    [] v[1] = "object" -> LET keys == SetToSeq(DOMAIN v[2]) IN
         <<"{">> \o Joined([i \in DOMAIN keys |-> <<Q>> \o keys[i] \o <<Q, ":">> \o stringify(v[2][keys[i]])]) \o <<"}">>
    [] OTHER -> v

RECURSIVE Plain(_)
PlainText(s) == Q \notin Range(s) /\ B \notin Range(s)
Plain(v) ==
  CASE v[1] = "string" -> PlainText(v[2])
    [] v[1] = "array" -> \A i \in DOMAIN v[2] : Plain(v[2][i])
    [] v[1] = "object" -> \A k \in DOMAIN v[2] : PlainText(k) /\ Plain(v[2][k])
    [] OTHER -> TRUE

JsonInit == obj = <<>> /\ abs = <<>>
\* A text that is wrong already is not continued.
JsonNext == (parse(obj).value = Failed => parse(obj).at > Len(obj)) /\ Append1(Symbols, MaxText)

\* What was parsed is printed as a text that parses to the same value exactly if
\* no string and no name in it has a quote or a backslash: parse() takes escapes
\* and stringify() writes none, so that the text is then wrong or another value.
PrintsWhatParses ==
  LET v == parse(obj).value IN v # Failed => ((parse(stringify(v)).value = v) <=> Plain(v))
-----------------------------------------------------------------------------
(* csv_parser.                                                             *)
CsvSymbols == {Q, ",", "nl", "cr", "a"}
needsQuoting(f) == \E i \in DOMAIN f : f[i] \in {",", Q, "nl", "cr"}
quote(f) == <<Q>> \o FlattenSeq([i \in DOMAIN f |-> IF f[i] = Q THEN <<Q, Q>> ELSE <<f[i]>>]) \o <<Q>>
formatRow(fields) == Joined([i \in DOMAIN fields |-> IF needsQuoting(fields[i]) THEN quote(fields[i]) ELSE fields[i]])

RECURSIVE parseRow(_, _, _, _, _), parseRows(_, _)
parseRow(s, i, row, field, inQuotes) ==
  LET c == At(s, i)
      next == At(s, i + 1) IN
  CASE c = "end" -> Result(i, Append(row, field))
    [] inQuotes /\ c = Q /\ next = Q -> parseRow(s, i + 2, row, Append(field, Q), TRUE)
    [] inQuotes /\ c = Q /\ next # Q -> parseRow(s, i + 1, row, field, FALSE)
    [] ~inQuotes /\ c = Q /\ field = <<>> -> parseRow(s, i + 1, row, field, TRUE)
    [] ~inQuotes /\ c = "," -> parseRow(s, i + 1, Append(row, field), <<>>, FALSE)
    [] ~inQuotes /\ c \in {"nl", "cr"} -> Result(IF c = "cr" /\ next = "nl" THEN i + 2 ELSE i + 1, Append(row, field))
    [] OTHER -> parseRow(s, i + 1, row, Append(field, c), inQuotes)
parseRows(s, i) ==
  LET r == parseRow(s, i, <<>>, <<>>, FALSE) IN
  IF i > Len(s) \/ (i > 1 /\ r.value = <<<<>>>> /\ r.at > Len(s)) THEN <<>> ELSE <<r.value>> \o parseRows(s, r.at)
parseTable(s) == parseRows(s, 1)   \* the header is the first

CsvInit == obj = <<>> /\ abs = <<>>
CsvNext == Append1(CsvSymbols, MaxText - 1)

\* The rows of a table, each formatted and ended by a newline, parse to the table,
\* with one exception to the lossless round-trips that the README has: a last row,
\* not the header, of one empty field is taken for the end of the text and is lost,
\* and no other row with it.
TablesComeBack ==
  LET table == parseTable(obj)
      lost == Len(table) > 1 /\ Last(table) = <<<<>>>> IN
  parseTable(FlattenSeq([i \in DOMAIN table |-> formatRow(table[i]) \o <<"nl">>])) = IF lost THEN Front(table) ELSE table
-----------------------------------------------------------------------------
(* base64: a symbol is its place in the alphabet, or the padding.          *)
Pad == 64
Bytes == {0, 1, 131, 255}
Sextets == {0, 16, 21, 63, Pad}

encode(d) ==
  LET Byte(k) == IF k \in DOMAIN d THEN d[k] ELSE 0
      Group(g) == LET n == Byte(3 * g + 1) * 65536 + Byte(3 * g + 2) * 256 + Byte(3 * g + 3)
                      have == Len(d) - 3 * g IN
                  <<n \div 262144, (n \div 4096) % 64, IF have < 2 THEN Pad ELSE (n \div 64) % 64, IF have < 3 THEN Pad ELSE n % 64>> IN
  FlattenSeq([g \in 1..(Len(d) + 2) \div 3 |-> Group(g - 1)])
Pads(s) == {i \in DOMAIN s : s[i] = Pad}
isValid(s) == Len(s) % 4 = 0 /\ \A i \in Pads(s) : i >= Len(s) - 1 /\ i..Len(s) \subseteq Pads(s)
decodeBytes(s) ==
  LET Val(i) == s[i] % 64
      Group(g) == LET n == Val(4 * g + 1) * 262144 + Val(4 * g + 2) * 4096 + Val(4 * g + 3) * 64 + Val(4 * g + 4) IN
                  <<n \div 65536>> \o (IF s[4 * g + 3] = Pad THEN <<>> ELSE <<(n \div 256) % 256>>)
                                   \o (IF s[4 * g + 4] = Pad THEN <<>> ELSE <<n % 256>>) IN
  FlattenSeq([g \in 1..Len(s) \div 4 |-> Group(g - 1)])

Base64Init == obj = <<>> /\ abs \in {"bytes", "text"}
Base64Next == IF abs = "bytes" THEN Append1(Bytes, MaxText - 1) ELSE Append1(Sextets, MaxText - 1)

\* Bytes come back from their encoding, which is valid and longer by a third; a
\* valid text is the encoding of its bytes exactly if the bits that the padding
\* leaves over are zero, and other texts are accepted too.
EncodingComesBack ==
  IF abs = "bytes"
  THEN isValid(encode(obj)) /\ decodeBytes(encode(obj)) = obj /\ Len(encode(obj)) = 4 * ((Len(obj) + 2) \div 3)
  ELSE isValid(obj) /\ obj # <<>> =>
         LET over == IF obj[Len(obj) - 1] = Pad THEN obj[Len(obj) - 2] % 16
                     ELSE IF Last(obj) = Pad THEN obj[Len(obj) - 1] % 4 ELSE 0 IN
         (encode(decodeBytes(obj)) = obj) = (over = 0)
-----------------------------------------------------------------------------
(* template_engine: segments are <<kind, key>>; a text's key is its place. *)
(* abs is the context: how often the body of a key's section is rendered,  *)
(* by a list of so many or by what is truthy; keys may be absent.          *)
Keys == {"a", "b"}
Segments == {<<"open", "a">>, <<"invert", "a">>, <<"open", "b">>, <<"close", "a">>, <<"close", "b">>}

\* Where the close tag of a section is that begins at i: only sections of its
\* name count as nested in it, inverted ones do not.
RECURSIVE CloseOf(_, _, _, _), renderRange(_, _, _)
CloseOf(segs, key, i, depth) ==
  IF i > Len(segs) THEN i
  ELSE CASE segs[i] = <<"open", key>> -> CloseOf(segs, key, i + 1, depth + 1)
         [] segs[i] = <<"close", key>> -> IF depth = 1 THEN i ELSE CloseOf(segs, key, i + 1, depth - 1)
         [] OTHER -> CloseOf(segs, key, i + 1, depth)
Times(seg) == IF seg[1] = "invert" THEN (IF abs[seg[2]] = 0 THEN 1 ELSE 0) ELSE abs[seg[2]]
\* The texts that are rendered from i on; a body ends at the first close tag.
renderRange(segs, i, stopAtClose) ==
  IF i > Len(segs) \/ (segs[i][1] = "close" /\ stopAtClose) THEN <<>>
  ELSE CASE segs[i][1] = "close" -> renderRange(segs, i + 1, stopAtClose)
         [] segs[i][1] = "text" -> <<i>> \o renderRange(segs, i + 1, stopAtClose)
         [] OTHER -> LET body == renderRange(segs, i + 1, TRUE) IN
              FlattenSeq([n \in 1..Times(segs[i]) |-> body]) \o renderRange(segs, CloseOf(segs, segs[i][2], i + 1, 1) + 1, stopAtClose)
render == renderRange(obj, 1, FALSE)

TemplateInit == obj = <<>> /\ abs \in [Keys -> {0, 1, 2}]
TemplateNext ==
  /\ Len(obj) < MaxText - 1
  /\ \E s \in Segments \union {<<"text", "t">>} : obj' = Append(obj, s)
  /\ UNCHANGED abs

\* The tags that are open before place i, outermost first; wrong ones make it fail.
Open(segs) ==
  FoldLeft(LAMBDA st, s : CASE s[1] \in {"open", "invert"} -> Append(st, s)
                            [] s[1] = "close" -> IF st # <<>> /\ Last(st)[2] = s[2] THEN Front(st) ELSE Append(st, <<"wrong", "tag">>)
                            [] OTHER -> st, <<>>, segs)
Product(n) == FoldLeft(LAMBDA a, s : a * Times(s), 1, n)
\* In a template whose tags are well nested, and in which no inverted section is
\* in a section of its name, a text is rendered as often as the sections around
\* it say together.
SectionsNest ==
  LET stacks == [i \in DOMAIN obj |-> Open(SubSeq(obj, 1, i))] IN
  /\ Open(obj) = <<>>
  /\ \A i \in DOMAIN obj : \A j, k \in DOMAIN stacks[i] :
       j < k => stacks[i][j][2] # "tag" /\ ~(stacks[i][k][1] = "invert" /\ stacks[i][j][2] = stacks[i][k][2])
  => \A i \in DOMAIN obj : obj[i][1] = "text" => Len(SelectSeq(render, LAMBDA p : p = i)) = Product(stacks[i])
=============================================================================
