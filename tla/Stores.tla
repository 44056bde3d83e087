-------------------------------- MODULE Stores --------------------------------
(***************************************************************************)
(* Three stores that one thread uses, two of which are written to a file   *)
(* and read back: the student managers (01-beginner, v1, and v2 = v3),     *)
(* simple_db and mini_redis (04-stage4).                                   *)
(***************************************************************************)
EXTENDS Naturals, Integers, Sequences, SequencesExt

CONSTANTS MaxStudents, MaxRows,   \* bounds: records of a table
          MaxTime, Ttls           \* bounds: half seconds; seconds to live

VARIABLES
  obj,   \* the store and its file
  abs    \* history: what it was told

Without(s, dropped) == SelectSeq(s, LAMBDA x : x \notin dropped)
-----------------------------------------------------------------------------
(* Students.  v1 writes words, v2 one line per field: a name is one word,  *)
(* several, or none.  updated notes that an update has changed an id.      *)
NoStudents == <<[id |-> 0, name |-> "word"]>>
Students == [id : 1..2, name : {"word", "words", "none"}]

StudentsInit ==
  /\ \E v \in {"v1", "v2"} : obj = [version |-> v, students_ |-> <<>>, file |-> NoStudents]
  /\ abs = [saved |-> <<>>, updated |-> FALSE, loaded |-> FALSE]

Has(id) == \E i \in DOMAIN obj.students_ : obj.students_[i].id = id
FirstOf(id) == CHOOSE i \in DOMAIN obj.students_ : obj.students_[i].id = id /\ \A j \in 1..i - 1 : obj.students_[j].id # id

addStudent(s) ==
  /\ Len(obj.students_) < MaxStudents
  /\ obj.version = "v1" \/ ~Has(s.id)
  /\ obj' = [obj EXCEPT !.students_ = Append(@, s)]
  /\ abs' = [abs EXCEPT !.loaded = FALSE]

\* v1 removes the first with the id, v2 all of them.
removeStudent(id) ==
  /\ Has(id)
  /\ obj' = [obj EXCEPT !.students_ = IF obj.version = "v1" THEN RemoveAt(@, FirstOf(id)) ELSE Without(@, {s \in Students : s.id = id})]
  /\ abs' = [abs EXCEPT !.loaded = FALSE]

\* v1 changes fields of the student, never the id; v2 puts another in its place.
updateStudent(id, s) ==
  /\ Has(id) /\ (obj.version = "v1" => s.id = id)
  /\ obj' = [obj EXCEPT !.students_[FirstOf(id)] = s]
  /\ abs' = [abs EXCEPT !.updated = @ \/ s.id # id, !.loaded = FALSE]

saveToFile ==
  /\ obj' = [obj EXCEPT !.file = obj.students_]
  /\ abs' = [abs EXCEPT !.saved = obj.students_, !.loaded = FALSE]

\* In v1 a name that is not one word shifts the fields: the next number is
\* not one, and >> ends the loop there.
OneWord(s) == s.name = "word"
Readable(file) ==
  SubSeq(file, 1, CHOOSE n \in 0..Len(file) :
    /\ \A i \in 1..n : OneWord(file[i])
    /\ n < Len(file) => ~OneWord(file[n + 1]))
loadFromFile ==
  /\ obj.file # NoStudents
  /\ obj' = [obj EXCEPT !.students_ = IF obj.version = "v1" THEN Readable(obj.file) ELSE obj.file]
  /\ abs' = [abs EXCEPT !.updated = FALSE, !.loaded = TRUE]

\* The program ends and starts: v2 and v3 save on leaving and load on starting.
restart ==
  LET kept == obj.version = "v2" IN
  /\ obj' = [obj EXCEPT !.students_ = IF kept THEN @ ELSE <<>>, !.file = IF kept THEN obj.students_ ELSE @]
  /\ abs' = [abs EXCEPT !.saved = IF kept THEN obj.students_ ELSE @, !.loaded = kept]

StudentsNext ==
  \/ restart
  \/ \E s \in Students : addStudent(s)
  \/ \E id \in 1..2 : removeStudent(id) \/ \E s \in Students : updateStudent(id, s)
  \/ saveToFile \/ loadFromFile

\* v2 keeps ids apart, through saves and loads, as long as no update brought
\* an id along; a load brings back what was saved, in v1 up to a student whose
\* name is not one word.
IdsApart(s) == \A i, j \in DOMAIN s : s[i].id = s[j].id => i = j
StudentsKept ==
  /\ (obj.version = "v2" /\ ~abs.updated /\ IdsApart(abs.saved)) => IdsApart(obj.students_)
  /\ abs.loaded =>
       /\ IsPrefix(obj.students_, abs.saved)
       /\ (obj.version = "v2" \/ \A i \in DOMAIN abs.saved : OneWord(abs.saved[i])) => obj.students_ = abs.saved
-----------------------------------------------------------------------------
(* simple_db: one table, rows of one column or of none.  A value has a     *)
(* type and a text; the file keeps the text.                               *)
Value(type, text) == [type |-> type, text |-> text]
DbValues == {Value("int", "1"), Value("double", "1.000000"), Value("bool", "true"), Value("null", "NULL"),
             Value("string", "abc"), Value("string", "1"), Value("string", "true"), Value("string", "NULL")}
valueToString(v) == v.text
stringToValue(text) ==
  CASE text = "NULL" -> Value("null", text)
    [] text \in {"true", "false"} -> Value("bool", text)
    [] text = "1" -> Value("int", text)
    [] text = "1.000000" -> Value("double", text)
    [] OTHER -> Value("string", text)

EmptyRow == [type |-> "row", text |-> ""]
NoTable == <<[type |-> "none", text |-> ""]>>
NoFile == <<"no file">>
NoTables == <<"no tables">>

DbInit == obj = [table |-> NoTable, file |-> NoFile, threw |-> FALSE] /\ abs = [saved |-> NoTable, loaded |-> FALSE]
Exists == obj.table # NoTable
NotLoaded == abs' = [abs EXCEPT !.loaded = FALSE]

createTable == ~Exists /\ obj' = [obj EXCEPT !.table = <<>>] /\ NotLoaded
dropTable == Exists /\ obj' = [obj EXCEPT !.table = NoTable] /\ NotLoaded
insert(row) == Exists /\ Len(obj.table) < MaxRows /\ obj' = [obj EXCEPT !.table = Append(@, row)] /\ NotLoaded
clear == Exists /\ obj' = [obj EXCEPT !.table = <<>>] /\ NotLoaded

\* The predicate selects the rows equal to a row; without one update() takes
\* all rows and remove() none.
update(chosen, v) ==
  /\ Exists
  /\ obj' = [obj EXCEPT !.table = [i \in DOMAIN @ |-> IF chosen = {} \/ @[i] \in chosen THEN v ELSE @[i]]]
  /\ NotLoaded
remove(chosen) ==
  /\ Exists
  /\ obj' = [obj EXCEPT !.table = Without(@, chosen)]
  /\ NotLoaded

ToText(row) == IF row = EmptyRow THEN "ROW" ELSE valueToString(row)
save ==
  /\ obj' = [obj EXCEPT !.file = IF Exists THEN [i \in DOMAIN obj.table |-> ToText(obj.table[i])] ELSE NoTables]
  /\ abs' = [saved |-> obj.table, loaded |-> FALSE]

\* The line of an empty row is "ROW", and substr(4) of it throws.
load ==
  /\ obj.file # NoFile
  /\ LET bad == obj.file # NoTables /\ \E i \in DOMAIN obj.file : obj.file[i] = "ROW"
         upto == CHOOSE n \in 0..Len(obj.file) : /\ \A i \in 1..n : obj.file[i] # "ROW"
                                                 /\ n < Len(obj.file) => obj.file[n + 1] = "ROW" IN
     obj' = [obj EXCEPT !.threw = bad,
                        !.table = IF obj.file = NoTables THEN NoTable
                                  ELSE [i \in 1..upto |-> stringToValue(obj.file[i])]]
  /\ abs' = [abs EXCEPT !.loaded = TRUE]

DbNext ==
  \/ createTable \/ dropTable \/ clear \/ save \/ load
  \/ \E row \in DbValues \union {EmptyRow} : insert(row)
  \/ \E chosen \in {{}} \union {{v} : v \in DbValues}, v \in {Value("int", "1"), Value("string", "abc")} : update(chosen, v) \/ remove(chosen)

\* load() after save() brings back the rows that were saved, in their order and
\* with their types, but for texts that look like another type's and unless a
\* row was empty.
Plain(row) == row # EmptyRow /\ stringToValue(row.text) = row
Unreadable(rows) == rows # NoTable /\ EmptyRow \in {rows[i] : i \in DOMAIN rows}
SavedComesBack ==
  abs.loaded =>
    /\ obj.threw = Unreadable(abs.saved)
    /\ (abs.saved # NoTable /\ ~obj.threw) => /\ Len(obj.table) = Len(abs.saved)
                             /\ \A i \in DOMAIN obj.table : Plain(abs.saved[i]) => obj.table[i] = abs.saved[i]
    /\ abs.saved = NoTable => ~Exists
-----------------------------------------------------------------------------
(* mini_redis: entries stay in kv_ until something meets them after their  *)
(* time.  now counts half seconds.  The history has the keys that are      *)
(* alive, as a clock would keep them that takes each out in time.          *)
Keys == {"k", "l"}
Never == MaxTime + 100
Text == 9   \* a value that is not a number
Nil == -1
OK == -2
Silent == -3
RedisInit ==
  /\ obj = [kv_ |-> [k \in {} |-> 0], now |-> 0, answer |-> Silent]
  /\ abs = [live |-> [k \in {} |-> 0], answer |-> Silent]

Restrict2(f, S) == [k \in DOMAIN f \intersect S |-> f[k]]
With(f, k, e) == [j \in DOMAIN f \union {k} |-> IF j = k THEN e ELSE f[j]]
Drop1(f, k) == Restrict2(f, DOMAIN f \ {k})
Entry(v, at) == [value |-> v, expiresAt |-> at]
expired(e) == e.expiresAt <= obj.now
MutKnown(k) == k \in DOMAIN obj.kv_
Known(k) == k \in DOMAIN obj.kv_ /\ ~expired(obj.kv_[k])
purge(kv) == Restrict2(kv, {k \in DOMAIN kv : ~expired(kv[k])})
Store(kv, a) == obj' = [obj EXCEPT !.kv_ = kv, !.answer = a]
Expect(live, a) == abs' = [live |-> live, answer |-> a]

set(k, v, at) ==
  /\ Store(purge(With(obj.kv_, k, Entry(v, at))), OK)
  /\ Expect(With(abs.live, k, Entry(v, at)), OK)

get(k) ==
  /\ IF Known(k) THEN Store(obj.kv_, obj.kv_[k].value) ELSE Store(Drop1(obj.kv_, k), Nil)
  /\ Expect(abs.live, IF k \in DOMAIN abs.live THEN abs.live[k].value ELSE Nil)

del(k) ==
  /\ Store(Drop1(obj.kv_, k), IF Known(k) THEN 1 ELSE 0)
  /\ Expect(Drop1(abs.live, k), IF k \in DOMAIN abs.live THEN 1 ELSE 0)

\* incr() makes a new entry: the time to live of the old one is gone.
incr(k) ==
  LET Sum1(e) == IF e.value = Text THEN Nil ELSE e.value + 1
      v == IF Known(k) THEN Sum1(obj.kv_[k]) ELSE 1
      w == IF k \in DOMAIN abs.live THEN Sum1(abs.live[k]) ELSE 1 IN
  /\ v # 3    \* bound
  /\ IF v = Nil THEN Store(obj.kv_, v) ELSE Store(With(obj.kv_, k, Entry(v, Never)), v)
  /\ IF w = Nil THEN Expect(abs.live, w) ELSE Expect(With(abs.live, k, Entry(w, Never)), w)

expire(k, ttl) ==
  /\ IF ~Known(k) THEN Store(Drop1(obj.kv_, k), 0)
     ELSE IF ttl <= 0 THEN Store(Drop1(obj.kv_, k), 1)
     ELSE Store([obj.kv_ EXCEPT ![k].expiresAt = obj.now + 2 * ttl], 1)
  /\ LET known == k \in DOMAIN abs.live IN
     Expect(IF ~known THEN abs.live
            ELSE IF ttl <= 0 THEN Drop1(abs.live, k)
            ELSE [abs.live EXCEPT ![k].expiresAt = obj.now + 2 * ttl], IF known THEN 1 ELSE 0)

\* The time that remains, in seconds: both conditions add one in the last.
ttlSeconds(k) ==
  LET remain == obj.kv_[k].expiresAt - obj.now
      secs == IF remain < 2 THEN 1 ELSE remain \div 2 IN
  IF ~Known(k) THEN -2
  ELSE IF obj.kv_[k].expiresAt = Never THEN -1
  ELSE IF remain > 2 * (remain \div 2) THEN secs + 1 ELSE secs

Tick ==
  /\ obj.now < MaxTime
  /\ obj' = [obj EXCEPT !.now = @ + 1, !.answer = Silent]
  /\ Expect(Restrict2(abs.live, {k \in DOMAIN abs.live : abs.live[k].expiresAt > obj.now + 1}), Silent)

\* execute(): the checks of arity and of numbers leave these calls.
RedisNext ==
  \/ \E k \in Keys :
       \/ get(k) \/ del(k) \/ incr(k)
       \/ \E v \in {Text, 1}, at \in {Never} \union {obj.now + 2 * t : t \in Ttls} : set(k, v, at)
       \/ \E ttl \in Ttls \union {0} : expire(k, ttl)
  \/ Tick

\* Lazy expiry cannot be told from a store that drops each key in time: the
\* answers, the size and the keys are the same, whatever dead entries kv_ has.
\* A TTL is what remains, rounded up to seconds as the header says, and one second
\* more in the last second but at its beginning: 0.5 s are answered with 2.
dbSize == {k \in DOMAIN obj.kv_ : ~expired(obj.kv_[k])}
ExpiresInTime ==
  /\ obj.answer = abs.answer
  /\ dbSize = DOMAIN abs.live
  /\ \A k \in Keys :
       LET t == ttlSeconds(k) IN
       /\ t = -2 <=> k \notin DOMAIN abs.live
       /\ t = -1 <=> (k \in DOMAIN abs.live /\ abs.live[k].expiresAt = Never)
       /\ t >= 0 => LET remain == abs.live[k].expiresAt - obj.now IN t = (remain + 1) \div 2 + (IF remain < 2 THEN 1 ELSE 0)
-----------------------------------------------------------------------------
(* The menu of the student managers v2 and v3: main() asks for a choice    *)
(* and the handlers for their fields, numbers until one can be read, lines *)
(* as they come; at the end of the input a line is empty and a number is   *)
(* asked for again and again.                                              *)
Missing == {0}   \* a file that is not there
FileNames == {"students.txt", "other"}
DialogueInit ==
  \E file \in {Missing, {1}, {1, 2}} :
    /\ obj = [students_ |-> file \ Missing, files |-> [n \in FileNames |-> IF n = "other" THEN Missing ELSE file],
              at |-> "menu", answers |-> <<>>, asks |-> "once", eof |-> FALSE]
    /\ abs = [unsaved |-> FALSE, choice0 |-> FALSE, files |-> obj.files, students |-> obj.students_]
MenuChoices == <<"handleAdd", "handleRemove", "handleFind", "handleDisplayAll", "handleSave", "handleLoad">>
handleAdd == <<"id", "line", "number", "line", "number", "line", "number">>
handleId == <<"id">>
handleFile == <<"name">>
Questions == CASE obj.at = "menu" -> <<"choice">> [] obj.at = "handleAdd" -> handleAdd
               [] obj.at \in {"handleSave", "handleLoad"} -> handleFile [] OTHER -> handleId
Question == Questions[Len(obj.answers) + 1]

Back(o) == [o EXCEPT !.at = "menu", !.answers = <<>>, !.asks = "once"]
Changed(o) == abs' = [abs EXCEPT !.unsaved = @ \/ o.students_ # obj.students_] /\ obj' = Back(o)
\* saveToFile() of a name that cannot be opened changes nothing.
handleSave(name) ==
  /\ obj' = Back(IF name \in FileNames THEN [obj EXCEPT !.files[name] = obj.students_] ELSE obj)
  /\ abs' = [abs EXCEPT !.unsaved = @ /\ name # "students.txt"]
handleLoad(name) ==
  IF name \in FileNames /\ obj.files[name] # Missing THEN Changed([obj EXCEPT !.students_ = obj.files[name]]) ELSE Changed(obj)
handleChoice(n) ==
  \/ /\ n \in DOMAIN MenuChoices /\ MenuChoices[n] # "handleDisplayAll"
     /\ obj' = [Back(obj) EXCEPT !.at = MenuChoices[n]]
     /\ UNCHANGED abs
  \/ /\ n # 0 /\ (n \in DOMAIN MenuChoices => MenuChoices[n] = "handleDisplayAll")
     /\ Changed(obj)
  \/ /\ n = 0
     /\ obj' = [obj EXCEPT !.at = "ended", !.files["students.txt"] = obj.students_]
     /\ abs' = [abs EXCEPT !.unsaved = FALSE, !.choice0 = TRUE]
Handled(given) ==
  CASE obj.at = "menu" -> handleChoice(given[1])
    [] obj.at = "handleAdd" -> Changed([obj EXCEPT !.students_ = @ \union {given[1]}])
    [] obj.at = "handleRemove" -> Changed([obj EXCEPT !.students_ = @ \ {given[1]}])
    [] obj.at = "handleFind" -> Changed(obj)
    [] obj.at = "handleSave" -> handleSave(given[1])
    [] OTHER -> handleLoad(given[1])
Give(a) ==
  LET given == Append(obj.answers, a) IN
  IF Len(given) = Len(Questions) THEN Handled(given)
  ELSE obj' = [obj EXCEPT !.answers = given, !.asks = "once"] /\ UNCHANGED abs
Numbers == CASE Question = "choice" -> 0..7 [] Question = "id" -> 1..2 [] OTHER -> {1}
readInt(n) == obj.at # "ended" /\ ~obj.eof /\ Question \in {"choice", "id"} /\ n \in Numbers /\ Give(n)
readDouble == obj.at # "ended" /\ ~obj.eof /\ Question = "number" /\ Give(1)
askAgain == obj.at # "ended" /\ Question \in {"choice", "id", "number"} /\ obj' = [obj EXCEPT !.asks = "again"] /\ UNCHANGED abs
readLine(name) ==
  /\ obj.at # "ended" /\ (obj.eof => name = "")
  /\ IF Question = "name" THEN Give(name) ELSE Question = "line" /\ name = "" /\ Give(name)
endOfInput ==
  /\ obj.at # "ended" /\ ~obj.eof
  /\ obj' = [obj EXCEPT !.eof = TRUE]
  /\ abs' = [abs EXCEPT !.files = obj.files, !.students = obj.students_]
DialogueNext ==
  \/ \E n \in 0..7 : readInt(n)
  \/ readDouble
  \/ \E name \in FileNames \union {""} : readLine(name)
  \/ askAgain \/ endOfInput

\* The students in memory are those of students.txt unless a dialogue that was carried to
\* its end has changed them since it was written; the program ends by choice 0 only, with
\* everything saved.  When its input ends before, it does not end, no file is written any
\* more and no student changes: what was not saved until then is lost.
DialogueKeeps ==
  /\ ~abs.unsaved => obj.files["students.txt"] = obj.students_ \/ (obj.files["students.txt"] = Missing /\ obj.students_ = {})
  /\ obj.at = "ended" => abs.choice0 /\ ~abs.unsaved
  /\ obj.eof => obj.at # "ended" /\ obj.files = abs.files /\ obj.students_ = abs.students
=============================================================================
