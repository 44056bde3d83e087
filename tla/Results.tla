-------------------------------- MODULE Results --------------------------------
(***************************************************************************)
(* Results, tests and ranges of the roadmap: result_type, expected_pattern,*)
(* error_code and error_category (stage 37), golden_file_testing,          *)
(* mock_objects, test_fixture and parameterized_tests (stage 38),          *)
(* ranges_pattern and coroutine_pattern (stage 36), generator_pipeline     *)
(* and zip_range (stage 40), simd_pattern and cache_friendly               *)
(* (stage 42), and the format() of varargs_pattern (stage 34).             *)
(***************************************************************************)
EXTENDS Naturals, Integers, Sequences, SequencesExt, FiniteSets, FiniteSetsExt, TLC

CONSTANTS MaxSize,   \* bound: elements of a list, symbols of a text
          MaxUses    \* bound: calls of a history

VARIABLES
  obj,
  abs    \* history, or what obj is compared with
-----------------------------------------------------------------------------
(* expected_pattern and result_type: a value goes through functions that   *)
(* may fail; abs has the functions that were called.                       *)
ExpectedInit == obj \in [hasValue_ : BOOLEAN, data_ : {0}, err_ : {0}, steps : {0}] /\ abs = {}
andThen(fails) ==
  /\ obj.steps < MaxUses
  /\ obj' = [obj EXCEPT !.steps = @ + 1, !.hasValue_ = @ /\ ~fails,
                        !.data_ = IF obj.hasValue_ /\ ~fails THEN @ + 1 ELSE IF obj.hasValue_ THEN 0 ELSE @,
                        !.err_ = IF obj.hasValue_ /\ fails THEN obj.steps + 1 ELSE @]
  /\ abs' = IF obj.hasValue_ THEN abs \union {obj.steps + 1} ELSE abs
map == andThen(FALSE)
valueOr(default) == IF obj.hasValue_ THEN obj.data_ ELSE default
ExpectedNext == map \/ andThen(TRUE)
\* The first error is the one that is left, no function is called after it, and the value
\* of one that never failed has been through all of them.
FirstErrorLeft ==
  /\ abs = 1..Cardinality(abs)
  /\ obj.hasValue_ => abs = 1..obj.steps /\ valueOr(0 - 1) = obj.steps
  /\ ~obj.hasValue_ => obj.err_ = Cardinality(abs) /\ valueOr(0 - 1) = 0 - 1
-----------------------------------------------------------------------------
(* parseInt() of result_type, by std::stoi: what follows the digits is not *)
(* looked at.                                                              *)
NumberInit == obj \in BoundedSeq({"blank", "-", "1", "2", "x"}, MaxSize) /\ abs = obj
Digit(c) == IF c = "1" THEN 1 ELSE 2
SkipBlanks(s) == LET kept == {i \in DOMAIN s : s[i] # "blank"} IN IF kept = {} THEN Len(s) + 1 ELSE Min(kept)
DigitsFrom(s, i) == LET others == {j \in i..Len(s) : s[j] \notin {"1", "2"}} IN SubSeq(s, i, (IF others = {} THEN Len(s) + 1 ELSE Min(others)) - 1)
parseInt(s) ==
  LET i == SkipBlanks(s)  minus == i <= Len(s) /\ s[i] = "-"  digits == DigitsFrom(s, IF minus THEN i + 1 ELSE i)
      n == FoldLeft(LAMBDA total, c : 10 * total + Digit(c), 0, digits) IN
  IF digits = <<>> THEN "Invalid integer" ELSE ToString(IF minus THEN 0 - n ELSE n)
NumberNext == Len(obj) < MaxSize /\ obj' = Append(obj, "x") /\ UNCHANGED abs
\* A text is an integer if and only if it starts with one: what is added after it does not
\* change the number, or make one of what is none.
IntegersStart == parseInt(obj) = parseInt(abs)
-----------------------------------------------------------------------------
(* error_category: the codes of Errc are 0 to 6; a condition is <<code,    *)
(* category>>.                                                             *)
Errc == 0..6
ErrorInit == obj \in 0..7 /\ abs = {}
Standard(code) == <<"none", "no_such_file", "invalid_argument", "timed_out", "permission_denied", "no_space", "io_error">>[code + 1]
default_error_condition(code) ==
  CASE code = 0 -> <<"0", "generic">>
    [] code \in Errc -> <<Standard(code), "generic">>
    [] OTHER -> <<ToString(code), "my_error">>
make_error_condition(code) == IF code = 0 THEN <<"0", "system">> ELSE default_error_condition(code)
ErrorNext == obj \in Errc /\ obj' = obj + 1 /\ UNCHANGED abs
\* A code equals the condition that is made of it, but for the code of success, whose
\* condition is of another category; no two codes are one condition, and one that is not
\* of the list equals no standard condition.
CodesAreConditions ==
  /\ (default_error_condition(obj) = make_error_condition(obj)) <=> obj # 0
  /\ \A e \in Errc : e # obj => default_error_condition(e) # default_error_condition(obj)
  /\ default_error_condition(obj)[2] = "generic" <=> obj \in Errc
-----------------------------------------------------------------------------
(* error_code: the UserService answers with a code.                        *)
ServiceInit == obj = [users_ |-> {}, code_ |-> "None"] /\ abs = [id |-> 0, was |-> FALSE]
addUser(id) == obj' = [users_ |-> obj.users_ \union {id}, code_ |-> "None"] /\ abs' = [id |-> 0, was |-> FALSE]
deleteUser(id) ==
  /\ obj' = IF id <= 0 THEN [obj EXCEPT !.code_ = "InvalidArgument"]
            ELSE IF id \notin obj.users_ THEN [obj EXCEPT !.code_ = "NotFound"]
            ELSE [users_ |-> obj.users_ \ {id}, code_ |-> "None"]
  /\ abs' = [id |-> id, was |-> id \in obj.users_]
ServiceNext == \E id \in 0 - 1..3 : addUser(id) \/ deleteUser(id)
\* A deletion says None only of a user that was there and is there no more; a user that was
\* added with an id below one cannot be deleted.
DeletedOnce ==
  abs.id # 0 => /\ obj.code_ = "None" <=> abs.was /\ abs.id \notin obj.users_
                /\ abs.was /\ abs.id \in obj.users_ => abs.id < 0 /\ obj.code_ = "InvalidArgument"
-----------------------------------------------------------------------------
(* golden_file_testing: file is the golden file, report what a check said. *)
Texts == BoundedSeq({"a", "b", "nl"}, 3)
Missing == <<"none">>
GoldenInit == obj \in [file : {Missing} \union Texts, report : {"none"}, update : BOOLEAN] /\ abs = [before |-> obj.file, actual |-> <<>>]
RECURSIVE splitLines(_)
splitLines(s) ==
  IF s = <<>> THEN <<>>
  ELSE LET at == {i \in DOMAIN s : s[i] = "nl"}  n == IF at = {} THEN Len(s) + 1 ELSE Min(at) IN
       <<SubSeq(s, 1, n - 1)>> \o splitLines(SubSeq(s, n + 1, Len(s)))
diffLines(s, t) ==
  LET e == splitLines(s)  a == splitLines(t)  n == Max({Len(e), Len(a)})
      LineOf(l, i) == IF i <= Len(l) THEN l[i] ELSE Missing IN
  {i \in 1..n : LineOf(e, i) # LineOf(a, i)}
checkGolden(actual) ==
  /\ obj' = IF obj.file = Missing THEN (IF obj.update THEN [obj EXCEPT !.file = actual, !.report = ""] ELSE [obj EXCEPT !.report = "missing"])
            ELSE IF obj.file = actual THEN [obj EXCEPT !.report = ""]
            ELSE [obj EXCEPT !.report = IF diffLines(obj.file, actual) = {} THEN "no per-line diff" ELSE "mismatch"]
  /\ abs' = [before |-> obj.file, actual |-> actual]
GoldenNext == obj.report = "none" /\ \E actual \in Texts : checkGolden(actual)
\* A check is passed only if the file has the text afterwards, and writes only a file that
\* was missing, when that was asked for; texts whose lines are the same fail all the same,
\* and the one has a line end more.
GoldenHolds ==
  obj.report # "none" =>
    /\ obj.report = "" <=> obj.file = abs.actual
    /\ obj.file # abs.before => abs.before = Missing /\ obj.update
    /\ obj.report = "no per-line diff" => abs.actual \in {Append(obj.file, "nl"), Front(obj.file)} \/ Append(abs.actual, "nl") = obj.file
-----------------------------------------------------------------------------
(* mock_objects: a repository over the mock; got is its last answer.       *)
MockInit ==
  obj = [shouldSucceed_ |-> TRUE, connected_ |-> FALSE, disconnectCalled_ |-> FALSE, queryHandler_ |-> "none",
         connectCalls_ |-> 0, queryCalls_ |-> <<>>, got |-> "none"] /\ abs = <<>>
setShouldSucceed(b) == obj' = [obj EXCEPT !.shouldSucceed_ = b, !.got = "none"] /\ UNCHANGED abs
setConnected(b) == obj' = [obj EXCEPT !.connected_ = b, !.got = "none"] /\ UNCHANGED abs
setQueryHandler(h) == obj' = [obj EXCEPT !.queryHandler_ = h, !.got = "none"] /\ UNCHANGED abs
Answer(b) == IF b THEN "true" ELSE "false"
initialize == obj.connectCalls_ < 1 /\ obj' = [obj EXCEPT !.connectCalls_ = @ + 1, !.got = Answer(obj.shouldSucceed_)] /\ UNCHANGED abs
findUser(name) ==
  /\ Len(abs) < MaxUses
  /\ obj' = [obj EXCEPT !.queryCalls_ = Append(@, name), !.got = IF obj.queryHandler_ # "none" THEN obj.queryHandler_ ELSE Answer(obj.shouldSucceed_)]
  /\ abs' = Append(abs, name)
shutdown == obj' = [obj EXCEPT !.disconnectCalled_ = TRUE, !.got = "none"] /\ UNCHANGED abs
MockNext ==
  \/ initialize \/ shutdown
  \/ \E b \in BOOLEAN : setShouldSucceed(b) \/ setConnected(b)
  \/ \E name \in {"u", "v"} : findUser(name)
  \/ \E h \in {"none", "true", "false"} : setQueryHandler(h)
\* The mock has each query the repository made, in order, also those after its shutdown or
\* before a connection; a handler answers whatever the success that was set; and a
\* connection that succeeds does not make the mock connected.
MockRemembers ==
  /\ obj.queryCalls_ = abs
  /\ obj.got # "none" /\ obj.queryHandler_ = "none" => obj.got = Answer(obj.shouldSucceed_)
-----------------------------------------------------------------------------
(* parameterized_tests and test_fixture: a run over tests that pass, fail  *)
(* or throw; a fixture whose list is set up for each.                      *)
RunInit == obj \in [tests_ : BoundedSeq({"passes", "fails", "throws"}, 3), at : {0}, passed : {0}, failures : {<<>>}, items : {<<>>}, nextId_ : {1}] /\ abs = "none"
setup == /\ abs = "none" /\ obj.at < Len(obj.tests_)
         /\ obj' = [obj EXCEPT !.at = @ + 1, !.items = <<1, 2, 3>>, !.nextId_ = 4] /\ abs' = "set up"
addItem == abs = "set up" /\ Len(obj.items) < 4 /\ obj' = [obj EXCEPT !.items = Append(@, obj.nextId_), !.nextId_ = @ + 1] /\ UNCHANGED abs
removeItem(id) == abs = "set up" /\ obj' = [obj EXCEPT !.items = SelectSeq(@, LAMBDA i : i # id)] /\ UNCHANGED abs
testEnds ==
  LET t == obj.tests_[obj.at] IN
  /\ abs = "set up"
  /\ obj' = CASE t = "passes" -> [obj EXCEPT !.passed = @ + 1] [] t = "fails" -> [obj EXCEPT !.failures = Append(@, obj.at)] [] OTHER -> obj
  /\ abs' = IF t = "throws" THEN "left" ELSE "none"
RunNext == setup \/ addItem \/ testEnds \/ \E id \in 1..3 : removeItem(id)
\* Each test has passed or failed, in order, until one throws: its exception leaves the run,
\* and with it all results; no two items have one id, whatever was removed.
RunCounts ==
  /\ abs = "none" => obj.passed + Len(obj.failures) = obj.at
  /\ abs = "left" => obj.tests_[obj.at] = "throws"
  /\ \A i \in DOMAIN obj.failures : obj.tests_[obj.failures[i]] = "fails"
  /\ IsInjective(obj.items) /\ \A i \in DOMAIN obj.items : obj.items[i] < obj.nextId_
-----------------------------------------------------------------------------
(* The functions that are tested there: fibonacci(46) is the last in an    *)
(* int.                                                                    *)
FunctionsInit == obj = 0 /\ abs = <<0, 1>>
isPrime(n) == n >= 2 /\ \A i \in 2..n : i * i <= n => n % i # 0
fibonacci(n) == IF n <= 0 THEN 0 ELSE FoldLeft(LAMBDA s, i : <<s[2], s[1] + s[2]>>, <<0, 1>>, [i \in 1..n - 1 |-> i])[2]
FunctionsNext == obj < 45 /\ obj' = obj + 1 /\ abs' = <<abs[2], abs[1] + abs[2]>>
\* fibonacci() is the sum of its two before, and isPrime() looks far enough.
FunctionsAgree ==
  /\ fibonacci(obj) = abs[1]
  /\ isPrime(obj) <=> obj > 1 /\ \A a, b \in 2..obj : a * b # obj
-----------------------------------------------------------------------------
(* coroutine_pattern: a generator whose body yields the items 1 to last    *)
(* and then returns or throws; the exception goes nowhere.                 *)
GeneratorInit == obj \in [last : 0..3, throws : BOOLEAN, at : {0}, done : {FALSE}, current_value : {0}, handle_ : {TRUE}] /\ abs = <<>>
nextValue ==
  /\ Len(abs) < MaxUses + 2
  /\ IF ~obj.handle_ \/ obj.done THEN abs' = Append(abs, 0) /\ UNCHANGED obj
     ELSE IF obj.at < obj.last
     THEN obj' = [obj EXCEPT !.at = @ + 1, !.current_value = obj.at + 1] /\ abs' = Append(abs, obj.at + 1)
     ELSE obj' = [obj EXCEPT !.done = TRUE] /\ abs' = Append(abs, 0)
moveAway == obj.handle_ /\ obj' = [obj EXCEPT !.handle_ = FALSE] /\ UNCHANGED abs
GeneratorNext == nextValue \/ moveAway
\* next() gives the items one after the other and then none for ever, whether the body came
\* to its end or threw; the last item stays what value() gives.
ItemsInOrder ==
  /\ \A i, j \in DOMAIN abs : i < j /\ abs[i] = 0 => abs[j] = 0
  /\ SelectSeq(abs, LAMBDA v : v # 0) = [i \in 1..obj.at |-> i]
  /\ abs # <<>> /\ obj.handle_ /\ obj.at > 0 => obj.current_value = obj.at
-----------------------------------------------------------------------------
(* generator_pipeline: iota(0, to) through a filter of the even numbers    *)
(* and take(n); the consumer pulls, or stops.  made is what iota has       *)
(* yielded.                                                                *)
PullInit == obj \in [to : 0..5, n : 0..3, made : {0}, got : {<<>>}, pulling : {FALSE}, ended : {FALSE}] /\ abs = 0
pull == ~obj.pulling /\ ~obj.ended /\ obj' = [obj EXCEPT !.pulling = Len(obj.got) < obj.n, !.ended = Len(obj.got) >= obj.n] /\ abs' = abs + 1
iota ==
  /\ obj.pulling
  /\ IF obj.made = obj.to THEN obj' = [obj EXCEPT !.pulling = FALSE, !.ended = TRUE]
     ELSE obj' = [obj EXCEPT !.made = @ + 1,
                             !.pulling = obj.made % 2 # 0,
                             !.got = IF obj.made % 2 = 0 THEN Append(@, obj.made) ELSE @]
  /\ UNCHANGED abs
PullNext == pull \/ iota
\* Nothing is made before it is asked for, and nothing after the last that is taken; what is
\* taken are the first numbers the filter lets through, as many as there are.
PulledAsNeeded ==
  /\ obj.got = [i \in DOMAIN obj.got |-> 2 * (i - 1)] /\ Len(obj.got) <= Min({obj.n, abs})
  /\ ~obj.pulling /\ obj.made < obj.to => obj.made = IF obj.got = <<>> THEN 0 ELSE Last(obj.got) + 1
  /\ obj.ended => Len(obj.got) = Min({obj.n, (obj.to + 1) \div 2})
-----------------------------------------------------------------------------
(* zip_range: a loop over two lists, of sizes m and n, that may change; it *)
(* ends at the smaller size there was at its start.                        *)
ZipInit == obj \in [m : 0..3, n : 0..3, idx_ : {0}, end : {0 - 1}, thrown : {FALSE}] /\ abs = {}
beginZip == obj.end < 0 /\ obj' = [obj EXCEPT !.end = Min({obj.m, obj.n})] /\ UNCHANGED abs
visitPair ==
  /\ obj.idx_ < obj.end /\ ~obj.thrown
  /\ IF obj.idx_ < obj.m /\ obj.idx_ < obj.n
     THEN obj' = [obj EXCEPT !.idx_ = @ + 1] /\ abs' = abs \union {obj.idx_}
     ELSE obj' = [obj EXCEPT !.thrown = TRUE] /\ UNCHANGED abs
resizeList(size) == obj.end >= 0 /\ obj' = [obj EXCEPT !.m = size] /\ UNCHANGED abs
ZipNext == beginZip \/ visitPair \/ \E size \in 0..3 : resizeList(size)
\* Each pair up to the end that was found first is visited, in order; a list that got
\* shorter makes the loop end by an exception, and one that grew is not seen.
ZippedPairs == abs = 0..obj.idx_ - 1 /\ (obj.end >= 0 => obj.idx_ <= obj.end) /\ (obj.thrown => obj.idx_ < obj.end)
-----------------------------------------------------------------------------
(* simd_pattern: four elements at a time and then the rest; sums are the   *)
(* four of dotProduct().  b has at least as many elements as a.            *)
VectorInit ==
  /\ obj \in [a : BoundedSeq(1..2, MaxSize), i : {0}, result : {<<>>}, sums : {<<0, 0, 0, 0>>}, sum : {0}]
  /\ abs = [k \in 1..MaxSize |-> k]
Product(k) == obj.a[k] * abs[k]
fourAtOnce ==
  /\ obj.i + 4 <= Len(obj.a)
  /\ obj' = [obj EXCEPT !.i = @ + 4, !.result = @ \o [k \in 1..4 |-> Product(obj.i + k)], !.sums = [k \in 1..4 |-> @[k] + Product(obj.i + k)]]
  /\ UNCHANGED abs
oneOfRest ==
  /\ obj.i + 4 > Len(obj.a) /\ obj.i < Len(obj.a)
  /\ obj' = [obj EXCEPT !.i = @ + 1, !.result = Append(@, Product(obj.i + 1)), !.sum = @ + Product(obj.i + 1)]
  /\ UNCHANGED abs
VectorNext == fourAtOnce \/ oneOfRest
\* Whatever the number of elements, at the end each has been multiplied once, at its place,
\* and the four sums and the rest are the dot product.
VectorsMultiplied ==
  /\ obj.result = [k \in 1..obj.i |-> Product(k)]
  /\ FoldLeft(+, obj.sum, obj.sums) = FoldLeft(LAMBDA s, k : s + Product(k), 0, [k \in 1..obj.i |-> k])
-----------------------------------------------------------------------------
(* cache_friendly: the same particles as records and as columns.           *)
Columns == {"x", "vx", "mass", "life"}
ParticleInit == obj = [particles_ |-> <<>>, columns |-> [c \in Columns |-> <<>>], count |-> 0] /\ abs = <<>>
Particle(x, mass) == [c \in Columns |-> CASE c = "x" -> x [] c = "mass" -> mass [] c = "life" -> 1 [] OTHER -> 0]
addParticle(x, mass) ==
  /\ Len(abs) < MaxUses
  /\ obj' = [particles_ |-> Append(obj.particles_, Particle(x, mass)), count |-> obj.count + 1,
             columns |-> [c \in Columns |-> Append(obj.columns[c], Particle(x, mass)[c])]]
  /\ abs' = Append(abs, x)
updatePositions(dt) ==
  /\ obj' = [obj EXCEPT !.particles_ = [p \in DOMAIN @ |-> [@[p] EXCEPT !.x = @ + obj.particles_[p].vx * dt]],
                        !.columns.x = [p \in 1..obj.count |-> @[p] + obj.columns.vx[p] * dt]]
  /\ UNCHANGED abs
totalMass(of) == FoldLeft(LAMBDA s, p : s + of[p], 0, [p \in 1..obj.count |-> p])
ParticleNext == updatePositions(2) \/ \E x, mass \in 1..2 : addParticle(x, mass)
\* The two layouts have the same particles and the same mass; a particle is added without a
\* velocity, and nothing that is updated moves.
LayoutsAgree ==
  /\ \A c \in Columns : obj.columns[c] = [p \in DOMAIN obj.particles_ |-> obj.particles_[p][c]]
  /\ obj.count = Len(obj.particles_) /\ totalMass(obj.columns.mass) = totalMass([p \in 1..obj.count |-> obj.particles_[p].mass])
  /\ obj.columns.x = abs
-----------------------------------------------------------------------------
(* ranges_pattern: each stage makes a range of its own of the one before.  *)
RangeInit == obj \in [data_ : BoundedSeq(1..3, MaxSize), stages : {0}] /\ abs = obj.data_
filter(P) == SelectSeq(obj.data_, LAMBDA v : v \in P)
mapped(k) == [i \in DOMAIN obj.data_ |-> obj.data_[i] + k]
take(n) == SubSeq(obj.data_, 1, Min({n, Len(obj.data_)}))
skip(n) == IF n >= Len(obj.data_) THEN <<>> ELSE SubSeq(obj.data_, n + 1, Len(obj.data_))
stage(r) == obj.stages < 2 /\ obj' = [data_ |-> r, stages |-> obj.stages + 1] /\ UNCHANGED abs
RangeNext == stage(filter({1, 2})) \/ stage(mapped(1)) \/ \E n \in 0..2 : stage(take(n)) \/ stage(skip(n))
\* What is taken and what is skipped make up the range, and a range is never longer, or in
\* another order, than the one it was made of.
RangesSplit ==
  /\ \A n \in 0..MaxSize + 1 : take(n) \o skip(n) = obj.data_
  /\ Len(obj.data_) <= Len(abs)
  /\ \E at \in SUBSET DOMAIN abs : Cardinality(at) = Len(obj.data_)
       /\ \E up \in 0..2 : LET kept == SetToSortSeq(at, <) IN obj.data_ \in {[i \in DOMAIN kept |-> abs[kept[i]] + up]}
-----------------------------------------------------------------------------
(* format() of varargs_pattern: arguments are put where the braces are.    *)
Braces == {"{", "}", "c"}
FormatInit == obj \in [fmt : BoundedSeq(Braces, MaxSize), pos : {1}, argIdx : {0}, out : {<<>>}, args : 0..2] /\ abs = obj.fmt
Placeholders(from) == {i \in from..Len(obj.fmt) - 1 : obj.fmt[i] = "{" /\ obj.fmt[i + 1] = "}"}
Arg(k) == <<"{", "}", ToString(k)>>
formatNext ==
  /\ obj.pos <= Len(obj.fmt)
  /\ IF Placeholders(obj.pos) = {} THEN obj' = [obj EXCEPT !.out = @ \o SubSeq(obj.fmt, obj.pos, Len(obj.fmt)), !.pos = Len(obj.fmt) + 1]
     ELSE LET at == Min(Placeholders(obj.pos)) IN
          obj' = [obj EXCEPT !.pos = at + 2, !.argIdx = IF @ < obj.args THEN @ + 1 ELSE @,
                             !.out = @ \o SubSeq(obj.fmt, obj.pos, at - 1) \o (IF obj.argIdx < obj.args THEN Arg(obj.argIdx + 1) ELSE <<>>)]
  /\ UNCHANGED abs
FormatNext == formatNext
\* At the end each argument is where its braces were, also if it has braces itself; braces
\* without an argument are gone, and arguments without braces are not shown.
FormattedInPlace ==
  LET n == Cardinality(Placeholders(1)) IN
  obj.pos > Len(obj.fmt) =>
    /\ obj.argIdx = Min({n, obj.args})
    /\ Len(obj.out) = Len(abs) - 2 * n + 3 * obj.argIdx
    /\ SelectSeq(obj.out, LAMBDA c : c \in {"1", "2"}) = [k \in 1..obj.argIdx |-> ToString(k)]
=============================================================================
