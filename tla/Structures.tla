------------------------------ MODULE Structures ------------------------------
(***************************************************************************)
(* The patterns of the roadmap that put objects together: package_manager, *)
(* ci_cd_pattern and cmake_pattern (stage 43), builder, interpreter,       *)
(* decorator, adapter, template method, facade, abstract factory, bridge,  *)
(* delegation, singleton, type erasure and CRTP.                           *)
(***************************************************************************)
EXTENDS Naturals, Integers, Sequences, SequencesExt, FiniteSets, FiniteSetsExt

CONSTANTS Packages,   \* names of packages
          MaxUses     \* bound: elements of a list, calls of a history

VARIABLES
  obj,
  abs    \* history, or what obj is compared with
-----------------------------------------------------------------------------
(* package_manager: a package is the list of those it depends on; "other"  *)
(* is none that was added.  resolved is what was found for abs.            *)
PackageInit == obj = [packages_ |-> [p \in {} |-> <<>>], installed_ |-> {}, resolved |-> <<>>] /\ abs = "none"
Dependencies == {d \in BoundedSeq(Packages \union {"other"}, 2) : Len(d) < 2 \/ d[1] # d[2]}
addPackage(p, deps) ==
  /\ p = "m" \/ p \notin DOMAIN obj.packages_
  /\ obj' = [obj EXCEPT !.packages_ = [q \in DOMAIN @ \union {p} |-> IF q = p THEN deps ELSE @[q]], !.resolved = <<>>]
  /\ abs' = "none"
RECURSIVE resolve(_, _, _)
resolve(packages, pkg, s) ==
  IF pkg \in s.visited THEN s
  ELSE IF pkg \notin DOMAIN packages THEN [s EXCEPT !.visited = @ \union {pkg}]
  ELSE LET t == FoldLeft(LAMBDA u, dep : resolve(packages, dep, u), [s EXCEPT !.visited = @ \union {pkg}], packages[pkg]) IN
       [t EXCEPT !.result = Append(@, pkg)]
resolveDependencies(p) ==
  /\ obj' = [obj EXCEPT !.resolved = resolve(obj.packages_, p, [visited |-> {}, result |-> <<>>]).result]
  /\ abs' = p
install(p) == p \in DOMAIN obj.packages_ /\ obj' = [obj EXCEPT !.installed_ = @ \union {p}] /\ UNCHANGED abs
PackageNext ==
  \E p \in Packages : resolveDependencies(p) \/ (p = "m" /\ install(p)) \/ \E deps \in Dependencies : addPackage(p, deps)

Needs(S) == S \union {d \in DOMAIN obj.packages_ : \E p \in S : Contains(obj.packages_[p], d)}
Needed(p) == LET f[n \in 0..Cardinality(Packages)] == IF n = 0 THEN {p} \intersect DOMAIN obj.packages_ ELSE Needs(f[n - 1]) IN f[Cardinality(Packages)]
InCircle(p) == \E d \in DOMAIN obj.packages_ : Contains(obj.packages_[p], d) /\ p \in Needed(d)
\* What is found for a package is it and all it needs, each once, and each after what
\* it depends on unless they depend on each other; one that nobody added is left out
\* without a word, and installing a package installs none of those it needs.
DependenciesFirst ==
  /\ abs # "none" =>
       /\ ToSet(obj.resolved) = Needed(abs) /\ IsInjective(obj.resolved)
       /\ \A i, j \in DOMAIN obj.resolved :
            Contains(obj.packages_[obj.resolved[i]], obj.resolved[j]) /\ ~InCircle(obj.resolved[i]) => j < i
  /\ obj.installed_ \subseteq {"m"} \intersect DOMAIN obj.packages_
-----------------------------------------------------------------------------
(* ci_cd_pattern: stage i ends as it chooses in each run; abs has the      *)
(* stages whose action was called in the run, and whether it was left by   *)
(* an exception that is no std::exception.                                 *)
PipelineInit ==
  /\ \E n \in 1..3 : obj = [status_ |-> [i \in 1..n |-> "Pending"], results_ |-> <<>>, at |-> 0, failed |-> FALSE]
  /\ abs = [called |-> {}, left |-> FALSE, runs |-> 0]
startRun ==
  /\ obj.at = 0 /\ abs.runs < 2
  /\ obj' = [obj EXCEPT !.results_ = <<>>, !.at = 1, !.failed = FALSE]
  /\ abs' = [called |-> {}, left |-> FALSE, runs |-> abs.runs + 1]
After == IF obj.at < Len(obj.status_) THEN obj.at + 1 ELSE 0
stageEnds(result) ==
  /\ obj.at # 0 /\ ~obj.failed
  /\ obj' = [obj EXCEPT !.status_[obj.at] = result, !.results_ = Append(@, result), !.at = After, !.failed = result = "Failed"]
  /\ abs' = [abs EXCEPT !.called = @ \union {obj.at}]
stageThrows ==
  /\ obj.at # 0 /\ ~obj.failed
  /\ obj' = [obj EXCEPT !.status_[obj.at] = "Running", !.at = 0]
  /\ abs' = [abs EXCEPT !.called = @ \union {obj.at}, !.left = TRUE]
skipStage ==
  /\ obj.at # 0 /\ obj.failed
  /\ obj' = [obj EXCEPT !.results_ = Append(@, "Skipped"), !.at = After]
  /\ UNCHANGED abs
PipelineNext == startRun \/ (\E r \in {"Success", "Failed"} : stageEnds(r)) \/ stageThrows \/ skipStage
allPassed == obj.results_ # <<>> /\ \A i \in DOMAIN obj.results_ : obj.results_[i] = "Success"

\* No stage is called after one that failed in the same run, and each has a result;
\* they have all passed only if each was called and succeeded, unless the run was left
\* by an exception of another kind: what had passed before it then counts as all.
PassedMeansRan ==
  LET n == Len(obj.status_)  r == obj.results_ IN
  /\ \A i \in abs.called : \A j \in 1..i - 1 : r[j] = "Success"
  /\ obj.at = 0 /\ abs.runs > 0 /\ ~abs.left => Len(r) = n /\ \A i \in 1..n : r[i] = "Skipped" <=> i \notin abs.called
  /\ obj.at = 0 /\ allPassed => abs.called = 1..n \/ abs.left
  /\ \A i \in DOMAIN r : r[i] # "Skipped" => obj.status_[i] = r[i]
-----------------------------------------------------------------------------
(* cmake_pattern: the project is called m, generated are its lines.        *)
ProjectInit == obj = [options_ |-> {}, libraries_ |-> <<>>, executables_ |-> <<>>, tests_ |-> <<>>, defines_ |-> {}] /\ abs = 0
Targets == {"m", "m_core"}
addOption(o) == obj' = [obj EXCEPT !.options_ = @ \union {o}] /\ UNCHANGED abs
addTarget(kind, t) == Len(obj[kind]) < 2 /\ obj' = [obj EXCEPT ![kind] = Append(@, t)] /\ UNCHANGED abs
setDefine(d) == obj' = [obj EXCEPT !.defines_ = @ \union {d}] /\ UNCHANGED abs
EachOf(list, kind) == [i \in DOMAIN list |-> <<kind, list[i]>>]
generate ==
  <<<<"project", "m">>>> \o EachOf(SetToSeq(obj.options_), "option") \o EachOf(obj.libraries_, "add_library")
  \o EachOf(obj.executables_, "add_executable") \o <<<<"enable_testing", "">>>>
  \o FlattenSeq([i \in DOMAIN obj.tests_ |-> <<<<"add_executable", obj.tests_[i]>>, <<"link", "m_core">>, <<"add_test", obj.tests_[i]>>>>])
ProjectNext ==
  \/ addOption("o") \/ setDefine("d")
  \/ \E kind \in {"libraries_", "executables_", "tests_"}, t \in Targets : addTarget(kind, t)

\* A test is an executable that is there before it, after enable_testing(); it links to
\* a library of the project's name, which is there only if somebody added it, and no
\* definition gets into the file.
FileIsOrdered ==
  LET f == generate IN
  \A i \in DOMAIN f :
    /\ f[i][1] = "add_test" => /\ \E j \in 1..i : f[j] = <<"add_executable", f[i][2]>>
                               /\ \E j \in 1..i : f[j][1] = "enable_testing"
    /\ f[i][1] = "link" => ((\E j \in 1..i : f[j] = <<"add_library", f[i][2]>>) <=> Contains(obj.libraries_, "m_core"))
    /\ f[i][2] # "d"
-----------------------------------------------------------------------------
(* builder_pattern: each builder has the one computer it makes; abs has    *)
(* what the director handed out, as <<builder, computer>>.                 *)
Builders == {"gaming", "office"}
Parts == {"cpu", "gpu"}
BuilderInit == obj = [builder_ |-> "none", computer_ |-> [b \in Builders |-> [p \in Parts |-> ""]]] /\ abs = {}
setBuilder(b) == obj' = [obj EXCEPT !.builder_ = b] /\ UNCHANGED abs
construct ==
  /\ obj.builder_ # "none"
  /\ obj' = [obj EXCEPT !.computer_[obj.builder_] = [p \in Parts |-> obj.builder_]]
  /\ abs' = {c \in abs : c.by # obj.builder_} \union {[by |-> obj.builder_, changed |-> {}]}
\* A caller changes a part of a computer it was given.
changePart(c, p) ==
  /\ obj' = [obj EXCEPT !.computer_[c.by][p] = "own"]
  /\ abs' = (abs \ {c}) \union {[c EXCEPT !.changed = @ \union {p}]}
BuilderNext == construct \/ (\E b \in Builders : setBuilder(b)) \/ \E c \in abs, p \in Parts : changePart(c, p)
\* A computer has all its parts, of its builder, when it is handed out, and keeps what its
\* owner changes until the builder is used again: it makes the same computer anew.
ComputersWhole == \A c \in abs : \A p \in Parts : obj.computer_[c.by][p] = IF p \in c.changed THEN "own" ELSE c.by
-----------------------------------------------------------------------------
(* interpreter_pattern: two expressions, the context of all.               *)
Variables == {"x", "y"}
Leaves == {<<"number", 2>>} \union {<<"variable", v>> : v \in Variables}
Expressions == Leaves \union ({"+", "-", "*"} \X Leaves \X Leaves)
ExpressionInit == obj \in [e : Expressions, f : Expressions \ Leaves, context_ : {[v \in {} |-> 0]}] /\ abs = <<>>
setContext(v, value) ==
  /\ Len(abs) < MaxUses
  /\ obj' = [obj EXCEPT !.context_ = [w \in DOMAIN @ \union {v} |-> IF w = v THEN value ELSE @[w]]]
  /\ abs' = Append(abs, <<v, value>>)
clearContext == obj.context_ # [v \in {} |-> 0] /\ obj' = [obj EXCEPT !.context_ = [v \in {} |-> 0]] /\ abs' = <<>>
Apply(op, a, b) == IF op = "+" THEN a + b ELSE IF op = "-" THEN a - b ELSE a * b
RECURSIVE interpret(_), toString(_)
interpret(e) ==
  CASE e[1] = "number" -> e[2]
    [] e[1] = "variable" -> IF e[2] \in DOMAIN obj.context_ THEN obj.context_[e[2]] ELSE 0
    [] OTHER -> Apply(e[1], interpret(e[2]), interpret(e[3]))
toString(e) == IF e[1] = "number" THEN <<"2">> ELSE IF e[1] = "variable" THEN <<e[2]>> ELSE <<"(">> \o toString(e[2]) \o <<e[1]>> \o toString(e[3]) \o <<")">>
ExpressionNext == obj.f[1] = "-" /\ (clearContext \/ \E v \in Variables, value \in {1, 3} : setContext(v, value))

LastSet(v) == LET s == SelectSeq(abs, LAMBDA a : a[1] = v) IN IF s = <<>> THEN 0 ELSE Last(s)[2]
\* A variable that was not set since the context was cleared is zero, in whichever
\* expression it is; expressions that are written alike have the same value.
ExpressionsAgree ==
  /\ \A v \in Variables : interpret(<<"variable", v>>) = LastSet(v)
  /\ toString(obj.e) = toString(obj.f) => interpret(obj.e) = interpret(obj.f)
  /\ obj.e = <<"-", obj.f[2], obj.f[2]>> => interpret(obj.e) = 0
-----------------------------------------------------------------------------
(* decorator_pattern: layers from the outermost; a letter is <<symbol,     *)
(* shift>>.                                                                *)
Letter(s) == <<s, 0>>
LayerInit ==
  /\ obj \in [layers : BoundedSeq({"encrypt", "compress", "log"}, MaxUses), written : {<<>>}, readData : {<<>>}]
  /\ abs = <<>>
Shifted(data, k) == [i \in DOMAIN data |-> <<data[i][1], data[i][2] + k>>]
compress(data) == <<Letter("[compressed:")>> \o data \o <<Letter("]")>>
decompress(data) == IF data # <<>> /\ data[1] = Letter("[compressed:") THEN SubSeq(data, 2, Len(data) - 1) ELSE data
Encoded(layer, data) == CASE layer = "encrypt" -> Shifted(data, 1) [] layer = "compress" -> compress(data) [] OTHER -> data
Decoded(layer, data) == CASE layer = "encrypt" -> Shifted(data, 0 - 1) [] layer = "compress" -> decompress(data) [] OTHER -> data
AllEncoded(data) == FoldLeft(LAMBDA d, layer : Encoded(layer, d), data, obj.layers)
AllDecoded(data) == FoldRight(LAMBDA layer, d : Decoded(layer, d), obj.layers, data)
writeData(data) == obj' = [obj EXCEPT !.written = AllEncoded(data)] /\ abs' = data
\* The file has the same to read whatever was written.
readData == obj' = [obj EXCEPT !.readData = AllDecoded(<<Letter("data")>>)] /\ UNCHANGED abs
LayerNext == readData \/ \E data \in BoundedSeq({Letter("a"), Letter("[compressed:"), <<"a", 0 - 1>>}, 2) : writeData(data)

\* Whatever the layers, what was written would be read back, also what looks compressed;
\* what is read from the file is plain only without an encryption: it was never encrypted.
LayersComeBack ==
  /\ obj.written # <<>> => AllDecoded(obj.written) = abs
  /\ obj.readData # <<>> => (obj.readData = <<Letter("data")>> <=> ~Contains(obj.layers, "encrypt"))
-----------------------------------------------------------------------------
(* template_method, facade and adapter: calls that make up another, the    *)
(* hook of any of which may throw; media is what the two players do.       *)
Templates == {"mine", "start", "shutdown"}
CallsOf(t) ==
  CASE t = "mine" -> <<"openFile", "extractData", "parseData", "analyzeData", "closeFile">>
    [] t = "start" -> <<"freeze", "read", "load", "jump", "execute">>
    [] OTHER -> <<"log", "freeze">>
TemplateInit == obj = [call |-> "none", at |-> 0, thrown |-> FALSE, vlc |-> "stopped", mp3 |-> "stopped"] /\ abs = [made |-> <<>>, open |-> FALSE]
callTemplate(t) == obj.at = 0 /\ obj' = [obj EXCEPT !.call = t, !.at = 1, !.thrown = FALSE] /\ abs' = [made |-> <<>>, open |-> FALSE]
hookReturns ==
  LET c == CallsOf(obj.call) IN
  /\ obj.at > 0
  /\ obj' = [obj EXCEPT !.at = IF @ < Len(c) THEN @ + 1 ELSE 0]
  /\ abs' = [made |-> Append(abs.made, c[obj.at]), open |-> c[obj.at] = "openFile" \/ (abs.open /\ c[obj.at] # "closeFile")]
hookThrows == obj.at > 0 /\ obj.call = "mine" /\ obj' = [obj EXCEPT !.at = 0, !.thrown = TRUE] /\ UNCHANGED abs
play(p) == obj.at = 0 /\ obj' = [obj EXCEPT ![p] = "playing"] /\ UNCHANGED abs
pause(p) == obj.at = 0 /\ obj' = [obj EXCEPT ![p] = IF p = "vlc" THEN "paused" ELSE @] /\ UNCHANGED abs
stop(p) == obj.at = 0 /\ obj' = [obj EXCEPT ![p] = "stopped"] /\ UNCHANGED abs
TemplateNext == hookReturns \/ hookThrows \/ (\E t \in Templates : callTemplate(t)) \/ \E p \in {"vlc", "mp3"} : play(p) \/ pause(p) \/ stop(p)

\* A call makes its calls in their order and, if none throws, all of them; a file is
\* left open only when a hook threw; a player that cannot pause plays on.
CallsInOrder ==
  /\ obj.call # "none" => abs.made = SubSeq(CallsOf(obj.call), 1, Len(abs.made))
  /\ obj.call # "none" /\ obj.at = 0 /\ ~obj.thrown => abs.made = CallsOf(obj.call) /\ ~abs.open
  /\ obj.mp3 # "paused"
-----------------------------------------------------------------------------
(* type_erasure: actions own what they hold, here a counter of its calls;  *)
(* abs has what each should count.                                         *)
Actions == {"a", "b"}
Nothing == 0 - 1
ErasedInit == obj = [n \in Actions |-> Nothing] /\ abs = [n \in Actions |-> Nothing]
hold(n) == obj' = [obj EXCEPT ![n] = 0] /\ abs' = [abs EXCEPT ![n] = 0]
CloneOf(n) == obj[n]
copyAction(n, m) ==
  /\ obj' = IF n = m THEN obj ELSE [obj EXCEPT ![n] = CloneOf(m)]
  /\ abs' = [abs EXCEPT ![n] = abs[m]]
moveAction(n, m) == n # m /\ obj' = [obj EXCEPT ![n] = obj[m], ![m] = Nothing] /\ abs' = [abs EXCEPT ![n] = abs[m], ![m] = Nothing]
\* There is no check: a call of an empty action is undefined.
invoke(n) == obj[n] \in 0..MaxUses - 1 /\ obj' = [obj EXCEPT ![n] = @ + 1] /\ abs' = [abs EXCEPT ![n] = @ + 1]
ErasedNext == \E n \in Actions : hold(n) \/ invoke(n) \/ \E m \in Actions : copyAction(n, m) \/ moveAction(n, m)
\* A copy has a state of its own, the one it was copied with: no call of the one is
\* seen in the other; the one that was moved from is empty.
CopiesApart == obj = abs
-----------------------------------------------------------------------------
(* crtp_pattern and singleton_pattern: count_ of the objects of a class,   *)
(* one for each; copies are counted, moves are copies; and the count of    *)
(* the log.                                                                *)
Classes == {"Dog", "Cat"}
CountInit == obj = [k \in Classes |-> 0] /\ abs = [alive |-> [k \in Classes |-> 0], atReset |-> [k \in Classes |-> 0]]
construct1(k) == abs.alive[k] < MaxUses /\ obj' = [obj EXCEPT ![k] = @ + 1] /\ abs' = [abs EXCEPT !.alive[k] = @ + 1]
copy1(k) == abs.alive[k] > 0 /\ construct1(k)
destroy1(k) == abs.alive[k] > 0 /\ obj' = [obj EXCEPT ![k] = @ - 1] /\ abs' = [abs EXCEPT !.alive[k] = @ - 1]
resetCount(k) == obj' = [obj EXCEPT ![k] = 0] /\ abs' = [abs EXCEPT !.atReset[k] = abs.alive[k]]
CountNext == \E k \in Classes : construct1(k) \/ copy1(k) \/ destroy1(k) \/ resetCount(k)
\* The count is that of the objects alive of the class, less those that were when it was
\* reset: with objects alive a reset brings it below zero.
CountsAlive == \A k \in Classes : obj[k] = abs.alive[k] - abs.atReset[k]
-----------------------------------------------------------------------------
(* abstract_factory, bridge_pattern and delegation: an application makes   *)
(* its widgets with the factory it has at the time; renderers are shared.  *)
Families == {"Windows", "Linux", "Mac"}
WidgetInit == obj = [factory |-> "Windows", widgets |-> <<>>, drawn |-> <<>>] /\ abs = <<>>
useFactory(f) == Len(obj.widgets) < 3 /\ obj' = [obj EXCEPT !.factory = f] /\ UNCHANGED abs
createWidget(kind) ==
  /\ Len(obj.widgets) < 3
  /\ obj' = [obj EXCEPT !.widgets = Append(@, [kind |-> kind, type |-> obj.factory, renderer_ |-> "SVG"])]
  /\ abs' = Append(abs, obj.factory)
setRenderer(w, r) == obj' = [obj EXCEPT !.widgets[w].renderer_ = r, !.drawn = <<>>] /\ UNCHANGED abs
draw(w) == obj' = [obj EXCEPT !.drawn = <<w, obj.widgets[w].kind, obj.widgets[w].renderer_>>] /\ UNCHANGED abs
WidgetNext ==
  \/ \E f \in Families : useFactory(f)
  \/ \E kind \in {"Button", "Checkbox"} : createWidget(kind)
  \/ \E w \in DOMAIN obj.widgets : draw(w) \/ \E r \in {"SVG", "Canvas"} : setRenderer(w, r)
\* A widget stays of the family of the factory that made it, whatever is used later, and
\* is drawn by the renderer it has now.
WidgetsOfFamily ==
  /\ \A w \in DOMAIN abs : obj.widgets[w].type = abs[w]
  /\ obj.drawn # <<>> => obj.drawn[3] = obj.widgets[obj.drawn[1]].renderer_
=============================================================================
