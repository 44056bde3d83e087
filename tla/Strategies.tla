------------------------------ MODULE Strategies ------------------------------
(***************************************************************************)
(* The patterns of the roadmap that choose what is called: the sorting     *)
(* strategies (strategy_pattern, strategy_selector, strategy_evaluator,    *)
(* strategy_factory, strategy_adapter), the registries (command_router,    *)
(* command_translator, service_locator, factory_pattern, prototype_pattern,*)
(* type_object, null_object_pattern), the chains (chain_of_responsibility, *)
(* observer_filter, command_validator, strategy_chain, strategy_resolver,  *)
(* strategy_combinator, specification_pattern), the pipelines of texts     *)
(* (strategy_pipeline, observer_pipeline), and the structures that are     *)
(* walked (mediator, iterator, composite, visitor and its shapes).         *)
(***************************************************************************)
EXTENDS Naturals, Integers, Sequences, SequencesExt, FiniteSets, FiniteSetsExt

CONSTANTS Names,               \* of registered things, members of a chat room
          MaxValue, MaxSize,   \* bounds: values, elements of what is sorted or listed
          MaxUses              \* bound: calls of a history

VARIABLES
  obj,
  abs    \* history, or what obj is compared with

Empty == [n \in {} |-> 0]
Put(f, k, v) == [j \in DOMAIN f \union {k} |-> IF j = k THEN v ELSE f[j]]
-----------------------------------------------------------------------------
(* The sorters: i is what the passes have done, ranges what quickSort()    *)
(* still has to do.  A Sorter without a strategy does nothing.             *)
SorterInit ==
  /\ obj \in {[strategy_ |-> s, data |-> d, i |-> 0, ranges |-> IF Len(d) > 1 THEN <<<<1, Len(d)>>>> ELSE <<>>] :
                s \in {"none", "bubble", "insertion", "quick"}, d \in BoundedSeq(1..MaxValue, MaxSize)}
  /\ abs = obj.data

Swapped(d, i, j) == [d EXCEPT ![i] = d[j], ![j] = d[i]]
bubblePass ==
  /\ obj.strategy_ = "bubble" /\ obj.i < Len(obj.data)
  /\ obj' = [obj EXCEPT !.i = @ + 1,
                        !.data = FoldLeft(LAMBDA d, j : IF d[j] > d[j + 1] THEN Swapped(d, j, j + 1) ELSE d, @,
                                          [j \in 1..Len(@) - 1 - obj.i |-> j])]
  /\ UNCHANGED abs
insertNext ==
  LET d == obj.data  n == obj.i
      at == Max({k \in 0..n : k = 0 \/ d[k] <= d[n + 1]}) IN
  /\ obj.strategy_ = "insertion" /\ n < Len(d)
  /\ obj' = [obj EXCEPT !.i = @ + 1, !.data = SubSeq(d, 1, at) \o <<d[n + 1]>> \o SubSeq(d, at + 1, n) \o SubSeq(d, n + 2, Len(d))]
  /\ UNCHANGED abs
\* Elements less than the last go to the front, in their order; i is where the next goes.
partition(data, low, high) ==
  LET r == FoldLeft(LAMBDA s, j : IF s.d[j] < data[high] THEN [d |-> Swapped(s.d, s.i, j), i |-> s.i + 1] ELSE s,
                    [d |-> data, i |-> low], [k \in 1..high - low |-> low + k - 1]) IN
  [d |-> Swapped(r.d, r.i, high), pi |-> r.i]
quickSort ==
  /\ obj.strategy_ = "quick" /\ obj.ranges # <<>>
  /\ LET low == obj.ranges[1][1]  high == obj.ranges[1][2]  p == partition(obj.data, low, high) IN
     IF low < high
     THEN obj' = [obj EXCEPT !.data = p.d, !.ranges = <<<<low, p.pi - 1>>, <<p.pi + 1, high>>>> \o Tail(@)]
     ELSE obj' = [obj EXCEPT !.ranges = Tail(@)]
  /\ UNCHANGED abs
SorterNext == bubblePass \/ insertNext \/ quickSort

is_sorted(d) == \A i \in 1..Len(d) - 1 : d[i] <= d[i + 1]
\* What is sorted are the elements that were given, each as often as before, and in
\* order at the end; what a pass has put at its end, or its start, is in order
\* already, and quickSort() never has an element to move across the ranges left.
Sorted ==
  LET d == obj.data  n == Len(d) IN
  /\ \A v \in 1..MaxValue : Cardinality({i \in 1..n : d[i] = v}) = Cardinality({i \in 1..n : abs[i] = v})
  /\ obj.strategy_ = "bubble" => \A i \in (n - obj.i + 1)..n : \A j \in 1..i : d[j] <= d[i]
  /\ obj.strategy_ = "insertion" => is_sorted(SubSeq(d, 1, obj.i))
  /\ obj.strategy_ = "quick" =>
       \A i, j \in 1..n : i < j /\ (\A k \in DOMAIN obj.ranges : ~{i, j} \subseteq obj.ranges[k][1]..obj.ranges[k][2]) => d[i] <= d[j]
  /\ obj.strategy_ = "none" => d = abs
-----------------------------------------------------------------------------
(* The registries: what was registered last under a name is what is found; *)
(* answer is <<name, what>>.  A service is kept without its type, and the  *)
(* caller says which it is.                                                *)
Kinds == {"route", "translate", "select", "create", "service", "prototype", "animal"}
RegistryInit == obj \in [kind : Kinds, entries : {Empty}, answer : {<<>>}] /\ abs = <<>>
Handlers == {"h", "g"}
registerEntry(n, h) ==
  /\ Len(abs) < MaxUses /\ obj.kind # "animal"
  /\ obj' = [obj EXCEPT !.entries = Put(@, n, h), !.answer = <<>>]
  /\ abs' = Append(abs, <<n, h>>)
removeService(n) ==
  /\ obj.kind = "service" /\ Len(abs) < MaxUses
  /\ obj' = [obj EXCEPT !.entries = [m \in DOMAIN @ \ {n} |-> @[m]], !.answer = <<>>]
  /\ abs' = Append(abs, <<n, "none">>)
NotFound(kind) ==
  CASE kind = "route" -> "Unknown command"
    [] kind = "translate" -> "raw"
    [] kind = "animal" -> "NullAnimal"
    [] kind = "prototype" -> "throws"
    [] OTHER -> "nullptr"
found(n) == IF n \in DOMAIN obj.entries THEN obj.entries[n] ELSE NotFound(obj.kind)
lookUp(n) == obj' = [obj EXCEPT !.answer = <<n, found(n)>>] /\ UNCHANGED abs
\* static_pointer_cast<T>: no one checks that the service is a T.
getService(n, t) ==
  /\ obj.kind = "service"
  /\ obj' = [obj EXCEPT !.answer = <<n, IF found(n) \in {t, "nullptr"} THEN found(n) ELSE "undefined">>]
  /\ UNCHANGED abs
RegistryNext ==
  \E n \in Names : removeService(n) \/ (obj.kind # "service" /\ lookUp(n)) \/ \E h \in Handlers : registerEntry(n, h) \/ getService(n, h)

LastOf(n) == SelectSeq(abs, LAMBDA e : e[1] = n)
\* What is found is what was registered last under the name; only a router, a
\* translator and the animals answer a name nobody registered with something to
\* call; a service is not what the caller takes it for only if its name was given
\* to one of another type.
FoundIsLast ==
  obj.answer # <<>> =>
    LET last == LastOf(obj.answer[1])  what == obj.answer[2] IN
    IF last = <<>> \/ Last(last)[2] = "none"
    THEN what \in {"Unknown command", "raw", "NullAnimal"} <=> obj.kind \in {"route", "translate", "animal"}
    ELSE what = Last(last)[2] \/ (what = "undefined" /\ obj.kind = "service")
-----------------------------------------------------------------------------
(* type_object: a character keeps the type it was made of.                 *)
CharacterTypes == [hp_ : 0..MaxValue, defense_ : 0..1]
CharacterInit == obj = [types_ |-> Empty, characters |-> <<>>] /\ abs = <<>>
registerType(n, t) == obj' = [obj EXCEPT !.types_ = Put(@, n, t)] /\ UNCHANGED abs
makeCharacter(n) ==
  /\ n \in DOMAIN obj.types_ /\ Len(obj.characters) < 2
  /\ LET t == obj.types_[n] IN
     /\ obj' = [obj EXCEPT !.characters = Append(@, [type_ |-> t, currentHp_ |-> t.hp_])]
     /\ abs' = Append(abs, [type |-> t, hits |-> 0])
takeDamage(c, damage) ==
  LET actual == Max({1, damage - obj.characters[c].type_.defense_}) IN
  /\ abs[c].hits < MaxUses
  /\ obj' = [obj EXCEPT !.characters[c].currentHp_ = Max({0, @ - actual})]
  /\ abs' = [abs EXCEPT ![c].hits = @ + 1]
CharacterNext ==
  \/ \E n \in {"orc"} : makeCharacter(n) \/ \E t \in CharacterTypes : registerType(n, t)
  \/ \E c \in DOMAIN obj.characters, damage \in 0..2 : takeDamage(c, damage)

\* No hit heals: each costs a point at least, whatever the defense; a type that is
\* registered anew changes no character that was made before.
HitsHurt ==
  \A c \in DOMAIN abs :
    /\ obj.characters[c].type_ = abs[c].type
    /\ obj.characters[c].currentHp_ \in 0..Max({0, abs[c].type.hp_ - abs[c].hits})
-----------------------------------------------------------------------------
(* chain_of_responsibility: handlers are linked by setNext() in any way.   *)
Links == {"auth", "validation", "processing"}
ChainInit == obj = [next_ |-> [h \in Links |-> "none"], at |-> "none", content |-> "text", seen |-> <<>>] /\ abs = {}
setNext(h, g) == obj.seen = <<>> /\ obj' = [obj EXCEPT !.next_[h] = g] /\ UNCHANGED abs
handleRequest(h, content) == obj.seen = <<>> /\ obj' = [obj EXCEPT !.at = h, !.content = content] /\ UNCHANGED abs
passToNext ==
  /\ obj.at # "none" /\ Len(obj.seen) < MaxUses + 2
  /\ obj' = [obj EXCEPT !.seen = Append(@, obj.at),
                        !.at = IF obj.at = "processing" \/ (obj.at = "validation" /\ obj.content = "") THEN "none" ELSE obj.next_[@]]
  /\ UNCHANGED abs
LinksNext == passToNext \/ \E h \in Links : (\E g \in Links : setNext(h, g)) \/ \E c \in {"", "text"} : handleRequest(h, c)

Follows(next, h, n) == LET f[k \in 0..n] == IF k = 0 THEN h ELSE IF f[k - 1] = "none" THEN "none" ELSE next[f[k - 1]] IN f[n]
\* A request goes past each handler once unless the links close a circle, in which
\* it goes round for ever; an empty one ends at the validation it comes to, and what
\* ended anywhere but there or in the processing came to the end of the links.
PassedOnce ==
  LET s == obj.seen IN
  /\ (\E i, j \in DOMAIN s : i < j /\ s[i] = s[j]) => \E h \in Links, n \in 1..Cardinality(Links) : Follows(obj.next_, h, n) = h
  /\ obj.content = "" => \A i \in DOMAIN s : s[i] = "validation" => i = Len(s)
  /\ s # <<>> /\ obj.at = "none" => \/ Last(s) = "processing" \/ obj.next_[Last(s)] = "none"
                                    \/ Last(s) = "validation" /\ obj.content = ""
-----------------------------------------------------------------------------
(* Lists of predicates, each the set of the values it accepts, asked one   *)
(* after the other until one decides.                                      *)
Modes == {"all", "any", "emit", "execute", "resolve"}
ListInit ==
  /\ \E m \in Modes, v \in 1..MaxValue : obj = [mode |-> m, value |-> v, list |-> <<>>, asked |-> 0, verdict |-> "none"]
  /\ abs = {}
addPredicate(p) == obj.asked = 0 /\ obj.verdict = "none" /\ Len(obj.list) < 3 /\ obj' = [obj EXCEPT !.list = Append(@, p)] /\ UNCHANGED abs
Decides(p) == IF obj.mode \in {"any", "resolve"} THEN obj.value \in p ELSE obj.value \notin p
emptyList ==
  /\ obj.list = <<>> /\ obj.verdict = "none"
  /\ obj' = [obj EXCEPT !.verdict = IF obj.mode = "resolve" THEN "default" ELSE "yes"]
  /\ UNCHANGED abs
ask ==
  LET p == obj.list[obj.asked + 1]  positive == obj.mode \in {"any", "resolve"} IN
  /\ obj.verdict = "none" /\ obj.list # <<>>
  /\ obj' = [obj EXCEPT !.asked = @ + 1,
                        !.verdict = IF Decides(p) THEN (IF positive THEN "yes" ELSE "no")
                                    ELSE IF obj.asked + 1 < Len(obj.list) THEN @
                                    ELSE IF ~positive THEN "yes" ELSE IF obj.mode = "resolve" THEN "default" ELSE "no"]
  /\ UNCHANGED abs
ListNext == emptyList \/ ask \/ \E p \in SUBSET (1..MaxValue) : addPredicate(p)

\* The verdict is that of all, or of one, of the predicates, and no predicate is
\* asked after one that decides; without one, a combinator accepts even in its mode
\* Any, and a resolver answers with the regular price.
VerdictIsTrue ==
  obj.verdict # "none" =>
    LET accepts == {i \in DOMAIN obj.list : obj.value \in obj.list[i]}  positive == obj.mode \in {"any", "resolve"} IN
    /\ obj.verdict = "yes" <=> IF positive THEN accepts # {} \/ (obj.list = <<>> /\ obj.mode = "any") ELSE accepts = DOMAIN obj.list
    /\ obj.verdict = "default" <=> obj.mode = "resolve" /\ accepts = {}
    /\ \A i \in 1..obj.asked - 1 : ~Decides(obj.list[i])
-----------------------------------------------------------------------------
(* specification_pattern: a specification copies those it is made of; abs  *)
(* has the formula of each name.                                           *)
Specs == {"s", "t"}
SpecInit == obj = [s |-> {1}, t |-> {2, 3}] /\ abs = [s |-> <<"is", {1}>>, t |-> <<"is", {2, 3}>>]
Formula(s, t, op) == IF op = "not" THEN <<"not", abs[t], abs[t]>> ELSE <<op, abs[s], abs[t]>>
Combine(s, t, op) ==
  /\ obj' = [obj EXCEPT ![s] = CASE op = "and" -> obj[s] \intersect obj[t]
                                 [] op = "or" -> obj[s] \union obj[t]
                                 [] OTHER -> 1..MaxValue \ obj[t]]
  /\ abs' = [abs EXCEPT ![s] = Formula(s, t, op)]
RECURSIVE Depth(_), Holds(_, _)
Depth(f) == IF f[1] = "is" THEN 0 ELSE 1 + Max({Depth(f[2]), Depth(f[3])})
SpecNext == \E s, t \in Specs, op \in {"and", "or", "not"} : Depth(Formula(s, t, op)) <= 2 /\ Combine(s, t, op)
Holds(f, v) ==
  CASE f[1] = "is" -> v \in f[2]
    [] f[1] = "and" -> Holds(f[2], v) /\ Holds(f[3], v)
    [] f[1] = "or" -> Holds(f[2], v) \/ Holds(f[3], v)
    [] OTHER -> ~Holds(f[2], v)
\* A specification accepts what the formula it was made by says, also when those it
\* was made of have been replaced since, itself among them.
SpecsMean == \A s \in Specs : obj[s] = {v \in 1..MaxValue : Holds(abs[s], v)}
-----------------------------------------------------------------------------
(* The pipelines of texts: done are the stages a text has been through.  A *)
(* text is a sequence of a blank, a return, a small and a capital letter.  *)
Stages == {"upper", "trim", "trimToo", "prefix"}
TextInit == obj \in {[text |-> t, done |-> <<>>] : t \in BoundedSeq({"blank", "return", "a", "A"}, 3)} /\ abs = obj.text
Without(blanks, s) ==
  LET kept == {i \in DOMAIN s : s[i] \notin blanks} IN
  IF kept = {} THEN <<>> ELSE SubSeq(s, Min(kept), Max(kept))
upper(s) == [i \in DOMAIN s |-> IF s[i] = "a" THEN "A" ELSE s[i]]
\* The trim() of observer_pipeline leaves a return at the end of a line.
Staged(stage, s) ==
  CASE stage = "upper" -> upper(s)
    [] stage = "trim" -> Without({"blank", "return"}, s)
    [] stage = "trimToo" -> Without({"blank"}, s)
    [] OTHER -> <<"a">> \o s
runStage(stage) == Len(obj.done) < 3 /\ obj' = [text |-> Staged(stage, obj.text), done |-> Append(obj.done, stage)] /\ UNCHANGED abs
TextNext == \E stage \in Stages : runStage(stage)

\* The order of the stages matters only for a prefix and for the two trims with each
\* other: a text that was trimmed stays trimmed, and capitals stay, whatever comes
\* after but a prefix; between them the text is the given one.
StagesInOrder ==
  LET t == obj.text  d == obj.done
      After(stage) == \E i \in DOMAIN d : d[i] = stage /\ \A j \in i..Len(d) : d[j] # "prefix" IN
  /\ After("trim") => t = <<>> \/ {t[1], Last(t)} \subseteq {"a", "A"}
  /\ After("upper") => \A i \in DOMAIN t : t[i] # "a"
  /\ ~Contains(d, "prefix") /\ Contains(d, "trim") => t = Staged("trim", IF Contains(d, "upper") THEN upper(abs) ELSE abs)
-----------------------------------------------------------------------------
(* mediator_pattern: the room holds its users, they know it weakly; sent   *)
(* is whom the last message of a user went to.  Users are 1..3, two of a   *)
(* name.                                                                   *)
Users == 1..3
NameOf(u) == IF u = 3 THEN "ann" ELSE IF u = 2 THEN "bob" ELSE "ann"
RoomInit == obj = [room |-> TRUE, colleagues_ |-> Empty, handles |-> Users, sent |-> [from |-> 0, to |-> {}]] /\ abs = Users
addColleague(u) ==
  /\ obj.room /\ u \in obj.handles
  /\ obj' = [obj EXCEPT !.colleagues_ = Put(@, NameOf(u), u), !.sent = [from |-> 0, to |-> {}]]
  /\ UNCHANGED abs
notify(u) == {m \in DOMAIN obj.colleagues_ : m # NameOf(u)}
send(u) ==
  /\ u \in obj.handles
  /\ obj' = [obj EXCEPT !.sent = [from |-> u, to |-> IF obj.room THEN notify(u) ELSE {}]]
  /\ UNCHANGED abs
Alive(handles, colleagues) == handles \union {colleagues[m] : m \in DOMAIN colleagues}
dropUser(u) ==
  /\ obj' = [obj EXCEPT !.handles = @ \ {u}, !.sent = [from |-> 0, to |-> {}]]
  /\ abs' = Alive(obj.handles \ {u}, obj.colleagues_)
dropRoom ==
  /\ obj' = [obj EXCEPT !.room = FALSE, !.colleagues_ = Empty, !.sent = [from |-> 0, to |-> {}]]
  /\ abs' = obj.handles
RoomNext == dropRoom \/ \E u \in Users : addColleague(u) \/ send(u) \/ dropUser(u)

\* A message goes to every user of the room but those of the sender's name, from a
\* sender that is not in the room as well; with the room gone it goes to nobody, and
\* no user is left but those the callers hold: nobody keeps the room alive.
RoomTold ==
  /\ obj.sent.from # 0 /\ obj.room =>
       \A m \in DOMAIN obj.colleagues_ : obj.colleagues_[m] # obj.sent.from /\ m # NameOf(obj.sent.from) => m \in obj.sent.to
  /\ obj.sent.from # 0 => NameOf(obj.sent.from) \notin obj.sent.to
  /\ ~obj.room => obj.sent.to = {} /\ abs = obj.handles
  /\ \A m \in DOMAIN obj.colleagues_ : obj.colleagues_[m] \in abs
-----------------------------------------------------------------------------
(* iterator_pattern: two iterators over items_, and what each has          *)
(* returned.                                                               *)
IteratorInit == obj = [items_ |-> <<>>, index_ |-> <<0, 0>>] /\ abs = [got |-> <<<<>>, <<>>>>, past |-> {}]
addItem == Len(obj.items_) < MaxSize /\ obj' = [obj EXCEPT !.items_ = Append(@, Len(@) + 1)] /\ UNCHANGED abs
nextItem(k) ==
  LET i == obj.index_[k] IN
  /\ i <= MaxSize
  /\ obj' = [obj EXCEPT !.index_[k] = @ + 1]
  /\ abs' = IF i < Len(obj.items_) THEN [abs EXCEPT !.got[k] = Append(@, obj.items_[i + 1])] ELSE [abs EXCEPT !.past = @ \union {k}]
IteratorNext == addItem \/ \E k \in 1..2 : nextItem(k)
\* An iterator returns the items one after the other, also those that are added while
\* it is used, until next() is called with nothing left: at() throws, but the index
\* has moved on, and the item that is added then is passed over.
IteratedInOrder == \A k \in 1..2 : k \notin abs.past => abs.got[k] = SubSeq(obj.items_, 1, obj.index_[k])
-----------------------------------------------------------------------------
(* composite_pattern: directories 1..3 and files, of sizes 1 and 2; a call *)
(* that would put a directory into itself is not made (getSize() would not *)
(* return).                                                                *)
Directories == 1..3
TreeInit == obj = [d \in Directories |-> <<>>] /\ abs = {}
RECURSIVE Below(_, _), getSize(_, _), Paths(_, _, _)
Below(t, d) == {d} \union UNION {Below(t, c) : c \in ToSet(t[d]) \intersect Directories}
addComponent(d, c) ==
  /\ Len(obj[d]) < 2
  /\ c \in Directories => d \notin Below(obj, c)
  /\ obj' = [obj EXCEPT ![d] = Append(@, c)]
  /\ UNCHANGED abs
SizeOf(file) == file - 10
getSize(t, c) == IF c \notin Directories THEN SizeOf(c) ELSE FoldLeft(LAMBDA total, child : total + getSize(t, child), 0, t[c])
TreeNext == \E d \in Directories, c \in Directories \union {11, 12} : addComponent(d, c)
Paths(t, d, file) == FoldLeft(LAMBDA n, c : n + (IF c = file THEN 1 ELSE IF c \in Directories THEN Paths(t, c, file) ELSE 0), 0, t[d])
\* The size of a directory counts each file as often as there are ways down to it: one
\* that is shared by two directories is counted for both.
SizeCountsPaths == \A d \in Directories : getSize(obj, d) = Paths(obj, d, 11) * 1 + Paths(obj, d, 12) * 2
-----------------------------------------------------------------------------
(* visitor_pattern, double_dispatch, virtual_constructor,                  *)
(* prototype_pattern: shapes in the heap, prototypes_ by name, the result_ *)
(* of one visitor (of areas, with 3 for pi, twice over).                   *)
Shape == [type : {"circle", "rectangle", "triangle"}, a : 1..2, b : 1..2]
ShapeInit == obj = [shapes |-> <<>>, prototypes_ |-> Empty, result_ |-> 0] /\ abs = [of |-> <<>>, visited |-> 0, gone |-> {}]
area(s) ==
  CASE s.type = "circle" -> 6 * s.a * s.a
    [] s.type = "rectangle" -> 2 * s.a * s.b
    [] OTHER -> s.a * s.b
Made(s, of) ==
  /\ Len(obj.shapes) < 3
  /\ obj' = [obj EXCEPT !.shapes = Append(@, s)]
  /\ abs' = [abs EXCEPT !.of = Append(@, of)]
makeShape(s) == obj.shapes = <<>> /\ s.a <= s.b /\ Made(s, 0)
clone(i) == i \notin abs.gone /\ Made(obj.shapes[i], i)
registerShape(n, i) == i \notin abs.gone /\ obj' = [obj EXCEPT !.prototypes_ = Put(@, n, i)] /\ UNCHANGED abs
createShape(n) == n \in DOMAIN obj.prototypes_ /\ Made(obj.shapes[obj.prototypes_[n]], obj.prototypes_[n])
accept(i) == i \notin abs.gone /\ obj' = [obj EXCEPT !.result_ = area(obj.shapes[i])] /\ abs' = [abs EXCEPT !.visited = i]
destroyShape(i) == i \notin {obj.prototypes_[n] : n \in DOMAIN obj.prototypes_} /\ abs' = [abs EXCEPT !.gone = @ \union {i}] /\ UNCHANGED obj
ShapeNext ==
  \/ \E s \in Shape : makeShape(s)
  \/ \E i \in DOMAIN obj.shapes : clone(i) \/ accept(i) \/ destroyShape(i) \/ registerShape("n", i)
  \/ createShape("n")
\* What is cloned, or created from a prototype, measures as what it was made of, and
\* lives on without it; the result of a visitor is that of the last one it visited.
ClonesMeasure ==
  /\ \A i \in DOMAIN abs.of : abs.of[i] # 0 => area(obj.shapes[i]) = area(obj.shapes[abs.of[i]])
  /\ abs.visited # 0 => obj.result_ = area(obj.shapes[abs.visited])
  /\ \A n \in DOMAIN obj.prototypes_ : obj.prototypes_[n] \notin abs.gone
=============================================================================
