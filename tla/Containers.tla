----------------------------- MODULE Containers ------------------------------
(***************************************************************************)
(* Containers: binary_heap, union_find and trie (02-intermediate) and      *)
(* skip_list (03-advanced); and histories, which undo what was done to     *)
(* their contents.                                                         *)
(***************************************************************************)
EXTENDS Naturals, Integers, Sequences, SequencesExt, FiniteSets, FiniteSetsExt

CONSTANTS MaxValue, MaxSize,   \* bounds: values, elements of a heap
          Elements,            \* elements of a union-find are 1..Elements
          maxHeight_,          \* of a skip list
          Texts,               \* what is typed: sequences of characters
          MaxCommands,         \* bound: commands run
          maxSize_             \* entries of a bounded history

VARIABLES
  obj,
  abs    \* what the container should have; the states undo should bring back
-----------------------------------------------------------------------------
(* binary_heap: the children of place i are 2i and 2i + 1, from 1 on.      *)
HeapInit == obj = <<>> /\ abs = [v \in 1..MaxValue |-> 0]

Swapped(d, i, j) == [d EXCEPT ![i] = d[j], ![j] = d[i]]
RECURSIVE siftUp(_, _), siftDown(_, _), Heapified(_, _)
siftUp(d, i) ==
  IF i > 1 /\ d[i] > d[i \div 2] THEN siftUp(Swapped(d, i, i \div 2), i \div 2) ELSE d
siftDown(d, i) ==
  LET Better(j, best) == IF j <= Len(d) /\ d[j] > d[best] THEN j ELSE best
      best == Better(2 * i + 1, Better(2 * i, i)) IN
  IF best = i THEN d ELSE siftDown(Swapped(d, i, best), best)
Heapified(d, i) == IF i = 0 THEN d ELSE Heapified(siftDown(d, i), i - 1)

push(v) ==
  /\ Len(obj) < MaxSize
  /\ obj' = siftUp(Append(obj, v), Len(obj) + 1)
  /\ abs' = [abs EXCEPT ![v] = @ + 1]
pop ==
  /\ obj # <<>>
  /\ LET rest == Front(Swapped(obj, 1, Len(obj))) IN obj' = IF rest = <<>> THEN rest ELSE siftDown(rest, 1)
  /\ abs' = [abs EXCEPT ![Max({v \in 1..MaxValue : abs[v] > 0})] = @ - 1]
heapify(items) ==
  /\ obj' = Heapified(items, Len(items) \div 2)
  /\ abs' = [v \in 1..MaxValue |-> Cardinality({i \in DOMAIN items : items[i] = v})]

HeapNext == pop \/ \E v \in 1..MaxValue : push(v) \/ (obj = <<>> /\ \E s \in [1..MaxSize -> 1..MaxValue] : heapify(s))

\* No element is above its parent, so that the first is the greatest, and there
\* are the elements that were pushed and not popped, pop() taking a greatest.
HeapOrdered ==
  /\ \A i \in 2..Len(obj) : obj[i] <= obj[i \div 2]
  /\ \A v \in 1..MaxValue : Cardinality({i \in DOMAIN obj : obj[i] = v}) = abs[v]
-----------------------------------------------------------------------------
(* union_find: the history is the partition.                               *)
DsuInit ==
  /\ obj = [parent_ |-> [x \in 1..Elements |-> x], rank_ |-> [x \in 1..Elements |-> 0], components_ |-> Elements]
  /\ abs = {{x} : x \in 1..Elements}

Path(parent, x) == LET up[n \in 0..Elements] == IF n = 0 THEN x ELSE parent[up[n - 1]] IN up
Root(parent, x) == Path(parent, x)[Elements]
\* The elements on the way are linked to the root.
find(parent, x) ==
  LET way == {Path(parent, x)[n] : n \in 0..Elements} IN
  [y \in 1..Elements |-> IF y \in way THEN Root(parent, x) ELSE parent[y]]

unite(a, b) ==
  LET parent == find(find(obj.parent_, a), b)
      ra == Root(parent, a)
      rb == Root(parent, b)
      high == IF obj.rank_[ra] < obj.rank_[rb] THEN rb ELSE ra
      low == IF high = ra THEN rb ELSE ra
      classes == {c \in abs : a \in c \/ b \in c} IN
  IF ra = rb THEN obj' = [obj EXCEPT !.parent_ = parent] /\ UNCHANGED abs
  ELSE /\ obj' = [parent_ |-> [parent EXCEPT ![low] = high],
                  rank_ |-> [obj.rank_ EXCEPT ![high] = IF @ = obj.rank_[low] THEN @ + 1 ELSE @],
                  components_ |-> obj.components_ - 1]
       /\ abs' = (abs \ classes) \union {UNION classes}
DsuNext == \E a, b \in 1..Elements : unite(a, b)

\* Two elements have one root exactly if they were united, directly or not; the
\* rank grows towards the root and a tree of rank r has 2^r elements at least.
DsuPartition ==
  /\ \A a, b \in 1..Elements : Root(obj.parent_, a) = Root(obj.parent_, b) <=> \E c \in abs : {a, b} \subseteq c
  /\ obj.components_ = Cardinality(abs)
  /\ \A x \in 1..Elements :
       /\ obj.parent_[x] # x => obj.rank_[x] < obj.rank_[obj.parent_[x]]
       /\ obj.parent_[x] = x => \A c \in abs : x \in c => Cardinality(c) >= 2^obj.rank_[x]
-----------------------------------------------------------------------------
(* skip_list: at each level, from a node (0 is the head) to the next (Null *)
(* at the end).  The level of a new node is random.                        *)
Null == MaxValue + 1
Levels == 0..maxHeight_ - 1
SkipInit == obj = [l \in Levels |-> [v \in 0..MaxValue |-> Null]] /\ abs = {}

findPredecessors(value) ==
  LET walk[at \in Levels \X (0..MaxValue)] ==
        LET next == obj[at[1]][at[2]] IN IF next # Null /\ next < value THEN walk[<<at[1], next>>] ELSE at[2]
      preds[l \in 0..maxHeight_] == IF l = maxHeight_ THEN 0 ELSE walk[<<l, preds[l + 1]>>] IN
  preds
skipContains(value) == obj[0][findPredecessors(value)[0]] = value
successor(value) ==
  LET next == obj[0][findPredecessors(value)[0]] IN IF next = value THEN obj[0][next] ELSE next

skipInsert(value, level) ==
  LET preds == findPredecessors(value) IN
  /\ ~skipContains(value)
  /\ obj' = [l \in Levels |-> IF l > level THEN obj[l]
                              ELSE [obj[l] EXCEPT ![value] = obj[l][preds[l]], ![preds[l]] = value]]
  /\ abs' = abs \union {value}
SkipNext == \E value \in 1..MaxValue, level \in Levels : skipInsert(value, level)

\* A search from the top finds exactly what was inserted, and its successor; each
\* level is in ascending order and has only nodes of the level below.
SkipSorted ==
  /\ \A value \in 1..MaxValue :
       /\ skipContains(value) <=> value \in abs
       /\ successor(value) = LET above == {v \in abs : v > value} IN IF above = {} THEN Null ELSE Min(above)
  /\ \A l \in Levels, v \in 0..MaxValue :
       obj[l][v] # Null => v < obj[l][v] /\ (l > 0 => \E u \in 0..MaxValue : obj[l - 1][u] = obj[l][v])
-----------------------------------------------------------------------------
(* trie: a node is the prefix that leads to it.  x is not a lowercase      *)
(* letter: insert() returns there, but what it has done stays.             *)
Letters == {"a", "b", "x"}
Words == {<<>>} \union {<<c>> : c \in Letters} \union (Letters \X Letters)
Valid(w) == \A i \in DOMAIN w : w[i] # "x"

TrieInit == obj = [passes |-> [p \in {<<>>} |-> 0], endsHere |-> [p \in {<<>>} |-> 0], wordCount_ |-> 0] /\ abs = <<>>

trieInsert(w) ==
  LET made == {p \in Prefixes(w) : Valid(p)}
      nodes == DOMAIN obj.passes \union made
      Was(f, p) == IF p \in DOMAIN f THEN f[p] ELSE 0
      ends == Valid(w) IN
  /\ Len(abs) < 3
  /\ obj' = [passes |-> [p \in nodes |-> Was(obj.passes, p) + (IF p \in made THEN 1 ELSE 0)],
             endsHere |-> [p \in nodes |-> Was(obj.endsHere, p) + (IF p = w /\ ends THEN 1 ELSE 0)],
             wordCount_ |-> obj.wordCount_ + (IF ends /\ Was(obj.endsHere, w) = 0 THEN 1 ELSE 0)]
  /\ abs' = Append(abs, w)
TrieNext == \E w \in Words : trieInsert(w)

descend(p) == p \in DOMAIN obj.passes
countWordsWithPrefix(p) == IF descend(p) THEN obj.passes[p] ELSE 0
trieContains(w) == descend(w) /\ obj.endsHere[w] > 0

\* The trie contains the valid words that were inserted, each counted once; the
\* words with a prefix are counted with their repetitions, and so are invalid
\* ones whose valid beginning has it.
TrieCounts ==
  LET valid == SelectSeq(abs, Valid)
      With(s, p) == Len(SelectSeq(s, LAMBDA w : p \in Prefixes(w))) IN
  /\ \A w \in Words : trieContains(w) <=> w \in ToSet(valid)
  /\ obj.wordCount_ = Cardinality(ToSet(valid))
  /\ \A p \in Words : Valid(p) => countWordsWithPrefix(p) = With(abs, p) /\ With(abs, p) >= With(valid, p)
-----------------------------------------------------------------------------
(***************************************************************************)
(* Undo: the command histories of command_pattern (stage 9) and            *)
(* command_snapshot (stage 24) with the batches of command_batch (stage    *)
(* 17), the editors of memento_pattern (stage 13) and command_memento      *)
(* (stage 25), the bounded history of command_history (stage 19).          *)
(***************************************************************************)
(* Commands act on the text of an editor, or on a counter, all on one      *)
(* history.  A batch is a sequence of increments and decrements.           *)
Commands == [type : {"insert"}, text : Texts] \union [type : {"delete"}, length : 1..2] \union
            [type : {"batch"}, deltas : {<<1>>, <<-1>>, <<1, 1>>, <<1, -1>>}]

UndoInit ==
  /\ obj = [text_ |-> <<>>, counter |-> 0, undoStack_ |-> <<>>, redoStack_ |-> <<>>]
  /\ abs = [undo |-> <<>>, redo |-> <<>>, calls |-> 0, kept |-> TRUE]

deleteText(text, length) == SubSeq(text, 1, IF length > Len(text) THEN 0 ELSE Len(text) - length)
Total(deltas) == FoldLeft(+, 0, deltas)
Executed(o, c) ==
  CASE c.type = "insert" -> [o EXCEPT !.text_ = @ \o c.text]
    [] c.type = "delete" -> [o EXCEPT !.text_ = deleteText(@, c.length)]
    [] OTHER -> [o EXCEPT !.counter = @ + Total(c.deltas)]
\* A deletion cannot be undone: the text is not saved.
Undone(o, c) ==
  CASE c.type = "insert" -> [o EXCEPT !.text_ = deleteText(@, Len(c.text))]
    [] c.type = "delete" -> o
    [] OTHER -> [o EXCEPT !.counter = @ - Total(c.deltas)]
Content(o) == <<o.text_, o.counter>>
Called(undo, redo, kept) ==
  /\ abs.calls < MaxCommands
  /\ abs' = [undo |-> undo, redo |-> redo, calls |-> abs.calls + 1, kept |-> abs.kept /\ kept]

execute(c) ==
  /\ obj' = [Executed(obj, c) EXCEPT !.undoStack_ = Append(@, c), !.redoStack_ = <<>>]
  /\ Called(Append(abs.undo, Content(obj)), <<>>, TRUE)
undo ==
  /\ obj.undoStack_ # <<>>
  /\ LET c == Last(obj.undoStack_) IN
     /\ obj' = [Undone(obj, c) EXCEPT !.undoStack_ = Front(@), !.redoStack_ = Append(@, c)]
     /\ Called(Front(abs.undo), Append(abs.redo, Content(obj)), c.type # "delete" \/ Last(abs.undo)[1] = <<>>)
redo ==
  /\ obj.redoStack_ # <<>>
  /\ LET c == Last(obj.redoStack_) IN
     /\ obj' = [Executed(obj, c) EXCEPT !.redoStack_ = Front(@), !.undoStack_ = Append(@, c)]
     /\ Called(Append(abs.undo, Content(obj)), Front(abs.redo), TRUE)

UndoNext == undo \/ redo \/ \E c \in Commands : execute(c)

\* Undo and redo, in any order and number, go back and forth on the states that
\* there were: to undo n of the commands, from where it is, is to be at the n-th
\* state kept.  Of the text this holds until a deletion that took something from it
\* is undone, which leaves the text as it is: no undo ever makes it longer.  The
\* counter comes back whatever has become of the text.
Unwound[n \in 0..MaxCommands] ==
  IF n = 0 THEN obj ELSE Undone(Unwound[n - 1], obj.undoStack_[Len(obj.undoStack_) - n + 1])
Rewound[n \in 0..MaxCommands] ==
  IF n = 0 THEN obj ELSE Executed(Rewound[n - 1], obj.redoStack_[Len(obj.redoStack_) - n + 1])
Takes(i) == obj.undoStack_[i].type = "delete" /\ abs.undo[i][1] # <<>>
UndoReverts ==
  /\ Len(obj.undoStack_) = Len(abs.undo) /\ Len(obj.redoStack_) = Len(abs.redo)
  /\ \A n \in DOMAIN obj.undoStack_ :
       LET first == Len(abs.undo) - n + 1 IN
       /\ Unwound[n].counter = abs.undo[first][2]
       /\ Len(Unwound[n].text_) <= Len(Unwound[n - 1].text_)
       /\ abs.kept /\ (\A i \in first..Len(abs.undo) : ~Takes(i)) => Unwound[n].text_ = abs.undo[first][1]
  /\ \A n \in DOMAIN obj.redoStack_ :
       LET kept == abs.redo[Len(abs.redo) - n + 1] IN
       Rewound[n].counter = kept[2] /\ (abs.kept => Rewound[n].text_ = kept[1])
-----------------------------------------------------------------------------
(* An editor, the snapshots of it, which are copies, and a history of the  *)
(* commands that forgets the oldest.                                       *)
SnapshotInit == obj = [content_ |-> <<>>, snapshots_ |-> <<>>, history_ |-> <<>>] /\ abs = [entries |-> <<>>, forgot |-> 0, next |-> 1]

Add(h) == IF Len(Append(h, abs.next)) > maxSize_ THEN Tail(Append(h, abs.next)) ELSE Append(h, abs.next)
Entered ==
  /\ abs.next <= MaxCommands
  /\ abs' = [entries |-> Append(abs.entries, abs.next), next |-> abs.next + 1,
             forgot |-> IF Len(obj.history_) = maxSize_ THEN abs.forgot + 1 ELSE abs.forgot]
type(text) ==
  /\ obj' = [obj EXCEPT !.content_ = @ \o text, !.history_ = Add(@)]
  /\ Entered
remove(count) ==
  /\ obj' = [obj EXCEPT !.content_ = deleteText(@, count), !.history_ = Add(@)]
  /\ Entered
save ==
  /\ Len(obj.snapshots_) < 2
  /\ obj' = [obj EXCEPT !.snapshots_ = Append(@, obj.content_), !.history_ = Add(@)]
  /\ Entered
restore ==
  /\ obj.snapshots_ # <<>>
  /\ obj' = [obj EXCEPT !.content_ = Last(obj.snapshots_), !.snapshots_ = Front(@), !.history_ = Add(@)]
  /\ Entered
undoEntry ==
  /\ obj.history_ # <<>>
  /\ obj' = [obj EXCEPT !.history_ = Front(@)]
  /\ abs' = [abs EXCEPT !.entries = Front(@)]
clearEntries ==
  /\ obj' = [obj EXCEPT !.history_ = <<>>]
  /\ abs' = [abs EXCEPT !.entries = <<>>, !.forgot = 0]

SnapshotNext == save \/ restore \/ undoEntry \/ clearEntries \/ \E t \in Texts : type(t) \/ \E n \in 1..2 : remove(n)

\* The history is what was added and not undone, less as many of the oldest as it
\* has forgotten, and never longer than it may be.
BoundedHistory ==
  /\ Len(obj.history_) <= maxSize_
  /\ obj.history_ = SubSeq(abs.entries, abs.forgot + 1, Len(abs.entries))
==============================================================================
