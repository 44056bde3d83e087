------------------------------- MODULE Records -------------------------------
(***************************************************************************)
(* The data-access patterns of the roadmap: active_record and unit_of_work *)
(* (stage 30), repository_pattern, cqrs_pattern and mvc_pattern (stage 28),*)
(* event_sourcing (stage 29).  One thread uses each.                       *)
(***************************************************************************)
EXTENDS Naturals, Integers, Sequences, SequencesExt, FiniteSets

CONSTANTS Contents,   \* names, texts
          MaxIds,     \* bound: ids given out
          MaxEvents   \* bound: events of a store, cells of a repository

VARIABLES
  obj,
  abs    \* history

Empty == [i \in {} |-> 0]
Put(f, k, v) == [j \in DOMAIN f \union {k} |-> IF j = k THEN v ELSE f[j]]
Cut(f, k) == [j \in DOMAIN f \ {k} |-> f[j]]
-----------------------------------------------------------------------------
(* active_record: two records and the registry of copies.                  *)
Two == 1..2
RecordInit ==
  /\ \E c \in Contents : obj = [record |-> [r \in Two |-> [id |-> 0, name |-> c, dirty |-> FALSE]],
                                registry_ |-> Empty, nextId_ |-> 1]
  /\ abs = [cleared |-> FALSE, saved |-> [r \in Two |-> FALSE]]

setName(r, c) ==
  /\ obj' = [obj EXCEPT !.record[r].name = c, !.record[r].dirty = TRUE]
  /\ abs' = [abs EXCEPT !.saved[r] = FALSE]

\* The copy is taken before markClean(): what find() returns is still dirty.
save(r) ==
  LET new == obj.record[r].id = 0
      id == IF new THEN obj.nextId_ ELSE obj.record[r].id
      copy == [obj.record[r] EXCEPT !.id = id] IN
  /\ obj.nextId_ <= MaxIds
  /\ obj' = [record |-> [obj.record EXCEPT ![r] = [copy EXCEPT !.dirty = FALSE]],
             registry_ |-> Put(obj.registry_, id, copy),
             nextId_ |-> IF new THEN obj.nextId_ + 1 ELSE obj.nextId_]
  /\ abs' = [abs EXCEPT !.saved[r] = TRUE]

clearRegistry ==
  /\ obj' = [obj EXCEPT !.registry_ = Empty, !.nextId_ = 1]
  /\ abs' = [cleared |-> \E r \in Two : obj.record[r].id # 0, saved |-> [r \in Two |-> FALSE]]

RecordNext ==
  \/ \E r \in Two : save(r) \/ \E c \in Contents : setName(r, c)
  \/ clearRegistry

\* As long as the registry was not cleared over records that had been saved, no
\* two records have an id in common and the registry has each as it was saved.
RecordsApart ==
  ~abs.cleared =>
    /\ \A r, q \in Two : r # q /\ obj.record[r].id = obj.record[q].id => obj.record[r].id = 0
    /\ \A r \in Two : abs.saved[r] => /\ ~obj.record[r].dirty
                                      /\ obj.registry_[obj.record[r].id].name = obj.record[r].name
-----------------------------------------------------------------------------
(* repository_pattern: users_ maps ids to shared users in the heap; found  *)
(* is the one a caller had from findById().                                *)
RepositoryInit ==
  /\ obj = [heap |-> <<>>, users_ |-> Empty, found |-> 0]
  /\ abs = [stored |-> Empty, id |-> 0]

saveUser(id, c) ==
  /\ Len(obj.heap) < MaxEvents
  /\ obj' = [obj EXCEPT !.heap = Append(@, c), !.users_ = Put(@, id, Len(obj.heap) + 1)]
  /\ abs' = [stored |-> Put(abs.stored, id, c), id |-> IF id = abs.id THEN 0 ELSE abs.id]

removeUser(id) ==
  /\ obj' = [obj EXCEPT !.users_ = Cut(@, id)]
  /\ abs' = [stored |-> Cut(abs.stored, id), id |-> IF id = abs.id THEN 0 ELSE abs.id]

findById(id) ==
  /\ id \in DOMAIN obj.users_
  /\ obj' = [obj EXCEPT !.found = obj.users_[id]]
  /\ abs' = [abs EXCEPT !.id = id]

\* setName() on the user found, without a save().
setFound(c) ==
  /\ obj.found # 0
  /\ obj' = [obj EXCEPT !.heap[obj.found] = c]
  /\ abs' = [abs EXCEPT !.stored = IF abs.id = 0 THEN @ ELSE [@ EXCEPT ![abs.id] = c]]

RepositoryNext ==
  \/ \E id \in Two : removeUser(id) \/ findById(id) \/ \E c \in Contents : saveUser(id, c)
  \/ \E c \in Contents : setFound(c)

\* What is stored is what was saved last, or what was written since through a
\* user found after that; one found before is detached.
RepositoryHolds == [id \in DOMAIN obj.users_ |-> obj.heap[obj.users_[id]]] = abs.stored
-----------------------------------------------------------------------------
(* unit_of_work: a caller that changes the entities of a database, which   *)
(* applies what was committed.  view is the database as the caller means it*)
(* to be, base as it was at the last commit; fresh are the entities that   *)
(* this unit registered as new, left those that its caller has removed and *)
(* that stay in the database (before: at the last commit).                 *)
UnitInit == obj = [tracked_ |-> Empty, db |-> Empty] /\ abs = [view |-> Empty, base |-> Empty, fresh |-> {}, left |-> {}, before |-> {}]

Tracked(id) == IF id \in DOMAIN obj.tracked_ THEN obj.tracked_[id].type ELSE "None"
Track(id, type, c) == obj' = [obj EXCEPT !.tracked_ = Put(@, id, [type |-> type, data |-> c])]

registerNew(id, c) ==
  /\ id \notin DOMAIN abs.view
  /\ Track(id, "Add", c)
  /\ abs' = [abs EXCEPT !.view = Put(@, id, c), !.fresh = @ \union {id}, !.left = @ \ {id}]

registerModified(id, c) ==
  /\ id \in DOMAIN abs.view
  /\ Track(id, IF Tracked(id) = "Add" THEN "Add" ELSE "Modify", c)
  /\ abs' = [abs EXCEPT !.view = Put(@, id, c)]

\* An entity that is new in this unit is forgotten.
registerRemoved(id) ==
  /\ id \in DOMAIN abs.view
  /\ IF Tracked(id) = "Add" THEN obj' = [obj EXCEPT !.tracked_ = Cut(@, id)]
     ELSE Track(id, "Remove", 0)
  /\ abs' = [abs EXCEPT !.view = Cut(@, id), !.fresh = @ \ {id},
                        !.left = IF id \in abs.fresh /\ id \in DOMAIN abs.base \union abs.before THEN @ \union {id} ELSE @]

Applied ==
  LET gone == {id \in DOMAIN obj.tracked_ : obj.tracked_[id].type = "Remove"} IN
  [id \in (DOMAIN obj.db \union DOMAIN obj.tracked_) \ gone |->
     IF id \in DOMAIN obj.tracked_ THEN obj.tracked_[id].data ELSE obj.db[id]]
commit ==
  /\ obj' = [tracked_ |-> Empty, db |-> Applied]
  /\ abs' = [abs EXCEPT !.base = abs.view, !.fresh = {}, !.before = abs.left]
rollback ==
  /\ obj' = [obj EXCEPT !.tracked_ = Empty]
  /\ abs' = [abs EXCEPT !.view = abs.base, !.fresh = {}, !.left = abs.before]

UnitNext ==
  \/ \E id \in Two : registerRemoved(id) \/ \E c \in {1, 2} : registerNew(id, c) \/ registerModified(id, c)
  \/ commit \/ rollback

\* A commit makes the database what the calls, one by one, would have made it, and
\* a rollback what it was, for every entity but those that stay: exactly the ones
\* that were in the database when a unit registered them as new and removed them
\* again, whose removal is cancelled with their registration; each keeps what it was
\* until it is registered as new once more.
CommitsTheNet ==
  LET Means(view, left) == [id \in DOMAIN view \union left |-> IF id \in left THEN obj.db[id] ELSE view[id]] IN
  /\ Applied = Means(abs.view, abs.left)
  /\ obj.db = Means(abs.base, abs.before)
-----------------------------------------------------------------------------
(* event_sourcing: two aggregates may share a store.                       *)
SourceInit ==
  /\ obj = [events_ |-> <<>>, account_ |-> [a \in Two |-> [name |-> "", balance |-> 0]]]
  /\ abs = [writers |-> {}, cleared |-> FALSE]

applyEvent(account, e) ==
  CASE e.type = "Created" -> [account EXCEPT !.name = e.data]
    [] e.type = "Deposited" -> [account EXCEPT !.balance = @ + e.amount]
    [] OTHER -> [account EXCEPT !.balance = @ - e.amount]
Replay(events) == FoldLeft(applyEvent, [name |-> "", balance |-> 0], events)

\* create(), deposit() and withdraw().
AppendAndApply(a, e) ==
  /\ Len(obj.events_) < MaxEvents
  /\ obj' = [events_ |-> Append(obj.events_, e), account_ |-> [obj.account_ EXCEPT ![a] = applyEvent(@, e)]]
  /\ abs' = [abs EXCEPT !.writers = @ \union {a}]
rebuild(a) ==
  /\ obj' = [obj EXCEPT !.account_[a] = Replay(obj.events_)]
  /\ UNCHANGED abs
clearStore ==
  /\ ~abs.cleared   \* bound
  /\ obj' = [obj EXCEPT !.events_ = <<>>]
  /\ abs' = [abs EXCEPT !.cleared = @ \/ obj.events_ # <<>>]

SourceNext ==
  \/ \E a \in Two : \/ rebuild(a)
                    \/ \E c \in Contents : AppendAndApply(a, [type |-> "Created", data |-> c, amount |-> 0])
                    \/ \E t \in {"Deposited", "Withdrawn"} : AppendAndApply(a, [type |-> t, data |-> "", amount |-> 1])
  \/ clearStore

\* The aggregate that alone has written the store is what a replay makes of it.
ReplayRebuilds ==
  \A a \in Two : abs.writers = {a} /\ ~abs.cleared => obj.account_[a] = Replay(obj.events_)
-----------------------------------------------------------------------------
(* cqrs_pattern: accounts and two buses; mvc_pattern: items and the lines  *)
(* shown.  Both give ids from a counter.                                   *)
CountersInit ==
  /\ obj = [accounts_ |-> Empty, items_ |-> <<>>, output_ |-> [lines |-> <<>>, total |-> 0, done |-> 0], nextAccount |-> 1, nextItem |-> 1]
  /\ abs = [deposits |-> 0, ids |-> {}, shown |-> TRUE]

createAccount ==
  /\ obj.nextAccount <= MaxIds
  /\ obj' = [obj EXCEPT !.accounts_ = Put(@, obj.nextAccount, 0), !.nextAccount = @ + 1]
  /\ UNCHANGED abs
deposit(id) ==
  /\ abs.deposits < MaxEvents
  /\ id \in DOMAIN obj.accounts_
  /\ obj' = [obj EXCEPT !.accounts_[id] = @ + 1]
  /\ abs' = [abs EXCEPT !.deposits = @ + 1]

addItem ==
  /\ obj.nextItem <= MaxIds
  /\ obj' = [obj EXCEPT !.items_ = Append(@, [id |-> obj.nextItem, done |-> FALSE]), !.nextItem = @ + 1]
  /\ abs' = [abs EXCEPT !.ids = @ \union {obj.nextItem}, !.shown = FALSE]
toggleItem(id) ==
  /\ obj' = [obj EXCEPT !.items_ = [i \in DOMAIN @ |-> IF @[i].id = id THEN [@[i] EXCEPT !.done = ~@] ELSE @[i]]]
  /\ abs' = [abs EXCEPT !.shown = @ /\ obj'.items_ = obj.items_]
removeItem(id) ==
  /\ obj' = [obj EXCEPT !.items_ = SelectSeq(@, LAMBDA i : i.id # id)]
  /\ abs' = [abs EXCEPT !.shown = @ /\ obj'.items_ = obj.items_]
Rendered == [lines |-> [i \in DOMAIN obj.items_ |-> obj.items_[i].done], total |-> Len(obj.items_),
             done |-> Cardinality({i \in DOMAIN obj.items_ : obj.items_[i].done})]
refresh ==
  /\ obj' = [obj EXCEPT !.output_ = Rendered]
  /\ abs' = [abs EXCEPT !.shown = TRUE]

CountersNext ==
  \/ createAccount \/ addItem \/ refresh
  \/ \E id \in 1..MaxIds : deposit(id) \/ toggleItem(id) \/ removeItem(id)

\* Ids are not used twice, whatever was removed; the balances add up to what was
\* deposited; the view shows the model until something changes in it.
CountersKeep ==
  /\ DOMAIN obj.accounts_ = 1..obj.nextAccount - 1
  /\ FoldFunction(+, 0, obj.accounts_) = abs.deposits
  /\ abs.ids = 1..obj.nextItem - 1
  /\ \A i, j \in DOMAIN obj.items_ : i < j => obj.items_[i].id < obj.items_[j].id
  /\ abs.shown => obj.output_ = Rendered
=============================================================================
