------------------------------ MODULE Observers ------------------------------
(***************************************************************************)
(* Who is told what.  publish-subscribe (stage 8) copies the callbacks     *)
(* under its mutex and calls them outside; the buses that walk the live    *)
(* vector of handlers (observer-event, -mediator, -bus, -subscription and  *)
(* mini-http-framework's) and observer-pattern, for one thread; the        *)
(* state-machine of stage 8, whose actions may handle events themselves.   *)
(***************************************************************************)
EXTENDS Naturals, Sequences, SequencesExt, FiniteSets

CONSTANTS Threads, Topics, MaxIds,   \* bound: subscriptions made
          MaxEvents,                 \* bound: publications, observers on a list
          Watchers,                  \* the observers of a subject, numbers above 0
          MaxSets                    \* bound: values set

VARIABLES
  obj,
  abs    \* history
-----------------------------------------------------------------------------
(* pubsub: calls[t] are the callbacks that thread t has still to call.     *)
Ids == 1..MaxIds
PubSubInit ==
  /\ obj = [subscribers_ |-> [p \in Topics |-> <<>>], nextId_ |-> 1, calls |-> [t \in Threads |-> <<>>]]
  /\ abs = [told |-> [i \in Ids |-> 0], due |-> [i \in Ids |-> 0], gone |-> [i \in Ids |-> Cardinality(Threads) + 1], events |-> 0]

subscribe(topic) ==
  /\ obj.nextId_ \in Ids
  /\ obj' = [obj EXCEPT !.nextId_ = @ + 1, !.subscribers_[topic] = Append(@, obj.nextId_)]
  /\ UNCHANGED abs
Pending(id) == Cardinality({t \in Threads : \E i \in DOMAIN obj.calls[t] : obj.calls[t][i] = id})
unsubscribe(id) ==
  /\ obj' = [obj EXCEPT !.subscribers_ = [p \in Topics |-> SelectSeq(@[p], LAMBDA s : s # id)]]
  /\ abs' = [abs EXCEPT !.gone[id] = IF @ > Cardinality(Threads) THEN Pending(id) ELSE @]
publish(t, topic) ==
  /\ obj.calls[t] = <<>> /\ abs.events < MaxEvents
  /\ obj' = [obj EXCEPT !.calls[t] = obj.subscribers_[topic]]
  /\ abs' = [abs EXCEPT !.events = @ + 1, !.due = [i \in Ids |-> @[i] + (IF Contains(obj.subscribers_[topic], i) THEN 1 ELSE 0)]]
callback(t) ==
  /\ obj.calls[t] # <<>>
  /\ LET id == Head(obj.calls[t]) IN
     abs' = [abs EXCEPT !.told[id] = @ + 1, !.gone[id] = IF @ > Cardinality(Threads) THEN @ ELSE @ - 1]
  /\ obj' = [obj EXCEPT !.calls[t] = Tail(@)]

PubSubNext ==
  \/ \E p \in Topics : subscribe(p) \/ \E t \in Threads : publish(t, p)
  \/ \E id \in 1..obj.nextId_ - 1 : unsubscribe(id)
  \/ \E t \in Threads : callback(t)

\* A message reaches, once, those who were subscribed when it was published; who
\* has unsubscribed is still called, as often as publications were under way then.
ToldAsDue ==
  \A id \in Ids :
    /\ abs.told[id] + Pending(id) = abs.due[id]
    /\ abs.gone[id] <= Cardinality(Threads) => Pending(id) = abs.gone[id]
-----------------------------------------------------------------------------
(* The buses of one thread.  publish() walks the live vector of its type   *)
(* up to the end that it had when the walk began; at holds the walks, the  *)
(* innermost last.  A handler may publish, subscribe, unsubscribe or clear,*)
(* for the type that is walked too: a walk whose vector is reallocated or  *)
(* loses one of its entries has lost its place, and what the program does  *)
(* when it goes on with it is undefined: nothing is said of it from there. *)
Grown(room) == IF room = 0 THEN 1 ELSE 2 * room
NoHandlers == [list |-> <<>>, room |-> 0]
BusInit ==
  /\ obj = [handlers_ |-> [p \in Topics |-> NoHandlers], nextId_ |-> 1, active |-> {}, at |-> <<>>]
  /\ abs = [type |-> [i \in Ids |-> "none"], told |-> <<>>, due |-> <<>>, defined |-> TRUE]

\* The caller is the program, or the handler that the innermost walk has called.
Acting == abs.defined /\ (obj.at # <<>> => Last(obj.at).index > 1)
\* The walks over vectors of the types that have their place still.
Over(types) == {i \in DOMAIN obj.at : ~obj.at[i].lost /\ obj.at[i].type \in types}
Lose(walks) == [i \in DOMAIN obj.at |-> [obj.at[i] EXCEPT !.lost = @ \/ i \in walks]]
busSubscribe(type) ==
  LET handlers == obj.handlers_[type]
      full == Len(handlers.list) = handlers.room IN
  /\ Acting /\ obj.nextId_ \in Ids
  /\ obj' = [obj EXCEPT !.nextId_ = @ + 1, !.active = @ \union {obj.nextId_},
                        !.handlers_[type] = [list |-> Append(@.list, obj.nextId_), room |-> IF full THEN Grown(@.room) ELSE @.room],
                        !.at = IF full THEN Lose(Over({type})) ELSE @]
  /\ abs' = [abs EXCEPT !.type[obj.nextId_] = type]
\* Also ~Subscription(): only the first time does anything.
dropSubscription(id) ==
  LET type == abs.type[id] IN
  /\ Acting /\ id \in obj.active
  /\ obj' = [obj EXCEPT !.active = @ \ {id}, !.handlers_[type].list = SelectSeq(@, LAMBDA s : s # id),
                        !.at = Lose({i \in Over({type}) : \E j \in 1..obj.at[i].end : obj.handlers_[type].list[j] = id})]
  /\ UNCHANGED abs
off(types) ==
  /\ Acting
  /\ obj' = [obj EXCEPT !.handlers_ = [p \in Topics |-> IF p \in types THEN NoHandlers ELSE @[p]],
                        !.at = Lose(Over(types))]
  /\ UNCHANGED abs
busPublish(type) ==
  /\ Acting /\ Len(obj.at) < Cardinality(Topics)
  /\ obj' = [obj EXCEPT !.at = Append(@, [type |-> type, index |-> 1, end |-> Len(obj.handlers_[type].list), lost |-> FALSE])]
  /\ abs' = [abs EXCEPT !.told = Append(@, <<>>), !.due = Append(@, obj.handlers_[type].list)]
busHandle ==
  LET walk == Last(obj.at) IN
  /\ obj.at # <<>> /\ abs.defined
  /\ CASE walk.lost -> abs' = [abs EXCEPT !.defined = FALSE] /\ UNCHANGED obj
       [] ~walk.lost /\ walk.index > walk.end ->
            /\ obj' = [obj EXCEPT !.at = Front(@)]
            /\ abs' = [abs EXCEPT !.told = Front(@), !.due = Front(@)]
       [] OTHER ->
            /\ obj' = [obj EXCEPT !.at[Len(obj.at)].index = @ + 1]
            /\ abs' = [abs EXCEPT !.told[Len(obj.at)] = Append(@, obj.handlers_[walk.type].list[walk.index])]

BusNext ==
  \/ busHandle \/ off(Topics)
  \/ \E p \in Topics : busSubscribe(p) \/ busPublish(p) \/ off({p})
  \/ \E id \in obj.active : dropSubscription(id)

\* Each handler is registered by one Subscription that is active, and for its
\* type; an event reaches those who were registered for its type when it was
\* published, in their order and no one who came later, whatever handlers
\* publish, subscribe or drop meanwhile, until the vector of the type is
\* reallocated or loses one of those it is walked for.
HandlersInOrder ==
  abs.defined =>
    /\ \A p \in Topics, i, j \in 1..MaxIds :
         {i, j} \subseteq DOMAIN obj.handlers_[p].list =>
           LET id == obj.handlers_[p].list[i] IN
           id \in obj.active /\ abs.type[id] = p /\ (i < j => id < obj.handlers_[p].list[j])
    /\ \A i \in DOMAIN obj.at :
         ~obj.at[i].lost =>
           /\ IsPrefix(abs.told[i], abs.due[i]) /\ Len(abs.told[i]) = obj.at[i].index - 1
           /\ IsPrefix(abs.due[i], obj.handlers_[obj.at[i].type].list)
-----------------------------------------------------------------------------
(* observer_pattern: observers are held weakly.  notify() walks the vector *)
(* with an iterator, compares it with an end that is read anew and erases  *)
(* the expired; update() may do what any caller does.  walks are the calls *)
(* of notify(), the innermost last: held is the observer that is updated,  *)
(* 0 between two, and lost says that the iterator is no longer valid: the  *)
(* ++it after update() is undefined then.  abs.alive are the observers that*)
(* the program holds.                                                      *)
SubjectInit ==
  /\ obj = [observers_ |-> <<>>, room |-> 0, value_ |-> 0, walks |-> <<>>]
  /\ abs = [alive |-> Watchers, attached |-> [i \in Watchers |-> 0], last |-> [i \in Watchers |-> 0], late |-> {},
            told |-> <<>>, from |-> <<>>, defined |-> TRUE]

Expired(id) == id \notin abs.alive /\ \A i \in DOMAIN obj.walks : obj.walks[i].held # id
\* The caller is the program, or the update() of the innermost walk.
Calling == abs.defined /\ (obj.walks # <<>> => Last(obj.walks).held # 0)
LoseFrom(position) == [i \in DOMAIN obj.walks |-> [obj.walks[i] EXCEPT !.lost = @ \/ obj.walks[i].index >= position]]
attach(id) ==
  /\ Calling /\ id \in abs.alive /\ Len(obj.observers_) < MaxEvents
  /\ LET full == Len(obj.observers_) = obj.room IN
     obj' = [obj EXCEPT !.observers_ = Append(@, id), !.room = IF full THEN Grown(@) ELSE @,
                        !.walks = IF full THEN LoseFrom(1) ELSE @]
  /\ abs' = [abs EXCEPT !.attached[id] = @ + 1,
                        !.late = IF obj.walks = <<>> /\ abs.attached[id] = 0 THEN @ \union {id} ELSE @]
detach(id) ==
  LET Goes(o) == Expired(o) \/ o = id
      gone == {i \in DOMAIN obj.observers_ : Goes(obj.observers_[i])} IN
  /\ Calling /\ id \in abs.alive
  /\ obj' = [obj EXCEPT !.observers_ = SelectSeq(@, LAMBDA o : ~Goes(o)),
                        !.walks = IF gone = {} THEN @ ELSE LoseFrom(Min(gone))]
  /\ abs' = [abs EXCEPT !.attached[id] = 0, !.late = @ \ {id}]
destroy(id) ==
  /\ Calling /\ id \in abs.alive
  /\ abs' = [abs EXCEPT !.alive = @ \ {id}]
  /\ UNCHANGED obj
setValue ==
  /\ Calling /\ obj.value_ < MaxSets
  /\ obj' = [obj EXCEPT !.value_ = @ + 1, !.walks = Append(@, [index |-> 1, held |-> 0, lost |-> FALSE])]
  /\ abs' = [abs EXCEPT !.told = Append(@, <<>>), !.from = Append(@, obj.value_ + 1),
                        !.late = IF obj.walks = <<>> THEN {} ELSE @]
notify ==
  LET n == Len(obj.walks)
      at == obj.walks[n].index
      id == obj.observers_[at] IN
  /\ abs.defined /\ obj.walks # <<>> /\ Last(obj.walks).held = 0
  /\ CASE at > Len(obj.observers_) ->
            obj' = [obj EXCEPT !.walks = Front(@)] /\ abs' = [abs EXCEPT !.told = Front(@), !.from = Front(@)]
       [] at <= Len(obj.observers_) /\ Expired(id) ->
            /\ obj' = [obj EXCEPT !.observers_ = RemoveAt(@, at), !.walks = [LoseFrom(at) EXCEPT ![n] = obj.walks[n]]]
            /\ UNCHANGED abs
       [] OTHER ->
            /\ obj' = [obj EXCEPT !.walks[n].held = id]
            /\ abs' = [abs EXCEPT !.told[n] = Append(@, id), !.last[id] = obj.value_]
updateReturns ==
  LET n == Len(obj.walks) IN
  /\ abs.defined /\ obj.walks # <<>> /\ obj.walks[n].held # 0
  /\ IF obj.walks[n].lost
     THEN abs' = [abs EXCEPT !.defined = FALSE] /\ UNCHANGED obj
     ELSE obj' = [obj EXCEPT !.walks[n] = [@ EXCEPT !.held = 0, !.index = @ + 1]] /\ UNCHANGED abs

SubjectNext == setValue \/ notify \/ updateReturns \/ \E id \in Watchers : attach(id) \/ detach(id) \/ destroy(id)

\* As long as no walk goes on with an iterator that a reallocation, or an erase
\* at or before its place, has made invalid: each walk has told, once and in
\* order, the entries of the vector up to its place, the ones attached meanwhile
\* included, none with a value older than the one it began with; an observer that
\* still exists is on the vector as often as it was attached since it was
\* detached; and when setValue() has returned, every one of them has the last
\* value, which a nested setValue() may have set, but those attached afterwards.
AttachedAreTold ==
  abs.defined =>
    /\ \A i \in DOMAIN obj.walks :
         LET walk == obj.walks[i]
             through == IF walk.held = 0 THEN walk.index - 1 ELSE walk.index IN
         ~walk.lost =>
           /\ abs.told[i] = SubSeq(obj.observers_, 1, through)
           /\ \A j \in 1..through : abs.last[obj.observers_[j]] >= abs.from[i]
    /\ \A id \in Watchers : ~Expired(id) => Len(SelectSeq(obj.observers_, LAMBDA o : o = id)) = abs.attached[id]
    /\ obj.walks = <<>> =>
         \A i \in DOMAIN obj.observers_ :
           LET id == obj.observers_[i] IN Expired(id) \/ id \in abs.late \/ abs.last[id] = obj.value_
-----------------------------------------------------------------------------
(* state_machine, with three states and two events.  An action may handle  *)
(* an event, set the state or throw.                                       *)
States == {"idle", "busy", "done"}
Events == {"go", "stop"}
transitions_ == [key \in {<<"idle", "go">>, <<"busy", "go">>, <<"busy", "stop">>, <<"done", "stop">>} |->
                   CASE key = <<"idle", "go">> -> "busy" [] key = <<"busy", "go">> -> "done" [] OTHER -> "idle"]
canHandle(state, event) == <<state, event>> \in DOMAIN transitions_
availableEvents(state) == {e \in Events : canHandle(state, e)}

\* running: the targets of the events whose action is running, outermost first.
MachineInit == obj = [currentState_ |-> "idle", running |-> <<>>] /\ abs = [settles |-> "idle"]
handleEvent(event) ==
  /\ canHandle(obj.currentState_, event) /\ Len(obj.running) < 2
  /\ obj' = [obj EXCEPT !.running = Append(@, transitions_[obj.currentState_, event])]
  /\ abs' = IF obj.running = <<>> THEN [abs EXCEPT !.settles = transitions_[abs.settles, event]] ELSE abs
actionReturns ==
  /\ obj.running # <<>>
  /\ obj' = [currentState_ |-> Last(obj.running), running |-> Front(obj.running)]
  /\ UNCHANGED abs
\* The exception leaves the outer actions too: what a nested event or setState()
\* has done stays.
actionThrows ==
  /\ obj.running # <<>>
  /\ obj' = [obj EXCEPT !.running = <<>>]
  /\ abs' = [abs EXCEPT !.settles = obj.currentState_]
setState(state) ==
  /\ obj' = [obj EXCEPT !.currentState_ = state]
  /\ abs' = IF obj.running = <<>> THEN [abs EXCEPT !.settles = state] ELSE abs
MachineNext ==
  \/ actionReturns \/ actionThrows
  \/ \E e \in Events : handleEvent(e)
  \/ \E s \in States : setState(s)

\* When no action runs, the machine is where the table leads from the state in
\* which the last outermost event was accepted: what its action did to the state,
\* by events or setState() of its own, is overwritten, unless it threw.
TableIsFollowed == obj.running = <<>> => obj.currentState_ = abs.settles
=============================================================================
