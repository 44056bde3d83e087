------------------------------ MODULE Ownership ------------------------------
(***************************************************************************)
(* The examples about the lifetime of objects (examples/): each function   *)
(* is a sequence of steps on places -- variables, members, captures --     *)
(* that own an object, share one, watch one or only hold its address.      *)
(* Whatever allocates may throw; the places of a scope then go in reverse  *)
(* order, as they do when it ends.                                         *)
(***************************************************************************)
EXTENDS Naturals, Sequences, SequencesExt, FiniteSets, FiniteSetsExt, Functions, TLC

VARIABLES
  obj,
  abs    \* the function that is called
-----------------------------------------------------------------------------
(* A place refers to object at, 0 for none, and is a member of object in,  *)
(* 0 for a variable.                                                       *)
Nowhere == [kind |-> "none", at |-> 0, in |-> 0]
Fault(m, f) == [m EXCEPT !.faults = @ \union {f}]

\* An object dies with its members; a shared one when its last owner lets go of it.
RECURSIVE Drop(_, _)
Kill(m, o) ==
  LET members == {p \in DOMAIN m.place : m.place[p].in = o}
      rest == [m EXCEPT !.live = @ \ {o}, !.place = Restrict(@, DOMAIN @ \ members)] IN
  IF o \in m.live THEN FoldLeft(LAMBDA n, p : Drop(n, m.place[p]), rest, SetToSeq(members)) ELSE Fault(m, "double free")
Shared(m, o) == \E p \in DOMAIN m.place : m.place[p].kind = "share" /\ m.place[p].at = o
Drop(m, r) == IF r.at = 0 \/ r.kind \notin {"own", "share"} \/ (r.kind = "share" /\ Shared(m, r.at)) THEN m ELSE Kill(m, r.at)

PlaceOf(m, p) == IF p \in DOMAIN m.place THEN m.place[p] ELSE Nowhere
Put(m, p, kind, o) ==
  [m EXCEPT !.place = (p :> [kind |-> kind, at |-> o, in |-> PlaceOf(m, p).in]) @@ @,
            !.order = IF p \in DOMAIN m.place THEN @ ELSE Append(@, p)]
Assign(m, p, kind, o) == Drop(Put(m, p, kind, o), PlaceOf(m, p))
Fresh(m) == [m EXCEPT !.made = @ + 1, !.live = @ \union {m.made + 1}]
Make(m, p, kind) == Assign(Fresh(m), p, kind, m.made + 1)
Member(m, p, q) == [m EXCEPT !.place = (q :> [Nowhere EXCEPT !.in = m.place[p].at]) @@ @]
Copy(m, p, q) == IF m.place[p].kind = "own" THEN Make(m, q, "own") ELSE Assign(m, q, m.place[p].kind, m.place[p].at)
\* A self move changes nothing, and the source of a move is left empty.
MoveAs(m, p, q, kind) == IF p = q THEN m ELSE Assign(Put(m, p, m.place[p].kind, 0), q, kind, m.place[p].at)
Lock(m, p, q) == Assign(m, q, "share", IF m.place[p].at \in m.live THEN m.place[p].at ELSE 0)
Use(m, p) == LET o == m.place[p].at IN IF o = 0 THEN Fault(m, "empty") ELSE IF o \in m.live THEN m ELSE Fault(m, "dangling")
Claims(m, p) == IF m.place[p].kind = "stale" THEN Fault(m, "stale") ELSE m
\* The variables after the first n go, the last one first.
Unwind(m, n) ==
  FoldLeft(LAMBDA k, p : Drop([k EXCEPT !.place = Restrict(@, DOMAIN @ \ {p}), !.order = Front(@)], k.place[p]),
           m, Reverse(SubSeq(m.order, n + 1, Len(m.order))))
Leave(m, p) == Unwind(m, (CHOOSE i \in DOMAIN m.order : m.order[i] = p) - 1)

Allocates == {"own", "share", "new", "renew", "grow", "copy"}
Do(m, s) ==
  LET p == s[2]  q == s[Len(s)] IN
  CASE s[1] \in {"own", "share"} -> Make(m, p, s[1])
    [] s[1] = "new" -> Make(m, p, "raw")
    [] s[1] = "renew" -> Put(Fresh(m), p, m.place[p].kind, m.made + 1)     \* over what was there
    [] s[1] = "grow" -> Make(m, p, m.place[p].kind)                         \* the elements move
    [] s[1] = "slot" -> Put(m, p, "none", 0)
    [] s[1] = "part" -> Member(m, p, q)
    [] s[1] = "copy" -> Copy(m, p, q)
    [] s[1] = "move" -> MoveAs(m, p, q, m.place[p].kind)
    [] s[1] = "keep size" -> Put(MoveAs(m, p, q, "own"), p, "stale", 0)
    [] s[1] = "release" -> MoveAs(m, p, q, "raw")
    [] s[1] = "view" -> Assign(m, q, "raw", m.place[p].at)
    [] s[1] = "watch" -> Assign(m, q, "weak", m.place[p].at)
    [] s[1] = "lock" -> Lock(m, p, q)
    [] s[1] = "reset" -> Assign(m, p, m.place[p].kind, 0)
    [] s[1] = "delete" -> Kill(m, m.place[p].at)
    [] s[1] = "null" -> Put(m, p, "raw", 0)
    [] s[1] = "use" -> Use(m, p)
    [] s[1] = "size" -> Claims(m, p)
    [] s[1] = "leave" -> Leave(m, p)
    [] s[1] = "try" -> [m EXCEPT !.base = Len(m.order), !.catches = TRUE]
    [] s[1] = "catch" -> [Unwind(m, m.base) EXCEPT !.base = 0, !.catches = FALSE]
    [] OTHER -> m
-----------------------------------------------------------------------------
(* Double frees, leaks and dangling pointers.                              *)
aliasingDoubleFree == <<<<"own", "owned">>>>
consumeAndDelete == <<<<"own", "borrowed">>, <<"view", "borrowed", "data">>, <<"use", "data">>, <<"leave", "borrowed">>,
  <<"own", "owned">>, <<"move", "owned", "data">>, <<"use", "data">>, <<"leave", "data">>>>
sharedPointerCaveat == <<<<"share", "owner">>, <<"copy", "owner", "observer">>, <<"reset", "owner">>, <<"use", "observer">>>>
owningClass == <<<<"own", "buffer">>, <<"move", "buffer", "moved">>, <<"use", "moved">>>>
leakyProcess == <<<<"own", "r">>, <<"return?">>, <<"use", "r">>>>
throwingProcess == <<<<"own", "r">>, <<"work">>, <<"use", "r">>>>
containersOwnTheirElements == <<<<"own", "owned">>, <<"part", "owned", "gamma">>, <<"own", "gamma">>, <<"part", "owned", "delta">>, <<"own", "delta">>, <<"use", "gamma">>>>
raiiForFileHandles == <<<<"own", "handle">>, <<"use", "handle">>>>
danglingAfterDelete == <<<<"new", "raw">>, <<"use", "raw">>, <<"delete", "raw">>, <<"null", "raw">>>>
elementOfFreedArray == <<<<"new", "arr">>, <<"view", "arr", "element">>, <<"delete", "arr">>, <<"use", "element">>>>
danglingIntoFreedArray == <<<<"own", "arr">>, <<"use", "arr">>, <<"view", "arr", "element">>, <<"use", "element">>>>
invalidatedByContainerGrowth == <<<<"own", "values">>, <<"view", "values", "old">>, <<"grow", "values">>, <<"view", "values", "new">>, <<"use", "new">>>>
makeBadCallback == <<<<"slot", "callback">>, <<"own", "tmp">>, <<"view", "tmp", "callback">>, <<"leave", "tmp">>, <<"use", "callback">>>>
danglingLambdaCapture == <<<<"slot", "good">>, <<"own", "tmp">>, <<"copy", "tmp", "good">>, <<"leave", "tmp">>, <<"use", "good">>>>
ownershipInsteadOfAddresses == <<<<"share", "session">>, <<"use", "session">>, <<"watch", "session", "observer">>, <<"reset", "session">>>>
-----------------------------------------------------------------------------
(* After a move.                                                           *)
movedFromString == <<<<"own", "original">>, <<"move", "original", "moved_to">>, <<"size", "original">>, <<"own", "original">>, <<"use", "original">>>>
movedFromVector == <<<<"own", "source">>, <<"move", "source", "sink">>, <<"size", "source">>, <<"use", "sink">>>>
BadBuffer == <<<<"own", "source">>, <<"keep size", "source", "sink">>, <<"size", "source">>>>
movedFromBuffer == <<<<"own", "good_source">>, <<"move", "good_source", "good_sink">>, <<"size", "good_source">>>>
exchangeIdiom == <<<<"own", "value">>, <<"slot", "taken">>, <<"move", "value", "taken">>, <<"own", "value">>, <<"use", "value">>, <<"use", "taken">>>>
reinitialiseAfterMove == <<<<"own", "numbers">>, <<"move", "numbers", "taken">>, <<"own", "numbers">>, <<"use", "numbers">>, <<"use", "taken">>>>
selfMove == <<<<"own", "counter">>, <<"view", "counter", "alias">>, <<"move", "counter", "counter">>, <<"use", "counter">>, <<"use", "alias">>>>
moving_from_const_copies == <<<<"own", "source">>, <<"copy", "source", "local">>, <<"leave", "local">>, <<"copy", "source", "local">>, <<"leave", "local">>, <<"use", "source">>>>
sink_api_patterns == <<<<"own", "holder">>, <<"own", "source">>, <<"copy", "source", "holder">>, <<"use", "source">>,
  <<"own", "rvalue_source">>, <<"move", "rvalue_source", "text">>, <<"move", "text", "holder">>, <<"size", "rvalue_source">>, <<"leave", "text">>,
  <<"own", "lvalue_source">>, <<"copy", "lvalue_source", "text">>, <<"move", "text", "holder">>, <<"use", "lvalue_source">>, <<"use", "holder">>>>
forwarding_keeps_constness == <<<<"own", "const_source">>, <<"copy", "const_source", "local">>, <<"leave", "local">>,
  <<"own", "mutable_source">>, <<"copy", "mutable_source", "local">>, <<"leave", "local">>, <<"own", "temporary">>, <<"move", "temporary", "local">>, <<"use", "const_source">>>>
demonstrateSwapOptimization == <<<<"own", "a">>, <<"own", "b">>, <<"move", "a", "t">>, <<"move", "b", "a">>, <<"move", "t", "b">>, <<"leave", "t">>, <<"use", "a">>, <<"use", "b">>>>
demonstrateVectorReallocation == <<<<"own", "vec">>, <<"part", "vec", "A">>, <<"own", "A">>, <<"part", "vec", "B">>, <<"own", "B">>,
  <<"own", "buffer">>, <<"part", "buffer", "C">>, <<"own", "C">>, <<"part", "buffer", "A1">>, <<"move", "A", "A1">>, <<"part", "buffer", "B1">>, <<"move", "B", "B1">>,
  <<"move", "buffer", "vec">>, <<"use", "A1">>, <<"use", "C">>>>
createNrvObjectConditional == <<<<"slot", "obj2">>, <<"own", "a">>, <<"own", "b">>, <<"copy", "a", "obj2">>, <<"leave", "a">>, <<"use", "obj2">>>>
moveVsCopyDemo == <<<<"own", "original">>, <<"copy", "original", "copy">>, <<"use", "original">>, <<"move", "original", "moved">>, <<"size", "original">>, <<"use", "moved">>>>
moveContainersDemo == <<<<"own", "vec">>, <<"part", "vec", "item1">>, <<"own", "item1">>, <<"own", "item2">>, <<"part", "vec", "v2">>, <<"copy", "item2", "v2">>,
  <<"own", "item3">>, <<"part", "vec", "v3">>, <<"move", "item3", "v3">>, <<"leave", "item3">>, <<"part", "vec", "v4">>, <<"move", "item2", "v4">>, <<"size", "item2">>, <<"use", "v4">>>>
moveOnlyDemo == <<<<"own", "a">>, <<"move", "a", "b">>, <<"own", "c">>, <<"move", "b", "c">>, <<"size", "b">>, <<"use", "c">>>>
commonPitfalls == <<<<"own", "s">>, <<"move", "s", "moved">>, <<"size", "s">>, <<"own", "cs">>, <<"copy", "cs", "target">>, <<"use", "cs">>,
  <<"own", "original">>, <<"move", "original", "first">>, <<"move", "original", "second">>, <<"size", "original">>>>
demonstrateExceptionSafety == <<<<"own", "vec">>, <<"part", "vec", "X">>, <<"own", "X">>, <<"try">>,
  <<"own", "buffer">>, <<"part", "buffer", "Z">>, <<"own", "Z">>, <<"part", "buffer", "X1">>, <<"move", "X", "X1">>, <<"move", "buffer", "vec">>, <<"catch">>, <<"use", "vec">>>>
-----------------------------------------------------------------------------
(* Smart pointers and classes that own.                                    *)
uniquePtrDemo == <<<<"own", "res">>, <<"move", "res", "moved">>, <<"release", "moved", "raw">>, <<"use", "raw">>, <<"delete", "raw">>, <<"own", "another">>, <<"reset", "another">>>>
sharedPtrDemo == <<<<"share", "res">>, <<"copy", "res", "copy1">>, <<"copy", "res", "copy2">>, <<"use", "copy1">>, <<"leave", "copy1">>, <<"use", "res">>>>
controlBlockDemo == <<<<"share", "res">>, <<"use", "res">>>>
weakPtrDemo == <<<<"share", "parent">>, <<"share", "child">>, <<"part", "child", "parent_">>, <<"watch", "parent", "parent_">>,
  <<"lock", "parent_", "p">>, <<"use", "p">>, <<"leave", "p">>, <<"reset", "parent">>, <<"lock", "parent_", "p">>, <<"use", "child">>>>
circularReferenceProblem == <<<<"share", "a">>, <<"part", "a", "a.next">>, <<"share", "b">>, <<"part", "b", "b.next">>, <<"copy", "b", "a.next">>, <<"copy", "a", "b.next">>>>
breakCycleWithWeakPtr == <<<<"share", "a">>, <<"part", "a", "a.next">>, <<"share", "b">>, <<"part", "b", "b.previous">>, <<"copy", "b", "a.next">>, <<"watch", "a", "b.previous">>>>
customDeleterDemo == <<<<"own", "res">>, <<"use", "res">>, <<"leave", "res">>>>
makeSharedVsNew == <<<<"share", "efficient">>, <<"share", "less_efficient">>>>
sharedPointerCycle == <<<<"share", "a">>, <<"part", "a", "a.next">>, <<"share", "b">>, <<"part", "b", "b.next">>, <<"copy", "b", "a.next">>, <<"copy", "a", "b.next">>,
  <<"reset", "a.next">>, <<"reset", "b.next">>, <<"share", "c">>, <<"part", "c", "c.next">>, <<"share", "d">>, <<"part", "d", "d.prev">>, <<"copy", "d", "c.next">>, <<"watch", "c", "d.prev">>>>
coupleDemo == <<<<"share", "alice">>, <<"share", "bob">>, <<"own", "couple">>, <<"part", "couple", "a_">>, <<"copy", "alice", "a_">>, <<"part", "couple", "b_">>, <<"copy", "bob", "b_">>,
  <<"use", "a_">>, <<"leave", "couple">>, <<"watch", "alice", "weakAlice">>, <<"lock", "weakAlice", "locked">>, <<"use", "locked">>, <<"leave", "locked">>,
  <<"reset", "alice">>, <<"reset", "bob">>, <<"lock", "weakAlice", "locked">>>>
uniqueMain == <<<<"own", "ptr1">>, <<"move", "ptr1", "ptr2">>, <<"use", "ptr2">>, <<"own", "ptr3">>, <<"own", "arr">>, <<"use", "arr">>,
  <<"own", "ptr">>, <<"leave", "ptr">>, <<"release", "ptr2", "raw">>, <<"delete", "raw">>, <<"reset", "ptr3">>>>
staticStorageDuration == <<<<"own", "value">>, <<"view", "value", "config">>, <<"use", "config">>>>
exceptionSafeOperation == <<<<"own", "vec">>, <<"try">>, <<"use", "vec">>, <<"throw">>, <<"catch">>, <<"use", "vec">>>>
fileOperationDemo == <<<<"try">>, <<"own", "writer">>, <<"use", "writer">>, <<"catch">>>>
scopedPtrDemo == <<<<"own", "ptr">>, <<"use", "ptr">>, <<"own", "strPtr">>, <<"use", "strPtr">>, <<"release", "ptr", "rawPtr">>, <<"use", "rawPtr">>, <<"delete", "rawPtr">>>>
\* RawBuffer::operator= deletes what it holds before it allocates: when that throws, the
\* buffer keeps the address and its destructor deletes it once more.
ruleOfFive == <<<<"own", "buf1">>, <<"use", "buf1">>, <<"copy", "buf1", "buf2">>, <<"own", "buf3">>, <<"delete", "buf3">>, <<"renew", "buf3">>, <<"move", "buf1", "buf4">>, <<"use", "buf4">>>>
ruleOfZero == <<<<"own", "buf1">>, <<"use", "buf1">>, <<"copy", "buf1", "buf2">>, <<"move", "buf1", "buf3">>, <<"use", "buf2">>, <<"use", "buf3">>>>
composedOwner == <<<<"own", "app">>, <<"part", "app", "logger_">>, <<"own", "logger_">>, <<"use", "logger_">>>>
demonstratePImpl == <<<<"own", "w1">>, <<"use", "w1">>, <<"copy", "w1", "w2">>, <<"use", "w2">>, <<"move", "w2", "w3">>, <<"use", "w1">>, <<"use", "w3">>>>
uniqueOwnershipScenario == <<<<"own", "res">>, <<"move", "res", "consumed">>, <<"use", "consumed">>, <<"leave", "consumed">>>>
sharedOwnershipScenario == <<<<"share", "res">>, <<"copy", "res", "another">>, <<"use", "another">>, <<"leave", "another">>, <<"use", "res">>>>
observerScenario == <<<<"own", "owner">>, <<"view", "owner", "res">>, <<"use", "res">>, <<"leave", "res">>>>
fixedDeletion == <<<<"new", "p">>, <<"use", "p">>, <<"delete", "p">>, <<"own", "owner">>>>
interfaceOnlyBase == <<<<"new", "task">>, <<"use", "task">>, <<"delete", "task">>>>
sealedHierarchies == <<<<"own", "sealed">>, <<"new", "guarded">>, <<"use", "guarded">>, <<"delete", "guarded">>>>
throwOutsideUnwinding == <<<<"try">>, <<"own", "guard">>, <<"leave", "guard">>, <<"throw">>, <<"catch">>>>
safePattern == <<<<"own", "resource">>, <<"try">>, <<"throw">>, <<"catch">>, <<"leave", "resource">>>>
-----------------------------------------------------------------------------
(* References, views and closures.                                         *)
badGetGreeting == <<<<"slot", "r">>, <<"own", "greeting">>, <<"view", "greeting", "r">>, <<"leave", "greeting">>, <<"use", "r">>>>
danglingReferenceToLocal == <<<<"slot", "str">>, <<"own", "greeting">>, <<"move", "greeting", "str">>, <<"leave", "greeting">>, <<"use", "str">>>>
danglingReferenceInLoop == <<<<"own", "words">>, <<"part", "words", "hello">>, <<"own", "hello">>, <<"view", "hello", "word">>, <<"use", "word">>, <<"leave", "word">>>>
getItem == <<<<"slot", "item">>, <<"own", "temp">>, <<"view", "temp", "item">>, <<"leave", "temp">>, <<"use", "item">>>>
danglingReferenceFromMethod == <<<<"own", "good">>, <<"own", "item">>, <<"use", "item">>>>
danglingStringView == <<<<"slot", "sv">>, <<"own", "s">>, <<"view", "s", "sv">>, <<"leave", "s">>, <<"own", "safe">>, <<"view", "safe", "safeSv">>, <<"use", "safeSv">>>>
danglingReferenceWithLambda == <<<<"slot", "safeFunc">>, <<"share", "ptr">>, <<"copy", "ptr", "safeFunc">>, <<"leave", "ptr">>, <<"use", "safeFunc">>>>
fixWithSmartPointers == <<<<"slot", "obj">>, <<"share", "made">>, <<"move", "made", "obj">>, <<"leave", "made">>, <<"use", "obj">>>>
fixWithOptional == <<<<"own", "items">>, <<"slot", "value">>, <<"copy", "items", "value">>, <<"use", "value">>, <<"leave", "value">>>>
reallocationInvalidatesHandles == <<<<"own", "vec">>, <<"view", "vec", "it">>, <<"grow", "vec">>, <<"view", "vec", "it">>, <<"use", "it">>>>
cachedEndIterator == <<<<"own", "vec">>, <<"slot", "doubled">>, <<"copy", "vec", "doubled">>, <<"copy", "doubled", "vec">>, <<"use", "vec">>>>
eraseInsideLoop == <<<<"own", "vec">>, <<"part", "vec", "last">>, <<"own", "last">>, <<"view", "last", "it">>, <<"use", "it">>, <<"reset", "last">>, <<"view", "vec", "it">>, <<"use", "it">>>>
pointerAcrossGrowth == <<<<"own", "vec">>, <<"view", "vec", "p">>, <<"grow", "vec">>, <<"view", "vec", "p">>, <<"use", "p">>>>
stableIterators == <<<<"own", "lst">>, <<"part", "lst", "one">>, <<"own", "one">>, <<"view", "one", "it">>, <<"part", "lst", "zero">>, <<"own", "zero">>, <<"use", "it">>>>
rehashInvalidatesIterators == <<<<"own", "mp">>, <<"part", "mp", "one">>, <<"own", "one">>, <<"grow", "mp">>, <<"view", "mp", "it">>, <<"use", "it">>>>
mutateDuringRangeFor == <<<<"own", "vec">>, <<"slot", "to_add">>, <<"view", "vec", "n">>, <<"use", "n">>, <<"own", "to_add">>, <<"use", "n">>, <<"leave", "n">>, <<"grow", "vec">>, <<"use", "vec">>>>
vector_insert_invalidation == <<<<"own", "values">>, <<"view", "values", "it">>, <<"grow", "values">>, <<"use", "values">>>>
map_erase_invalidation == <<<<"own", "table">>, <<"part", "table", "one">>, <<"own", "one">>, <<"part", "table", "two">>, <<"own", "two">>, <<"view", "one", "it">>, <<"use", "it">>, <<"reset", "one">>, <<"view", "two", "it">>, <<"use", "it">>>>
returningView == <<<<"slot", "name">>, <<"own", "made">>, <<"move", "made", "name">>, <<"leave", "made">>, <<"use", "name">>>>
returningTemporaryView == <<<<"own", "joined">>, <<"use", "joined">>>>
bad_view_to_local == <<<<"slot", "view">>, <<"own", "s">>, <<"view", "s", "view">>, <<"leave", "s">>, <<"use", "view">>>>
storingView == <<<<"own", "payload">>, <<"move", "payload", "holder">>, <<"use", "holder">>>>
mutatingOwner == <<<<"own", "owner">>, <<"view", "owner", "view">>, <<"size", "view">>, <<"grow", "owner">>, <<"size", "view">>, <<"view", "owner", "fresh">>, <<"use", "fresh">>>>
substrChaining == <<<<"own", "owner">>, <<"view", "owner", "whole">>, <<"view", "whole", "part">>, <<"use", "part">>>>
ownershipBoundary == <<<<"slot", "g_queue">>, <<"own", "local">>, <<"view", "local", "sv">>, <<"use", "sv">>, <<"own", "message">>, <<"move", "message", "g_queue">>, <<"leave", "local">>, <<"use", "g_queue">>>>
goodParameterUse == <<<<"own", "owned">>, <<"view", "owned", "msg">>, <<"use", "msg">>, <<"leave", "msg">>>>
returningLambda == <<<<"slot", "bad">>, <<"own", "x">>, <<"view", "x", "bad">>, <<"leave", "x">>, <<"slot", "good">>, <<"own", "x">>, <<"copy", "x", "good">>, <<"leave", "x">>, <<"use", "good">>>>
makeBadWithRef == <<<<"slot", "r">>, <<"own", "x">>, <<"view", "x", "r">>, <<"leave", "x">>, <<"use", "r">>>>
moveCapture == <<<<"slot", "good">>, <<"own", "owned">>, <<"move", "owned", "good">>, <<"leave", "owned">>, <<"use", "good">>>>
capturingThis == <<<<"slot", "slot">>, <<"own", "worker">>, <<"view", "worker", "slot">>, <<"leave", "worker">>,
  <<"slot", "safeSlot">>, <<"own", "worker">>, <<"copy", "worker", "safeSlot">>, <<"leave", "worker">>, <<"use", "safeSlot">>>>
sharedOwnership == <<<<"slot", "slot">>, <<"share", "worker">>, <<"copy", "worker", "self">>, <<"move", "self", "slot">>, <<"leave", "self">>, <<"reset", "worker">>, <<"use", "slot">>>>
-----------------------------------------------------------------------------
(* What main() of the examples calls, and what is there to be avoided: its *)
(* caller would use what it returns.                                       *)
DoubleFree == [aliasingDoubleFree |-> aliasingDoubleFree, consumeAndDelete |-> consumeAndDelete, sharedPointerCaveat |-> sharedPointerCaveat,
  owningClass |-> owningClass]
MemoryLeak == [leakyProcess |-> leakyProcess, throwingProcess |-> throwingProcess, containersOwnTheirElements |-> containersOwnTheirElements,
  raiiForFileHandles |-> raiiForFileHandles]
UseAfterMove == [movedFromString |-> movedFromString, movedFromVector |-> movedFromVector, movedFromBuffer |-> movedFromBuffer,
  exchangeIdiom |-> exchangeIdiom, reinitialiseAfterMove |-> reinitialiseAfterMove, selfMove |-> selfMove]
DanglingPointer == [danglingAfterDelete |-> danglingAfterDelete, danglingIntoFreedArray |-> danglingIntoFreedArray,
  invalidatedByContainerGrowth |-> invalidatedByContainerGrowth, danglingLambdaCapture |-> danglingLambdaCapture,
  ownershipInsteadOfAddresses |-> ownershipInsteadOfAddresses]
SmartPointersOwnership == [uniquePtrDemo |-> uniquePtrDemo, sharedPtrDemo |-> sharedPtrDemo, controlBlockDemo |-> controlBlockDemo,
  weakPtrDemo |-> weakPtrDemo, breakCycleWithWeakPtr |-> breakCycleWithWeakPtr, customDeleterDemo |-> customDeleterDemo,
  makeSharedVsNew |-> makeSharedVsNew]
RaiiAndExceptionSafety == [exceptionSafeOperation |-> exceptionSafeOperation, fileOperationDemo |-> fileOperationDemo,
  scopedPtrDemo |-> scopedPtrDemo]
DanglingReference == [danglingReferenceToLocal |-> danglingReferenceToLocal, danglingReferenceInLoop |-> danglingReferenceInLoop,
  danglingReferenceFromMethod |-> danglingReferenceFromMethod, danglingStringView |-> danglingStringView,
  danglingReferenceWithLambda |-> danglingReferenceWithLambda, fixWithSmartPointers |-> fixWithSmartPointers, fixWithOptional |-> fixWithOptional]
IteratorInvalidation == [reallocationInvalidatesHandles |-> reallocationInvalidatesHandles, cachedEndIterator |-> cachedEndIterator,
  eraseInsideLoop |-> eraseInsideLoop, pointerAcrossGrowth |-> pointerAcrossGrowth, stableIterators |-> stableIterators,
  rehashInvalidatesIterators |-> rehashInvalidatesIterators, mutateDuringRangeFor |-> mutateDuringRangeFor]
RuleOfZeroThreeFive == [ruleOfFive |-> ruleOfFive, ruleOfZero |-> ruleOfZero, composedOwner |-> composedOwner]
ThrowingFromDestructor == [throwOutsideUnwinding |-> throwOutsideUnwinding, safePattern |-> safePattern]
DeletingThroughBase == [fixedDeletion |-> fixedDeletion, interfaceOnlyBase |-> interfaceOnlyBase, sealedHierarchies |-> sealedHierarchies]
DanglingStringView == [returningView |-> returningView, storingView |-> storingView, returningTemporaryView |-> returningTemporaryView, mutatingOwner |-> mutatingOwner,
  substrChaining |-> substrChaining, ownershipBoundary |-> ownershipBoundary, goodParameterUse |-> goodParameterUse]
DanglingLambdaCaptures == [returningLambda |-> returningLambda, moveCapture |-> moveCapture, capturingThis |-> capturingThis,
  sharedOwnership |-> sharedOwnership]
ObjectLifetime == [sharedPointerCycle |-> sharedPointerCycle, staticStorageDuration |-> staticStorageDuration]
OwnershipAndLifetime == [uniqueOwnershipScenario |-> uniqueOwnershipScenario, sharedOwnershipScenario |-> sharedOwnershipScenario,
  observerScenario |-> observerScenario]
MovingFromConst == [moving_from_const_copies |-> moving_from_const_copies, sink_api_patterns |-> sink_api_patterns,
  forwarding_keeps_constness |-> forwarding_keeps_constness]
NoexceptMove == [demonstrateSwapOptimization |-> demonstrateSwapOptimization, demonstrateVectorReallocation |-> demonstrateVectorReallocation,
  demonstrateExceptionSafety |-> demonstrateExceptionSafety]
IteratorPitfalls == [vector_insert_invalidation |-> vector_insert_invalidation, map_erase_invalidation |-> map_erase_invalidation]
MoveSemantics == [createNrvObjectConditional |-> createNrvObjectConditional, moveVsCopyDemo |-> moveVsCopyDemo,
  moveContainersDemo |-> moveContainersDemo, moveOnlyDemo |-> moveOnlyDemo, commonPitfalls |-> commonPitfalls]
SmartPointerUnique == [uniqueMain |-> uniqueMain]
SmartPointerShared == [coupleDemo |-> coupleDemo]
PimplIdiom == [demonstratePImpl |-> demonstratePImpl]
Demos ==
  DoubleFree @@ MemoryLeak @@ UseAfterMove @@ DanglingPointer @@ SmartPointersOwnership @@ RaiiAndExceptionSafety @@ DanglingReference @@ IteratorInvalidation
  @@ RuleOfZeroThreeFive @@ ThrowingFromDestructor @@ DeletingThroughBase @@ DanglingStringView @@ DanglingLambdaCaptures @@ ObjectLifetime @@ OwnershipAndLifetime @@ MovingFromConst
  @@ NoexceptMove @@ IteratorPitfalls @@ MoveSemantics @@ SmartPointerUnique @@ SmartPointerShared @@ PimplIdiom
Pitfalls ==
  [elementOfFreedArray |-> elementOfFreedArray, makeBadCallback |-> makeBadCallback, BadBuffer |-> BadBuffer, circularReferenceProblem |-> circularReferenceProblem,
   badGetGreeting |-> badGetGreeting, getItem |-> getItem, bad_view_to_local |-> bad_view_to_local, makeBadWithRef |-> makeBadWithRef]
Bodies == Pitfalls @@ Demos

OwnerInit ==
  /\ abs \in DOMAIN Bodies
  /\ obj = [pc |-> 1, place |-> <<>>, order |-> <<>>, live |-> {}, made |-> 0, base |-> 0, catches |-> FALSE, threw |-> "nowhere", faults |-> {}]

Steps == Bodies[abs]
Step == Steps[obj.pc]
Running == obj.pc \in DOMAIN Steps
Advance(m, pc) == obj' = [m EXCEPT !.pc = pc] /\ UNCHANGED abs
step == Running /\ Step[1] # "throw" /\ Advance(Do(obj, Step), obj.pc + 1)
\* An exception leaves the try block for what follows its handler, or the function.
Handler == IF obj.catches THEN 1 + CHOOSE i \in DOMAIN Steps : Steps[i] = <<"catch">> ELSE Len(Steps) + 1
throw ==
  /\ Running /\ Step[1] \in Allocates \union {"work", "throw"} /\ (Step[1] = "copy" => obj.place[Step[2]].kind = "own")
  /\ Advance([Unwind(obj, obj.base) EXCEPT !.base = 0, !.catches = FALSE, !.threw = Step[1]], Handler)
return == Running /\ Step[1] = "return?" /\ Advance(obj, Len(Steps) + 1)
leaveFunction ==
  /\ obj.pc = Len(Steps) + 1
  /\ LET m == Unwind(obj, 0) IN Advance(IF m.live = {} THEN m ELSE Fault(m, "leak"), obj.pc + 1)
OwnerNext == step \/ throw \/ return \/ leaveFunction

\* No function that the examples call reaches a dead object, frees one twice or leaks one,
\* whatever throws on the way, with one exception: a buffer is freed twice exactly if the
\* allocation in its copy assignment throws, which comes after the delete of what it held;
\* a throw anywhere else in that function does no harm.  Those that are there to be avoided
\* fail as they are said to.
AliveWhileUsed ==
  /\ abs \in DOMAIN Demos =>
       LET twice == abs = "ruleOfFive" /\ obj.threw = "renew" IN
       /\ obj.faults \subseteq (IF twice THEN {"double free"} ELSE {})
       /\ twice => obj.faults # {}
  /\ obj.pc = Len(Steps) + 2 /\ obj.threw = "nowhere" =>
       obj.faults = CASE abs \in DOMAIN Demos -> {} [] abs = "BadBuffer" -> {"stale"}
                      [] abs = "circularReferenceProblem" -> {"leak"} [] OTHER -> {"dangling"}
=============================================================================
