------------------------------- MODULE Library -------------------------------
(***************************************************************************)
(* The components that are objects in the hands of a caller: part names    *)
(* one of them, chosen at the start, obj is its state and abs a history or *)
(* an abstract value that its property compares it with.  The modules that *)
(* are instantiated here share the two variables, so that one run checks   *)
(* every part from its own initial states; no step leads from one part to  *)
(* another.                                                                *)
(***************************************************************************)
EXTENDS Naturals, Sequences

VARIABLES
  part,  \* the component that is looked at
  obj, abs

vars == <<part, obj, abs>>

Http == INSTANCE Http WITH Methods <- {"GET", "POST"}, Paths <- {"/"}, Values <- {"v"}, MaxLines <- 4,
                        MaxRoutes <- 3, MaxUses <- 3
St == INSTANCE Stores WITH MaxStudents <- 2, MaxRows <- 2, MaxTime <- 5, Ttls <- {1, 2}
Rec == INSTANCE Records WITH Contents <- {"c", "d"}, MaxIds <- 3, MaxEvents <- 3
Mem == INSTANCE Memory WITH Objects <- {"o", "p"}, Strong <- {"s", "t", "r"}, Weak <- {"w", "x"}, Raw <- {"u", "v"}, Blocks <- 4,
         Size <- 6, MaxSlabs <- 2, MaxSize <- 2, Threads <- {"a", "b", "c"}, MaxAlloc <- 3
Li == INSTANCE Limits WITH capacity_ <- 2, refillPerSec_ <- 1, limit_ <- 2, window_ <- 3, failureThreshold_ <- 2, resetTimeout_ <- 2, Threads <- {"a", "b"}, MaxTime <- 8,
                          Keys <- {"i", "j", "k"}, Capacity <- 2, MaxUses <- 5, Bits <- 4, Items <- {"x", "y", "z"}, Hashes <- 2
Con == INSTANCE Containers WITH MaxValue <- 4, MaxSize <- 5, Elements <- 5, maxHeight_ <- 3,
                           Texts <- {<<"a">>, <<"b", "c">>}, MaxCommands <- 4, maxSize_ <- 2
Obs == INSTANCE Observers WITH Threads <- {"a", "b"}, Topics <- {"p", "q"}, MaxIds <- 3, MaxEvents <- 3, Watchers <- {1, 2}, MaxSets <- 2
For == INSTANCE Formats WITH MaxText <- 6
Doc == INSTANCE Documents WITH MaxSymbols <- 5, MaxLines <- 5
Tool == INSTANCE Tools WITH MaxSymbols <- 5, MaxLines <- 5, Projects <- {"m", "n"}, shards <- 3
Str == INSTANCE Strategies WITH Names <- {"m", "n"}, MaxValue <- 3, MaxSize <- 4, MaxUses <- 3
Stru == INSTANCE Structures WITH Packages <- {"m", "n", "o"}, MaxUses <- 3
Res == INSTANCE Results WITH MaxSize <- 5, MaxUses <- 3
Kvc == INSTANCE KvClient WITH MaxRequests <- 3
Own == INSTANCE Ownership
Pit == INSTANCE Pitfalls WITH Threads <- {"a", "b"}, First <- "a", Rounds <- 3

Init ==
  \/ part = "HttpParsers" /\ Http!ParserInit
  \/ part = "HttpResponses" /\ Http!ResponseInit
  \/ part = "Routers" /\ Http!RouterInit
  \/ part = "Middleware" /\ Http!ChainInit
  \/ part = "Students" /\ St!StudentsInit
  \/ part = "SimpleDb" /\ St!DbInit
  \/ part = "MiniRedis" /\ St!RedisInit
  \/ part = "ActiveRecord" /\ Rec!RecordInit
  \/ part = "Repository" /\ Rec!RepositoryInit
  \/ part = "UnitOfWork" /\ Rec!UnitInit
  \/ part = "EventSourcing" /\ Rec!SourceInit
  \/ part = "Counters" /\ Rec!CountersInit
  \/ part = "SmartPointers" /\ Mem!PtrInit
  \/ part = "Allocators" /\ Mem!AllocatorInit
  \/ part = "Arenas" /\ Mem!BumpInit
  \/ part = "ObjectPools" /\ Mem!PoolInit
  \/ part = "AllocationTracker" /\ Mem!TrackerInit
  \/ part = "LruCache" /\ Li!LruInit
  \/ part = "LfuCache" /\ Li!LfuInit
  \/ part = "SafeCache" /\ Li!SafeInit
  \/ part = "BloomFilter" /\ Li!BloomInit
  \/ part = "SharedInstances" /\ Li!SharedInit
  \/ part = "Limiters" /\ Li!LimiterInit
  \/ part = "CircuitBreaker" /\ Li!BreakerInit
  \/ part = "Guards" /\ Li!GuardInit
  \/ part = "BinaryHeap" /\ Con!HeapInit
  \/ part = "UnionFind" /\ Con!DsuInit
  \/ part = "SkipList" /\ Con!SkipInit
  \/ part = "Trie" /\ Con!TrieInit
  \/ part = "Undo" /\ Con!UndoInit
  \/ part = "Snapshots" /\ Con!SnapshotInit
  \/ part = "PubSub" /\ Obs!PubSubInit
  \/ part = "LiveBuses" /\ Obs!BusInit
  \/ part = "Subject" /\ Obs!SubjectInit
  \/ part = "StateMachine" /\ Obs!MachineInit
  \/ part = "Json" /\ For!JsonInit
  \/ part = "Csv" /\ For!CsvInit
  \/ part = "Base64" /\ For!Base64Init
  \/ part = "Templates" /\ For!TemplateInit
  \/ part = "Code" /\ Doc!CodeInit
  \/ part = "Pairs" /\ Doc!PairInit
  \/ part = "Markdown" /\ Doc!MarkdownInit
  \/ part = "Links" /\ Doc!LinksInit
  \/ part = "Paths" /\ Doc!PathInit
  \/ part = "TextDiff" /\ Doc!DiffInit
  \/ part = "Locks" /\ Pit!LockInit
  \/ part = "Races" /\ Pit!RaceInit
  \/ part = "Once" /\ Pit!OnceInit
  \/ part = "Handshakes" /\ Pit!HandshakeInit
  \/ part = "Inversion" /\ Pit!InversionInit
  \/ part = "Phases" /\ Pit!PhaseInit
  \/ part = "CopyOnWrite" /\ Pit!CowInit
  \/ part = "PyCode" /\ Tool!PyCodeInit
  \/ part = "PyDocs" /\ Tool!PyDocsInit
  \/ part = "PyPairs" /\ Tool!PyPairsInit
  \/ part = "PyMap" /\ Tool!PyMapInit
  \/ part = "PyLinks" /\ Tool!PyLinksInit
  \/ part = "PyExamples" /\ Tool!PyExamplesInit
  \/ part = "PyWriters" /\ Tool!PyWritersInit
  \/ part = "PyParity" /\ Tool!PyParityInit
  \/ part = "Shards" /\ Tool!ShardInit
  \/ part = "LockText" /\ Tool!LockTextInit
  \/ part = "Ledger" /\ Tool!LedgerInit
  \/ part = "Examples" /\ Tool!ExamplesInit
  \/ part = "Bodies" /\ Tool!BodyInit
  \/ part = "Tests" /\ Tool!TestsInit
  \/ part = "Ports" /\ Tool!PortsInit
  \/ part = "Demos" /\ Tool!DemosInit
  \/ part = "Builds" /\ Tool!BuildInit
  \/ part = "AllChecks" /\ Tool!ChecksInit
  \/ part = "Sorters" /\ Str!SorterInit
  \/ part = "Registries" /\ Str!RegistryInit
  \/ part = "Characters" /\ Str!CharacterInit
  \/ part = "HandlerLinks" /\ Str!ChainInit
  \/ part = "Predicates" /\ Str!ListInit
  \/ part = "Specifications" /\ Str!SpecInit
  \/ part = "TextStages" /\ Str!TextInit
  \/ part = "ChatRooms" /\ Str!RoomInit
  \/ part = "Iterators" /\ Str!IteratorInit
  \/ part = "Trees" /\ Str!TreeInit
  \/ part = "ShapeClones" /\ Str!ShapeInit
  \/ part = "Packages" /\ Stru!PackageInit
  \/ part = "CiPipelines" /\ Stru!PipelineInit
  \/ part = "CMakeFiles" /\ Stru!ProjectInit
  \/ part = "Builders" /\ Stru!BuilderInit
  \/ part = "Expressions" /\ Stru!ExpressionInit
  \/ part = "Decorators" /\ Stru!LayerInit
  \/ part = "CallTemplates" /\ Stru!TemplateInit
  \/ part = "ErasedActions" /\ Stru!ErasedInit
  \/ part = "CountedObjects" /\ Stru!CountInit
  \/ part = "Widgets" /\ Stru!WidgetInit
  \/ part = "Expected" /\ Res!ExpectedInit
  \/ part = "ParsedIntegers" /\ Res!NumberInit
  \/ part = "ErrorConditions" /\ Res!ErrorInit
  \/ part = "UserServices" /\ Res!ServiceInit
  \/ part = "GoldenFiles" /\ Res!GoldenInit
  \/ part = "MockDatabases" /\ Res!MockInit
  \/ part = "TestRuns" /\ Res!RunInit
  \/ part = "TestedFunctions" /\ Res!FunctionsInit
  \/ part = "Generators" /\ Res!GeneratorInit
  \/ part = "LazyPipelines" /\ Res!PullInit
  \/ part = "ZippedLists" /\ Res!ZipInit
  \/ part = "VectorMath" /\ Res!VectorInit
  \/ part = "Particles" /\ Res!ParticleInit
  \/ part = "Ranges" /\ Res!RangeInit
  \/ part = "FormattedTexts" /\ Res!FormatInit
  \/ part = "Exchanges" /\ Kvc!ClientInit
  \/ part = "Replies" /\ Kvc!ReplyInit
  \/ part = "Dialogues" /\ St!DialogueInit
  \/ part = "Lifetimes" /\ Own!OwnerInit

Next ==
  /\ \/ part = "HttpParsers" /\ Http!ParserNext
     \/ part = "HttpResponses" /\ Http!ResponseNext
     \/ part = "Routers" /\ Http!RouterNext
     \/ part = "Middleware" /\ Http!ChainNext
     \/ part = "Students" /\ St!StudentsNext
     \/ part = "SimpleDb" /\ St!DbNext
     \/ part = "MiniRedis" /\ St!RedisNext
     \/ part = "ActiveRecord" /\ Rec!RecordNext
     \/ part = "Repository" /\ Rec!RepositoryNext
     \/ part = "UnitOfWork" /\ Rec!UnitNext
     \/ part = "EventSourcing" /\ Rec!SourceNext
     \/ part = "Counters" /\ Rec!CountersNext
     \/ part = "SmartPointers" /\ Mem!PtrNext
     \/ part = "Allocators" /\ Mem!AllocatorNext
     \/ part = "Arenas" /\ Mem!BumpNext
     \/ part = "ObjectPools" /\ Mem!PoolNext
     \/ part = "AllocationTracker" /\ Mem!TrackerNext
     \/ part = "LruCache" /\ Li!LruNext
     \/ part = "LfuCache" /\ Li!LfuNext
     \/ part = "SafeCache" /\ Li!SafeNext
     \/ part = "BloomFilter" /\ Li!BloomNext
     \/ part = "SharedInstances" /\ Li!SharedNext
     \/ part = "Limiters" /\ Li!LimiterNext
     \/ part = "CircuitBreaker" /\ Li!BreakerNext
     \/ part = "Guards" /\ Li!GuardNext
     \/ part = "BinaryHeap" /\ Con!HeapNext
     \/ part = "UnionFind" /\ Con!DsuNext
     \/ part = "SkipList" /\ Con!SkipNext
     \/ part = "Trie" /\ Con!TrieNext
     \/ part = "Undo" /\ Con!UndoNext
     \/ part = "Snapshots" /\ Con!SnapshotNext
     \/ part = "PubSub" /\ Obs!PubSubNext
     \/ part = "LiveBuses" /\ Obs!BusNext
     \/ part = "Subject" /\ Obs!SubjectNext
     \/ part = "StateMachine" /\ Obs!MachineNext
     \/ part = "Json" /\ For!JsonNext
     \/ part = "Csv" /\ For!CsvNext
     \/ part = "Base64" /\ For!Base64Next
     \/ part = "Templates" /\ For!TemplateNext
     \/ part = "Code" /\ Doc!CodeNext
     \/ part = "Pairs" /\ Doc!PairNext
     \/ part = "Markdown" /\ Doc!MarkdownNext
     \/ part = "Links" /\ Doc!LinksNext
     \/ part = "Paths" /\ Doc!PathNext
     \/ part = "TextDiff" /\ Doc!DiffNext
     \/ part = "Locks" /\ Pit!LockNext
     \/ part = "Races" /\ Pit!RaceNext
     \/ part = "Once" /\ Pit!OnceNext
     \/ part = "Handshakes" /\ Pit!HandshakeNext
     \/ part = "Inversion" /\ Pit!InversionNext
     \/ part = "Phases" /\ Pit!PhaseNext
     \/ part = "CopyOnWrite" /\ Pit!CowNext
     \/ part = "PyCode" /\ Tool!PyCodeNext
     \/ part = "PyDocs" /\ Tool!PyDocsNext
     \/ part = "PyPairs" /\ Tool!PyPairsNext
     \/ part = "PyMap" /\ Tool!PyMapNext
     \/ part = "PyLinks" /\ Tool!PyLinksNext
     \/ part = "PyExamples" /\ Tool!PyExamplesNext
     \/ part = "PyWriters" /\ Tool!PyWritersNext
     \/ part = "PyParity" /\ Tool!PyParityNext
     \/ part = "Shards" /\ Tool!ShardNext
     \/ part = "LockText" /\ Tool!LockTextNext
     \/ part = "Ledger" /\ Tool!LedgerNext
     \/ part = "Examples" /\ Tool!ExamplesNext
     \/ part = "Bodies" /\ Tool!BodyNext
     \/ part = "Tests" /\ Tool!TestsNext
     \/ part = "Ports" /\ Tool!PortsNext
     \/ part = "Demos" /\ Tool!DemosNext
     \/ part = "Builds" /\ Tool!BuildNext
     \/ part = "AllChecks" /\ Tool!ChecksNext
     \/ part = "Sorters" /\ Str!SorterNext
     \/ part = "Registries" /\ Str!RegistryNext
     \/ part = "Characters" /\ Str!CharacterNext
     \/ part = "HandlerLinks" /\ Str!LinksNext
     \/ part = "Predicates" /\ Str!ListNext
     \/ part = "Specifications" /\ Str!SpecNext
     \/ part = "TextStages" /\ Str!TextNext
     \/ part = "ChatRooms" /\ Str!RoomNext
     \/ part = "Iterators" /\ Str!IteratorNext
     \/ part = "Trees" /\ Str!TreeNext
     \/ part = "ShapeClones" /\ Str!ShapeNext
     \/ part = "Packages" /\ Stru!PackageNext
     \/ part = "CiPipelines" /\ Stru!PipelineNext
     \/ part = "CMakeFiles" /\ Stru!ProjectNext
     \/ part = "Builders" /\ Stru!BuilderNext
     \/ part = "Expressions" /\ Stru!ExpressionNext
     \/ part = "Decorators" /\ Stru!LayerNext
     \/ part = "CallTemplates" /\ Stru!TemplateNext
     \/ part = "ErasedActions" /\ Stru!ErasedNext
     \/ part = "CountedObjects" /\ Stru!CountNext
     \/ part = "Widgets" /\ Stru!WidgetNext
     \/ part = "Expected" /\ Res!ExpectedNext
     \/ part = "ParsedIntegers" /\ Res!NumberNext
     \/ part = "ErrorConditions" /\ Res!ErrorNext
     \/ part = "UserServices" /\ Res!ServiceNext
     \/ part = "GoldenFiles" /\ Res!GoldenNext
     \/ part = "MockDatabases" /\ Res!MockNext
     \/ part = "TestRuns" /\ Res!RunNext
     \/ part = "TestedFunctions" /\ Res!FunctionsNext
     \/ part = "Generators" /\ Res!GeneratorNext
     \/ part = "LazyPipelines" /\ Res!PullNext
     \/ part = "ZippedLists" /\ Res!ZipNext
     \/ part = "VectorMath" /\ Res!VectorNext
     \/ part = "Particles" /\ Res!ParticleNext
     \/ part = "Ranges" /\ Res!RangeNext
     \/ part = "FormattedTexts" /\ Res!FormatNext
     \/ part = "Exchanges" /\ Kvc!ClientNext
     \/ part = "Replies" /\ Kvc!ReplyNext
     \/ part = "Dialogues" /\ St!DialogueNext
     \/ part = "Lifetimes" /\ Own!OwnerNext
  /\ UNCHANGED part

Spec == Init /\ [][Next]_vars

\* A message, a request or an event reaches those it is due to, once and in
\* order: the five HTTP parsers agree, a response tells its length, routers find
\* the route that matches, chains run, subscribers are told (stages 4, 5, 8, 41).
Delivered ==
  CASE part = "HttpParsers" -> Http!ParsersAgree
    [] part = "HttpResponses" -> Http!LengthTold
    [] part = "Routers" -> Http!RoutersAgree
    [] part = "Middleware" -> Http!ChainRuns
    [] part = "PubSub" -> Obs!ToldAsDue
    [] part = "LiveBuses" -> Obs!HandlersInOrder
    [] part = "Subject" -> Obs!AttachedAreTold
    [] part = "StateMachine" -> Obs!TableIsFollowed
    [] part = "Registries" -> Str!FoundIsLast
    [] part = "HandlerLinks" -> Str!PassedOnce
    [] part = "Predicates" -> Str!VerdictIsTrue
    [] part = "ChatRooms" -> Str!RoomTold
    [] part = "Expected" -> Res!FirstErrorLeft
    [] part = "MockDatabases" -> Res!MockRemembers
    [] part = "Exchanges" -> Kvc!RepliesAreTheirs
    [] part = "Replies" -> Kvc!StatusSurvives
    [] OTHER -> TRUE

\* A store has what was put into it, after it was saved and loaded, expired,
\* committed, rolled back or replayed as well (student management, simple-db,
\* mini-redis, and the record and event stores of stages 28 to 30).
StoresAgree ==
  CASE part = "Students" -> St!StudentsKept
    [] part = "SimpleDb" -> St!SavedComesBack
    [] part = "MiniRedis" -> St!ExpiresInTime
    [] part = "ActiveRecord" -> Rec!RecordsApart
    [] part = "Repository" -> Rec!RepositoryHolds
    [] part = "UnitOfWork" -> Rec!CommitsTheNet
    [] part = "EventSourcing" -> Rec!ReplayRebuilds
    [] part = "Counters" -> Rec!CountersKeep
    [] part = "UserServices" -> Res!DeletedOnce
    [] part = "GoldenFiles" -> Res!GoldenHolds
    [] part = "Dialogues" -> St!DialogueKeeps
    [] OTHER -> TRUE

\* What is owned is owned and released once: objects under smart pointers, blocks
\* and regions of allocators, pooled objects, entries of the caches of stage 7.
OwnedOnce ==
  CASE part = "SmartPointers" -> Mem!PtrOwned
    [] part = "Allocators" -> Mem!FreeBlocksLinked
    [] part = "Arenas" -> Mem!RegionsApart
    [] part = "ObjectPools" -> Mem!PooledOnce
    [] part = "AllocationTracker" -> Mem!PeakIsHighest
    [] part = "LruCache" -> Li!LeastRecentlyUsed
    [] part = "LfuCache" -> Li!LeastFrequentlyUsed
    [] part = "SafeCache" -> Li!CacheIsTrue
    [] part = "BloomFilter" -> Li!NoFalseNegative
    [] part = "SharedInstances" -> Li!OneInstance
    [] part = "ShapeClones" -> Str!ClonesMeasure
    [] part = "Builders" -> Stru!ComputersWhole
    [] part = "ErasedActions" -> Stru!CopiesApart
    [] part = "CountedObjects" -> Stru!CountsAlive
    [] part = "Widgets" -> Stru!WidgetsOfFamily
    [] part = "Lifetimes" -> Own!AliveWhileUsed
    [] OTHER -> TRUE

\* Calls are let through when it is their turn: limiters and breakers hold back,
\* guards wait, and the programs on threads lose and duplicate nothing (stages 8,
\* 22, 29, 31, 32 and the pitfalls under examples).
TurnsKept ==
  CASE part = "Limiters" -> Li!WithinLimits
    [] part = "CircuitBreaker" -> Li!OpenHoldsBack
    [] part = "Guards" -> Li!GuardsHold
    [] part = "Locks" -> Pit!NoCycle
    [] part = "Races" -> Pit!CountsAreKept
    [] part = "Once" -> Pit!MadeOnce
    [] part = "Handshakes" -> Pit!FlagMeansPayload
    [] part = "Inversion" -> Pit!InheritanceBoundsWait
    [] part = "Phases" -> Pit!NobodyAhead
    [] part = "CopyOnWrite" -> Pit!HandlesApart
    [] part = "Shards" -> Tool!ShardsAreEven
    [] part = "LockText" -> Tool!CallsUnderLock
    [] part = "Ledger" -> Tool!NothingChangesUnseen
    [] part = "Examples" -> Tool!ExamplesVerdict
    [] part = "Tests" -> Tool!TestsAreRun
    [] part = "Ports" -> Tool!PortsApart
    [] part = "Demos" -> Tool!DemosAreSeen
    [] part = "Builds" -> Tool!BuildsAreTrue
    [] part = "AllChecks" -> Tool!AllIsTold
    [] part = "Characters" -> Str!HitsHurt
    [] part = "CiPipelines" -> Stru!PassedMeansRan
    [] part = "CallTemplates" -> Stru!CallsInOrder
    [] part = "TestRuns" -> Res!RunCounts
    [] part = "Generators" -> Res!ItemsInOrder
    [] part = "LazyPipelines" -> Res!PulledAsNeeded
    [] OTHER -> TRUE

=============================================================================
