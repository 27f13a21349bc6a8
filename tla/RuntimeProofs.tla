---------------------------- MODULE RuntimeProofs ----------------------------
(***************************************************************************)
(* Theorems about Runtime: the server process uses the cache of project     *)
(* handles only as ProjectCache allows, so that its theorems hold here, and *)
(* a shutdown leaves nothing open.                                          *)
(***************************************************************************)
EXTENDS Runtime, ProjectCacheProofs

---------------------------------------------------------------------------
(* The process refines the cache.                                          *)

LEMMA HandlersAreCalls == Handlers \subseteq Calls /\ Main \in Calls /\ Main \notin Handlers
  BY MainAssumption DEF Handlers

LEMMA CacheActions ==
  /\ \A c \in Calls : OpenRegistry(c) => CacheNext
  /\ \A c \in Calls : Release(c) => CacheNext
  /\ \A c \in Calls : Reset(c) => CacheNext
  /\ \A c \in Calls, h \in Handles : CloseHandle(c, h) => CacheNext
  /\ \A c \in Calls, k \in Keys : AcquireHit(c, k) => CacheNext
  /\ \A c \in Calls, k \in Keys : AcquireOpen(c, k) => CacheNext
  /\ \A c \in Calls, m \in Modes : Configure(c, m) => CacheNext
  BY DEF CacheNext

\* Where a handler is, and what it was asked for.
CallRow == [pc : {"idle", "begun", "nil", "working", "inside", "finished",
                  "answered", "inserting"},
            key : Keys \cup {NoKey}, tele : BOOLEAN, row : BOOLEAN]

CallShape == call \in [Handlers -> CallRow]

LEMMA HandlerCacheStep ==
  ASSUME CallShape, NEW c \in Handlers, HandlerStep(c)
  PROVE  [CacheNext]_cacheVars
  <1>0. c \in Calls /\ (call[c].key # NoKey => call[c].key \in Keys)
    BY HandlersAreCalls DEF CallShape, CallRow
  <1>1. CASE ReachRegistry(c)
    BY <1>0, <1>1, CacheActions DEF ReachRegistry
  <1>2. CASE Acquire(c)
    BY <1>0, <1>2, CacheActions DEF Acquire
  <1>3. CASE Finish(c)
    BY <1>0, <1>3, CacheActions DEF Finish
  <1>4. CASE \E h \in Handles : CloseOne(c, h)
    BY <1>0, <1>4, CacheActions DEF CloseOne
  <1>5. CASE \/ Refuse(c) \/ BindDefault(c) \/ Panic(c) \/ TakeConn(c)
             \/ LeaveConn(c, "working") \/ LeaveConn(c, "finished")
             \/ LockClient(c) \/ InsertFails(c) \/ Insert(c) \/ Return(c)
    BY <1>5 DEF Refuse, BindDefault, Panic, TakeConn, LeaveConn, LockClient,
                InsertFails, Insert, Return
  <1>. QED  BY <1>1, <1>2, <1>3, <1>4, <1>5 DEF HandlerStep

LEMMA MainCacheStep ==
  ASSUME MainStep \/ RunReturns
  PROVE  [CacheNext]_cacheVars
  <1>1. CASE \E m \in Modes : Start(m)
    BY <1>1, HandlersAreCalls, CacheActions DEF Start
  <1>2. CASE ResetProjects
    BY <1>2, HandlersAreCalls, CacheActions DEF ResetProjects
  <1>3. CASE \E h \in Handles : CloseOne(Main, h)
    BY <1>3, HandlersAreCalls, CacheActions DEF CloseOne
  <1>4. CASE \/ StartFails \/ RunReturns \/ CloseDefault \/ DropDefault
             \/ SwapTelemetry \/ CloseClient \/ CloseReturns \/ Exit
    BY <1>4 DEF StartFails, RunReturns, CloseDefault, DropDefault, SwapTelemetry,
                CloseClient, CloseReturns, Exit
  <1>. QED  BY <1>1, <1>2, <1>3, <1>4 DEF MainStep

\* Every step of the process is one of the cache or leaves the cache alone.
LEMMA RuntimeCacheStep ==
  CallShape /\ [Next]_vars => [CacheNext]_cacheVars
  <1>1. ASSUME NEW c \in Handlers, NEW k, Begin(c, k) PROVE UNCHANGED cacheVars
    BY <1>1 DEF Begin
  <1>2. UNCHANGED vars => UNCHANGED cacheVars
    BY DEF vars
  <1>. QED  BY <1>1, <1>2, HandlerCacheStep, MainCacheStep DEF Next

---------------------------------------------------------------------------
(* What a handler holds at each point.                                     *)

LEMMA GotoKeepsRow ==
  ASSUME CallShape, NEW c \in Handlers,
         NEW pc \in {"idle", "begun", "nil", "working", "inside", "finished",
                     "answered", "inserting"},
         Goto(c, pc)
  PROVE  /\ CallShape'
         /\ call'[c].pc = pc /\ call'[c].key = call[c].key
         /\ \A b \in Handlers : b # c => call'[b] = call[b]
  BY DEF Goto, CallShape, CallRow

LEMMA NoCallRow == NoCall \in CallRow /\ NoCall.pc = "idle" /\ NoCall.key = NoKey
  BY DEF NoCall, CallRow

LEMMA ReturnKeepsRow ==
  ASSUME CallShape, NEW c \in Handlers, call' = [call EXCEPT ![c] = NoCall]
  PROVE  /\ CallShape'
         /\ call'[c].pc = "idle" /\ call'[c].key = NoKey
         /\ \A b \in Handlers : b # c => call'[b] = call[b]
  BY NoCallRow DEF CallShape

LEMMA InsertKeepsRow ==
  ASSUME CallShape, NEW c \in Handlers, Insert(c)
  PROVE  /\ CallShape'
         /\ call'[c].pc \in {"idle", "answered"}
         /\ call'[c].key = NoKey \/ call'[c].key = call[c].key
         /\ \A b \in Handlers : b # c => call'[b] = call[b]
  <1>1. CASE call' = [call EXCEPT ![c] = NoCall]
    BY <1>1, ReturnKeepsRow
  <1>2. CASE call' = [call EXCEPT ![c].pc = "answered", ![c].row = TRUE]
    BY <1>2 DEF CallShape, CallRow
  <1>. QED  BY <1>1, <1>2 DEF Insert

LEMMA BeginKeepsRow ==
  ASSUME CallShape, tele \in BOOLEAN, NEW c \in Handlers, NEW k \in Asks[c], Begin(c, k)
  PROVE  /\ CallShape'
         /\ call'[c].pc = "begun"
         /\ \A b \in Handlers : b # c => call'[b] = call[b]
  <1>1. k \in Keys \cup {NoKey}
    BY AsksAssumption
  <1>. DEFINE r == [pc |-> "begun", key |-> k, tele |-> tele, row |-> FALSE]
  <1>2. r \in CallRow /\ r.pc = "begun"
    BY <1>1 DEF CallRow
  <1>3. call' = [call EXCEPT ![c] = r]
    BY DEF Begin
  <1>. HIDE DEF r
  <1>. QED  BY <1>2, <1>3 DEF CallShape

\* A handler's step changes the row of no other handler.
LEMMA HandlerKeepsShape ==
  ASSUME CallShape, NEW c \in Handlers, HandlerStep(c)
  PROVE  CallShape' /\ \A b \in Handlers : b # c => call'[b] = call[b]
  <1>1. CASE Refuse(c)
    BY <1>1, GotoKeepsRow DEF Refuse
  <1>2. CASE BindDefault(c)
    BY <1>2, GotoKeepsRow DEF BindDefault
  <1>3. CASE Acquire(c)
    BY <1>3, GotoKeepsRow DEF Acquire
  <1>4. CASE TakeConn(c)
    BY <1>4, GotoKeepsRow DEF TakeConn
  <1>5. CASE LeaveConn(c, "working") \/ LeaveConn(c, "finished")
    BY <1>5, GotoKeepsRow DEF LeaveConn
  <1>6. CASE Finish(c)
    BY <1>6, GotoKeepsRow DEF Finish
  <1>7. CASE LockClient(c)
    BY <1>7, GotoKeepsRow DEF LockClient
  <1>8. CASE InsertFails(c) \/ Return(c)
    BY <1>8, ReturnKeepsRow DEF InsertFails, Return
  <1>9. CASE Insert(c)
    BY <1>9, InsertKeepsRow
  <1>10. CASE Panic(c) \/ ReachRegistry(c) \/ \E h \in Handles : CloseOne(c, h)
    BY <1>10 DEF Panic, ReachRegistry, CloseOne, CallShape
  <1>. QED
    BY <1>1, <1>2, <1>3, <1>4, <1>5, <1>6, <1>7, <1>8, <1>9, <1>10 DEF HandlerStep

LEMMA MainKeepsCalls ==
  MainStep \/ RunReturns => UNCHANGED call
  BY DEF MainStep, RunReturns, Start, StartFails, CloseDefault, DropDefault,
         SwapTelemetry, CloseClient, ResetProjects, CloseReturns, Exit, CloseOne

\* Types that the steps of calls rest on.
ProcessShape == CallShape /\ tele \in BOOLEAN

LEMMA ProcessShapeStep == ProcessShape /\ [Next]_vars => ProcessShape'
  <1>. SUFFICES ASSUME ProcessShape, [Next]_vars PROVE ProcessShape'
    OBVIOUS
  <1>1. ASSUME NEW c \in Handlers, NEW k \in Asks[c], Begin(c, k) PROVE ProcessShape'
    BY <1>1, BeginKeepsRow DEF ProcessShape, Begin
  <1>2. ASSUME NEW c \in Handlers, HandlerStep(c) PROVE ProcessShape'
    <2>1. tele' = tele
      BY <1>2 DEF HandlerStep, Refuse, BindDefault, Panic, ReachRegistry, Acquire,
                  TakeConn, LeaveConn, Finish, CloseOne, LockClient, InsertFails,
                  Insert, Return
    <2>. QED  BY <1>2, <2>1, HandlerKeepsShape DEF ProcessShape
  <1>3. ASSUME MainStep \/ RunReturns PROVE ProcessShape'
    <2>1. tele' = tele \/ tele' = FALSE
      BY <1>3 DEF MainStep, RunReturns, Start, StartFails, CloseDefault, DropDefault,
                  SwapTelemetry, CloseClient, ResetProjects, CloseReturns, Exit, CloseOne
    <2>. QED  BY <1>3, <2>1, MainKeepsCalls DEF ProcessShape, CallShape
  <1>4. CASE UNCHANGED vars
    BY <1>4 DEF vars, ProcessShape, CallShape
  <1>. QED  BY <1>1, <1>2, <1>3, <1>4 DEF Next

LEMMA ProcessShapeInit == Init => ProcessShape
  BY NoCallRow DEF Init, ProcessShape, CallShape

\* The process implements the cache of project handles: whatever is proved of
\* CacheSpec holds in the whole server.
THEOREM ImplementsCache == Spec => CacheSpec
  <1>1. Init => CacheInit
    BY DEF Init
  <1>2. ProcessShape /\ [Next]_vars => [CacheNext]_cacheVars
    BY RuntimeCacheStep DEF ProcessShape
  <1>. QED
    BY <1>1, <1>2, ProcessShapeInit, ProcessShapeStep, PTL DEF Spec, CacheSpec

---------------------------------------------------------------------------
(* A call at rest holds no lease and has closed what it evicted.           *)

Rests(c) ==
    /\ call[c].pc \in {"idle", "begun", "nil", "answered", "inserting"}
          => lease[c] = NoLease
    /\ call[c].pc \in {"idle", "begun", "nil", "inserting"} => closing[c] = {}
    /\ call[c].key = NoKey => lease[c] = NoLease

AllRest == \A c \in Handlers : Rests(c)

LEMMA EvictClosesForItself ==
  ASSUME Shape, NEW c \in Calls, NEW q, NEW ent, Evict(c, q, ent)
  PROVE  \A b \in Calls : b # c => closing'[b] = closing[b]
  BY DEF Evict, Shape

\* What a goroutine does to the cache, it does to its own lease and for its
\* own list of handles to close.
LEMMA OthersAreUntouched ==
  ASSUME Shape, NEW c \in Calls, NEW b \in Calls, b # c,
         \/ OpenRegistry(c) \/ Release(c) \/ Reset(c)
         \/ \E h \in Handles : CloseHandle(c, h)
         \/ \E k \in Keys : AcquireHit(c, k) \/ AcquireOpen(c, k)
         \/ \E m \in Modes : Configure(c, m)
  PROVE  lease'[b] = lease[b] /\ closing'[b] = closing[b]
  <1>1. CASE OpenRegistry(c)
    BY <1>1 DEF OpenRegistry
  <1>2. CASE Release(c)
    BY <1>2, EvictClosesForItself DEF Release, Shape
  <1>3. CASE Reset(c)
    BY <1>3 DEF Reset, Shape
  <1>4. CASE \E h \in Handles : CloseHandle(c, h)
    BY <1>4 DEF CloseHandle, Shape
  <1>5. CASE \E k \in Keys : AcquireHit(c, k)
    BY <1>5 DEF AcquireHit, Shape
  <1>6. CASE \E k \in Keys : AcquireOpen(c, k)
    BY <1>6, EvictClosesForItself DEF AcquireOpen, Shape
  <1>7. CASE \E m \in Modes : Configure(c, m)
    BY <1>7 DEF Configure, Shape
  <1>. QED  BY <1>1, <1>2, <1>3, <1>4, <1>5, <1>6, <1>7

LEMMA HandlerLeavesOthers ==
  ASSUME Shape, CallShape, NEW c \in Handlers, HandlerStep(c),
         NEW b \in Calls, b # c
  PROVE  lease'[b] = lease[b] /\ closing'[b] = closing[b]
  <1>0. c \in Calls /\ (call[c].key # NoKey => call[c].key \in Keys)
    BY HandlersAreCalls DEF CallShape, CallRow
  <1>1. CASE ReachRegistry(c)
    BY <1>0, <1>1, OthersAreUntouched DEF ReachRegistry
  <1>2. CASE Acquire(c)
    BY <1>0, <1>2, OthersAreUntouched DEF Acquire
  <1>3. CASE Finish(c)
    BY <1>0, <1>3, OthersAreUntouched DEF Finish, cacheVars
  <1>4. CASE \E h \in Handles : CloseOne(c, h)
    BY <1>0, <1>4, OthersAreUntouched DEF CloseOne
  <1>5. CASE \/ Refuse(c) \/ BindDefault(c) \/ Panic(c) \/ TakeConn(c)
             \/ LeaveConn(c, "working") \/ LeaveConn(c, "finished")
             \/ LockClient(c) \/ InsertFails(c) \/ Insert(c) \/ Return(c)
    BY <1>5 DEF Refuse, BindDefault, Panic, TakeConn, LeaveConn, LockClient,
                InsertFails, Insert, Return, cacheVars
  <1>. QED  BY <1>1, <1>2, <1>3, <1>4, <1>5 DEF HandlerStep

LEMMA MainLeavesHandlers ==
  ASSUME Shape, MainStep \/ RunReturns, NEW b \in Handlers
  PROVE  lease'[b] = lease[b] /\ closing'[b] = closing[b]
  <1>1. CASE \E m \in Modes : Start(m)
    BY <1>1, HandlersAreCalls, OthersAreUntouched DEF Start
  <1>2. CASE ResetProjects
    BY <1>2, HandlersAreCalls, OthersAreUntouched DEF ResetProjects
  <1>3. CASE \E h \in Handles : CloseOne(Main, h)
    BY <1>3, HandlersAreCalls, OthersAreUntouched DEF CloseOne
  <1>4. CASE \/ StartFails \/ RunReturns \/ CloseDefault \/ DropDefault
             \/ SwapTelemetry \/ CloseClient \/ CloseReturns \/ Exit
    BY <1>4 DEF StartFails, RunReturns, CloseDefault, DropDefault,
                SwapTelemetry, CloseClient, CloseReturns, Exit, cacheVars
  <1>. QED  BY <1>1, <1>2, <1>3, <1>4 DEF MainStep

LEMMA HandlerRests ==
  ASSUME Shape, CallShape, NEW c \in Handlers, Rests(c), HandlerStep(c)
  PROVE  Rests(c)'
  <1>0. c \in Calls
    BY HandlersAreCalls
  <1>1. CASE Refuse(c)
    <2>1. call'[c].pc = "answered" /\ UNCHANGED cacheVars /\ At(c, "begun")
      BY <1>1, GotoKeepsRow DEF Refuse
    <2>. QED  BY <2>1 DEF Rests, At, cacheVars
  <1>2. CASE BindDefault(c)
    <2>1. UNCHANGED cacheVars /\ At(c, "begun")
      BY <1>2 DEF BindDefault
    <2>. QED  BY <2>1 DEF Rests, At, cacheVars
  <1>3. CASE Panic(c)
    BY <1>3 DEF Panic, Rests, cacheVars
  <1>4. CASE ReachRegistry(c)
    BY <1>4 DEF ReachRegistry, OpenRegistry, Rests
  <1>5. CASE Acquire(c)
    <2>1. call'[c].pc = "working" /\ call'[c].key # NoKey
      BY <1>5, GotoKeepsRow DEF Acquire
    <2>. QED  BY <2>1 DEF Rests
  <1>6. CASE TakeConn(c)
    <2>1. call'[c].pc = "inside" /\ call'[c].key = call[c].key /\ UNCHANGED cacheVars
      BY <1>6, GotoKeepsRow DEF TakeConn
    <2>. QED  BY <2>1 DEF Rests, cacheVars
  <1>7. CASE LeaveConn(c, "working") \/ LeaveConn(c, "finished")
    <2>1. /\ call'[c].pc \in {"working", "finished"}
          /\ call'[c].key = call[c].key /\ UNCHANGED cacheVars
      BY <1>7, GotoKeepsRow DEF LeaveConn
    <2>. QED  BY <2>1 DEF Rests, cacheVars
  <1>8. CASE Finish(c)
    <2>1. call'[c].pc = "answered" /\ call'[c].key = call[c].key
      BY <1>8, GotoKeepsRow DEF Finish
    <2>2. lease'[c] = NoLease
      BY <1>0, <1>8 DEF Finish, Release, Rests, Shape, cacheVars
    <2>. QED  BY <2>1, <2>2 DEF Rests
  <1>9. CASE \E h \in Handles : CloseOne(c, h)
    <2>1. lease' = lease /\ call' = call /\ closing'[c] \subseteq closing[c]
      BY <1>0, <1>9 DEF CloseOne, CloseHandle, Shape
    <2>. QED  BY <2>1 DEF Rests
  <1>10. CASE LockClient(c)
    <2>1. /\ call'[c].pc = "inserting" /\ call'[c].key = call[c].key
          /\ UNCHANGED cacheVars /\ At(c, "answered") /\ closing[c] = {}
      BY <1>10, GotoKeepsRow DEF LockClient
    <2>. QED  BY <2>1 DEF Rests, At, cacheVars
  <1>11. CASE InsertFails(c) \/ Return(c)
    <2>1. /\ UNCHANGED cacheVars
          /\ At(c, "inserting") \/ (At(c, "answered") /\ closing[c] = {})
      BY <1>11 DEF InsertFails, Return
    <2>. QED  BY <2>1 DEF Rests, At, cacheVars
  <1>12. CASE Insert(c)
    <2>1. UNCHANGED cacheVars /\ At(c, "inserting")
      BY <1>12 DEF Insert
    <2>. QED  BY <2>1 DEF Rests, At, cacheVars
  <1>. QED
    BY <1>1, <1>2, <1>3, <1>4, <1>5, <1>6, <1>7, <1>8, <1>9, <1>10, <1>11, <1>12
       DEF HandlerStep

LEMMA AllRestStep ==
  ASSUME Shape, ProcessShape, AllRest, [Next]_vars
  PROVE  AllRest'
  <1>1. ASSUME NEW c \in Handlers, HandlerStep(c) PROVE AllRest'
    <2>1. \A b \in Handlers : b # c => Rests(b)'
      BY <1>1, HandlerLeavesOthers, HandlerKeepsShape, HandlersAreCalls
         DEF AllRest, Rests, ProcessShape
    <2>2. Rests(c)'
      BY <1>1, HandlerRests DEF AllRest, ProcessShape
    <2>. QED  BY <2>1, <2>2 DEF AllRest
  <1>2. ASSUME NEW c \in Handlers, NEW k \in Asks[c], Begin(c, k) PROVE AllRest'
    <2>1. /\ UNCHANGED cacheVars /\ At(c, "idle")
          /\ \A b \in Handlers : b # c => call'[b] = call[b]
      BY <1>2, BeginKeepsRow DEF Begin, ProcessShape
    <2>. QED  BY <2>1 DEF AllRest, Rests, At, cacheVars
  <1>3. CASE MainStep \/ RunReturns
    <2>1. call' = call
      BY <1>3, MainKeepsCalls
    <2>2. \A b \in Handlers : lease'[b] = lease[b] /\ closing'[b] = closing[b]
      BY <1>3, MainLeavesHandlers
    <2>. QED  BY <2>1, <2>2 DEF AllRest, Rests
  <1>4. CASE UNCHANGED vars
    BY <1>4 DEF vars, cacheVars, AllRest, Rests
  <1>. QED  BY <1>1, <1>2, <1>3, <1>4 DEF Next

---------------------------------------------------------------------------
(* Who inserts holds the mutex of a client that is open.                   *)

ClientShape == client \in [open : BOOLEAN, degraded : BOOLEAN]

\* With ClosedClientIsSilent, the inductive invariant of the telemetry client:
\* a start that fails closes it while there are no calls yet.
Silent ==
    /\ \A c \in Handlers : At(c, "inserting") => mu = c /\ client.open
    /\ main = "starting" => \A c \in Handlers : At(c, "idle")

LEMMA HandlerIsBusy ==
  ASSUME NEW c \in Handlers, Rests(c), HandlerStep(c)
  PROVE  ~At(c, "idle")
  BY DEF HandlerStep, Refuse, BindDefault, Panic, ReachRegistry, Acquire, TakeConn,
         LeaveConn, Finish, CloseOne, CloseHandle, LockClient, InsertFails, Insert,
         Return, At, Rests

LEMMA HandlerFrame ==
  ASSUME NEW c \in Handlers, HandlerStep(c), ClientShape
  PROVE  /\ ~Down /\ UNCHANGED <<default, tele, late>>
         /\ ClientShape' /\ client'.open = client.open
         /\ main' \in {main, "crashed"}
  <1>1. CASE InsertFails(c)
    BY <1>1 DEF InsertFails, ClientShape
  <1>2. CASE \/ Refuse(c) \/ BindDefault(c) \/ Panic(c) \/ ReachRegistry(c)
             \/ Acquire(c) \/ TakeConn(c) \/ LeaveConn(c, "working")
             \/ LeaveConn(c, "finished") \/ Finish(c) \/ LockClient(c)
             \/ Insert(c) \/ Return(c) \/ \E h \in Handles : CloseOne(c, h)
    BY <1>2 DEF Refuse, BindDefault, Panic, ReachRegistry, Acquire, TakeConn,
                LeaveConn, Finish, CloseOne, LockClient, Insert, Return, ClientShape
  <1>. QED  BY <1>1, <1>2 DEF HandlerStep

LEMMA ClientShapeStep == ProcessShape /\ ClientShape /\ [Next]_vars => ClientShape'
  <1>. SUFFICES ASSUME ProcessShape, ClientShape, [Next]_vars PROVE ClientShape'
    OBVIOUS
  <1>1. ASSUME NEW c \in Handlers, HandlerStep(c) PROVE ClientShape'
    BY <1>1, HandlerFrame
  <1>2. CASE MainStep \/ RunReturns
    BY <1>2 DEF ClientShape, MainStep, RunReturns, Start, StartFails, CloseDefault,
                DropDefault, SwapTelemetry, CloseClient, ResetProjects,
                CloseReturns, Exit, CloseOne
  <1>3. CASE UNCHANGED client
    BY <1>3 DEF ClientShape
  <1>. QED  BY <1>1, <1>2, <1>3 DEF Next, Begin, vars

\* A handler that is not inserting neither starts to nor holds the mutex but
\* by LockClient.
LEMMA HandlerIsSilent ==
  ASSUME CallShape, ClientShape, AllRest, Silent, NEW c \in Handlers, HandlerStep(c)
  PROVE  Silent'
  <1>1. main' # "starting"
    BY HandlerIsBusy, HandlerFrame DEF Silent, AllRest
  <1>2. client'.open = client.open
    BY HandlerFrame
  <1>3. \A b \in Handlers : b # c => call'[b] = call[b]
    BY HandlerKeepsShape
  <1>4. CASE LockClient(c)
    BY <1>1, <1>2, <1>3, <1>4, NoOneAssumption, HandlersAreCalls
       DEF Silent, At, LockClient
  <1>5. CASE InsertFails(c) \/ Insert(c)
    <2>1. At(c, "inserting") /\ ~(call'[c].pc = "inserting")
      BY <1>5, ReturnKeepsRow, InsertKeepsRow DEF InsertFails, Insert
    <2>2. \A b \in Handlers : b # c => ~At(b, "inserting")
      BY <2>1 DEF Silent
    <2>. QED  BY <1>1, <1>3, <2>1, <2>2 DEF Silent, At
  <1>6. ASSUME mu' = mu, call'[c].pc # "inserting" \/ call'[c] = call[c]
        PROVE  Silent'
    BY <1>1, <1>2, <1>3, <1>6 DEF Silent, At
  <1>7. CASE \/ Refuse(c) \/ Acquire(c) \/ TakeConn(c) \/ LeaveConn(c, "working")
             \/ LeaveConn(c, "finished") \/ Finish(c) \/ BindDefault(c)
    BY <1>6, <1>7, GotoKeepsRow
       DEF Refuse, Acquire, TakeConn, LeaveConn, Finish, BindDefault
  <1>8. CASE Panic(c) \/ ReachRegistry(c) \/ \E h \in Handles : CloseOne(c, h)
    BY <1>6, <1>8 DEF Panic, ReachRegistry, CloseOne
  <1>9. CASE Return(c)
    BY <1>6, <1>9, ReturnKeepsRow DEF Return
  <1>. QED  BY <1>4, <1>5, <1>7, <1>8, <1>9 DEF HandlerStep

LEMMA SilentStep ==
  ASSUME ProcessShape, ClientShape, AllRest, Silent, [Next]_vars
  PROVE  Silent'
  <1>1. ASSUME NEW c \in Handlers, HandlerStep(c) PROVE Silent'
    BY <1>1, HandlerIsSilent DEF ProcessShape
  <1>2. ASSUME NEW c \in Handlers, NEW k \in Asks[c], Begin(c, k) PROVE Silent'
    <2>1. /\ call'[c].pc = "begun"
          /\ \A b \in Handlers : b # c => call'[b] = call[b]
          /\ main = "serving" /\ UNCHANGED <<main, mu, client>>
      BY <1>2, BeginKeepsRow DEF Begin, ProcessShape
    <2>. QED  BY <2>1 DEF Silent, At
  <1>3. CASE MainStep \/ RunReturns
    <2>1. call' = call /\ mu' = mu
      BY <1>3, MainKeepsCalls
         DEF MainStep, RunReturns, Start, StartFails, CloseDefault, DropDefault,
             SwapTelemetry, CloseClient, ResetProjects, CloseReturns, Exit, CloseOne
    <2>2. CASE CloseClient
      <3>1. \A c \in Handlers : ~At(c, "inserting")
        BY <2>2, NoOneAssumption, HandlersAreCalls DEF CloseClient, Silent
      <3>. QED  BY <2>1, <2>2, <3>1 DEF CloseClient, Silent, At
    <2>3. CASE StartFails
      <3>1. \A c \in Handlers : ~At(c, "inserting")
        BY <2>3 DEF StartFails, Silent, At
      <3>. QED  BY <2>1, <2>3, <3>1 DEF StartFails, Silent, At
    <2>4. CASE client' = client /\ (main' = main \/ main' # "starting")
      BY <2>1, <2>4 DEF Silent, At
    <2>. QED
      BY <1>3, <2>2, <2>3, <2>4
         DEF MainStep, RunReturns, Start, CloseDefault, DropDefault, SwapTelemetry,
             ResetProjects, CloseReturns, Exit, CloseOne
  <1>4. CASE UNCHANGED vars
    BY <1>4 DEF vars, Silent, At
  <1>. QED  BY <1>1, <1>2, <1>3, <1>4 DEF Next

---------------------------------------------------------------------------
(* Shutdown.                                                               *)

AllIdle == \A c \in Handlers : At(c, "idle")

Closing == {"close default", "drop default", "swap", "close client", "reset",
            "resetting", "closed", "exited"}

\* Before the first call and after a shutdown that no call outlived, nobody
\* but Main does anything.
Quiet ==
    /\ main = "starting" => AllIdle /\ open = {}
    /\ main = "failed" => open = {}
    /\ main \in Closing /\ ~late => AllIdle

\* What Close has dealt with already: each line is kept whatever the calls do
\* beside it, but for the cache, which only a quiet shutdown leaves empty.
Dropped ==
    /\ main \in {"starting", "failed", "swap", "close client", "reset", "resetting",
                 "closed", "exited"} => default = "nil"
    /\ client.open => \/ main \in {"close client", "crashed"}
                      \/ /\ tele
                         /\ main \in {"starting", "serving", "close default",
                                      "drop default", "swap"}
    /\ main \in {"resetting", "closed", "exited"} /\ ~late
          => Cached = {} /\ registry = NoHandle
    /\ main \in {"closed", "exited"} => closing[Main] = {}

RuntimeInv ==
    CacheInv /\ ProcessShape /\ ClientShape /\ AllRest /\ Silent /\ Quiet /\ Dropped

LEMMA HandlerKeepsDropped ==
  ASSUME RuntimeInv, NEW c \in Handlers, HandlerStep(c)
  PROVE  Quiet' /\ Dropped'
  <1>1. ~At(c, "idle") /\ ~Down
    BY HandlerIsBusy, HandlerFrame DEF RuntimeInv, AllRest
  <1>2. /\ UNCHANGED <<default, tele, late>> /\ client'.open = client.open
        /\ main' \in {main, "crashed"}
    BY HandlerFrame DEF RuntimeInv
  <1>3. closing'[Main] = closing[Main]
    BY HandlerLeavesOthers, HandlersAreCalls DEF RuntimeInv, CacheInv, ProcessShape
  <1>4. main # "starting" /\ main # "failed" /\ (main \in Closing => late)
    BY <1>1 DEF RuntimeInv, Quiet, AllIdle, Down
  <1>5. Quiet'
    BY <1>2, <1>4 DEF Quiet, Closing
  <1>6. Dropped'
    BY <1>2, <1>3, <1>4 DEF RuntimeInv, Dropped, Closing
  <1>. QED  BY <1>5, <1>6

LEMMA MainKeepsDropped ==
  ASSUME RuntimeInv, MainStep \/ RunReturns
  PROVE  Quiet' /\ Dropped'
  <1>0. call' = call
    BY MainKeepsCalls
  <1>1. CASE \E m \in Modes : Start(m)
    BY <1>1 DEF Start, RuntimeInv, Quiet, Dropped, Closing
  <1>2. CASE StartFails
    BY <1>2 DEF StartFails, RuntimeInv, Quiet, Dropped, Closing, ClientShape, cacheVars
  <1>3. CASE RunReturns
    BY <1>0, <1>3 DEF RunReturns, RuntimeInv, Quiet, Dropped, Closing, AllIdle, At, cacheVars
  <1>4. CASE CloseDefault \/ DropDefault
    BY <1>0, <1>4 DEF CloseDefault, DropDefault, RuntimeInv, Quiet, Dropped, Closing,
                      AllIdle, At, cacheVars
  <1>5. CASE SwapTelemetry
    BY <1>0, <1>5 DEF SwapTelemetry, RuntimeInv, Quiet, Dropped, Closing, AllIdle, At,
                      cacheVars
  <1>6. CASE CloseClient
    BY <1>0, <1>6 DEF CloseClient, RuntimeInv, Quiet, Dropped, Closing, AllIdle, At,
                      ClientShape, cacheVars
  <1>7. CASE ResetProjects
    <2>1. Cached' = {} /\ registry' = NoHandle
      BY <1>7, EmptyEntry DEF ResetProjects, Reset, Cached, KeysIn
    <2>. QED  BY <1>0, <1>7, <2>1 DEF ResetProjects, RuntimeInv, Quiet, Dropped, Closing,
                                     AllIdle, At
  <1>8. CASE \E h \in Handles : CloseOne(Main, h)
    <2>1. /\ UNCHANGED <<entry, registry, main, default, tele, client, late>>
          /\ ~Down /\ main # "closed" /\ open' \subseteq open
      BY <1>8 DEF CloseOne, CloseHandle, RuntimeInv, Dropped
    <2>2. Cached' = Cached
      BY <2>1 DEF Cached, KeysIn
    <2>. QED  BY <1>0, <2>1, <2>2 DEF RuntimeInv, Quiet, Dropped, AllIdle, At, Down
  <1>9. CASE CloseReturns \/ Exit
    <2>1. \/ /\ main = "resetting"
             /\ closing[Main] = {}
             /\ main' = "closed"
          \/ /\ main = "closed"
             /\ main' = "exited"
      BY <1>9 DEF CloseReturns, Exit
    <2>2. UNCHANGED <<cacheVars, default, tele, client, late>>
      BY <1>9 DEF CloseReturns, Exit
    <2>3. Cached' = Cached
      BY <2>2 DEF Cached, KeysIn, cacheVars
    <2>. QED  BY <1>0, <2>1, <2>2, <2>3 DEF RuntimeInv, Quiet, Dropped, AllIdle, At,
                                           Closing, cacheVars
  <1>. QED
    BY <1>1, <1>2, <1>3, <1>4, <1>5, <1>6, <1>7, <1>8, <1>9 DEF MainStep

LEMMA RuntimeInvStep == RuntimeInv /\ [Next]_vars => RuntimeInv'
  <1>. SUFFICES ASSUME RuntimeInv, [Next]_vars PROVE RuntimeInv'
    OBVIOUS
  <1>1. CacheInv'
    BY RuntimeCacheStep, CacheInvStep DEF RuntimeInv, ProcessShape
  <1>2. ProcessShape' /\ ClientShape' /\ AllRest' /\ Silent'
    BY ProcessShapeStep, ClientShapeStep, AllRestStep, SilentStep
       DEF RuntimeInv, CacheInv
  <1>3. Quiet' /\ Dropped'
    <2>1. ASSUME NEW c \in Handlers, NEW k \in Asks[c], Begin(c, k)
          PROVE  Quiet' /\ Dropped'
      BY <2>1 DEF Begin, RuntimeInv, Quiet, Dropped, Closing
    <2>2. CASE UNCHANGED vars
      BY <2>2 DEF vars, cacheVars, RuntimeInv, Quiet, Dropped, AllIdle, At,
                   Cached, KeysIn
    <2>. QED  BY <2>1, <2>2, HandlerKeepsDropped, MainKeepsDropped DEF Next
  <1>. QED  BY <1>1, <1>2, <1>3 DEF RuntimeInv

LEMMA RuntimeInvInit == Init => RuntimeInv
  <1>. SUFFICES ASSUME Init PROVE RuntimeInv
    OBVIOUS
  <1>1. CacheInv
    BY CacheInvInit DEF Init
  <1>2. ProcessShape
    BY ProcessShapeInit
  <1>3. \A c \in Handlers : call[c].pc = "idle" /\ lease[c] = NoLease /\ closing[c] = {}
    BY NoCallRow, HandlersAreCalls DEF Init, CacheInit
  <1>4. ClientShape
    BY DEF Init, ClientShape
  <1>5. AllRest /\ Silent
    BY <1>3 DEF AllRest, Rests, Silent, At
  <1>6. Quiet /\ Dropped
    BY <1>3 DEF Init, CacheInit, Quiet, Dropped, AllIdle, At, Closing
  <1>. QED  BY <1>1, <1>2, <1>4, <1>5, <1>6 DEF RuntimeInv

LEMMA QuietShutdownClosesAll == RuntimeInv => ShutdownClosesAll
  <1>. SUFFICES ASSUME RuntimeInv, main \in {"closed", "exited", "failed"}, ~late
                PROVE  open = {} /\ default # "open" /\ ~client.open
    BY DEF ShutdownClosesAll
  <1>1. default # "open" /\ ~client.open
    BY DEF RuntimeInv, Dropped
  <1>2. CASE main = "failed"
    BY <1>1, <1>2 DEF RuntimeInv, Quiet
  <1>3. CASE main \in {"closed", "exited"}
    <2>1. Cached = {} /\ registry = NoHandle /\ closing[Main] = {}
      BY <1>3 DEF RuntimeInv, Dropped
    <2>2. \A c \in Handlers : closing[c] = {}
      BY <1>3 DEF RuntimeInv, Quiet, Closing, AllIdle, AllRest, Rests, At
    <2>3. \A c \in Calls : closing[c] = {}
      BY <2>1, <2>2 DEF Handlers
    <2>4. CachedHandles = {}
      BY <2>1 DEF CachedHandles
    <2>5. open = {}
      BY <2>1, <2>3, <2>4 DEF RuntimeInv, CacheInv, HandlesAccountedFor
    <2>. QED  BY <1>1, <2>5
  <1>. QED  BY <1>2, <1>3

\* The client is never used after it was closed, whenever Close runs beside
\* calls that captured it.
THEOREM ClientCorrect == Spec => []ClosedClientIsSilent
  <1>1. RuntimeInv => ClosedClientIsSilent
    BY DEF RuntimeInv, Silent, ClosedClientIsSilent
  <1>. QED  BY <1>1, RuntimeInvInit, RuntimeInvStep, PTL DEF Spec

\* A shutdown that no call outlives closes every database, the telemetry
\* client and the registry; a start that fails leaves nothing open either.
THEOREM ShutdownCorrect == Spec => []ShutdownClosesAll
  BY QuietShutdownClosesAll, RuntimeInvInit, RuntimeInvStep, PTL DEF Spec

\* In the whole process, with shutdown at any moment, no call finds its handle
\* closed before Close takes the project handles.
THEOREM ServerLeasesCorrect == Spec => []LeasedHandleStaysOpen
  BY ImplementsCache, LeasesCorrect, PTL

---------------------------------------------------------------------------
(* Where everybody is: a mutex and a connection are held by whoever is      *)
(* between taking and leaving them, and by nobody else.                     *)

\* A call at work on a project has the handle it was given, even after a shutdown
\* took it from the cache.
HasHandle(c) ==
    call[c].pc \in {"working", "inside", "finished"} /\ call[c].key # NoKey
        => lease[c].handle \in Handles

Locks ==
    /\ mu \in Handlers \cup {NoOne}
    /\ \A c \in Handlers : At(c, "inserting") <=> mu = c
    /\ conn \in [Databases -> Handlers \cup {NoOne}]
    /\ \A c \in Handlers : HasHandle(c)
    /\ \A c \in Handlers, d \in Databases :
          conn[d] = c <=> (At(c, "inside") /\ DatabaseOf(c) = d)

Phases == {"starting", "serving", "close default", "drop default", "swap",
           "close client", "reset", "resetting", "closed"}
          \cup {"failed", "exited", "crashed"}

MainShape ==
    /\ main \in Phases
    /\ default \in {"open", "closed", "nil"}
    /\ late \in BOOLEAN

\* The handle of a new lease.
LEMMA AcquireGetsHandle ==
  ASSUME Shape, NEW c \in Handlers, Acquire(c), call[c].key \in Keys
  PROVE  lease'[c].handle \in Handles
  <1>0. c \in Calls
    BY HandlersAreCalls
  <1>. DEFINE k == call[c].key
  <1>1. CASE AcquireHit(c, k)
    <2>1. PICK h \in Handles : entry[k].handle = h
      BY <1>1 DEF AcquireHit, Cached, KeysIn, Shape, Entry
    <2>2. lease' = [lease EXCEPT ![c] = [key |-> k, handle |-> h]]
      BY <1>1, <2>1 DEF AcquireHit
    <2>. QED  BY <1>0, <2>2 DEF Shape
  <1>2. CASE AcquireOpen(c, k)
    <2>1. NewHandle \in Handles
      BY <1>2, NewHandleIsFresh, FreshHandle DEF AcquireOpen
    <2>2. lease' = [lease EXCEPT ![c] = [key |-> k, handle |-> NewHandle]]
      BY <1>2 DEF AcquireOpen
    <2>. QED  BY <1>0, <2>1, <2>2 DEF Shape
  <1>. QED  BY <1>1, <1>2 DEF Acquire

\* A step that leaves the locks alone and ends as far from them as it began.
LEMMA ApartFromLocks ==
  ASSUME Locks, CallShape, NEW c \in Handlers,
         UNCHANGED <<mu, conn>>, HasHandle(c)',
         \/ call'[c] = call[c] /\ lease'[c] = lease[c]
         \/ /\ call[c].pc \notin {"inserting", "inside"}
            /\ call'[c].pc \notin {"inserting", "inside"},
         \A b \in Handlers : b # c => call'[b] = call[b] /\ lease'[b] = lease[b]
  PROVE  Locks'
  <1>1. \A b \in Handlers : HasHandle(b)'
    BY DEF Locks, HasHandle
  <1>2. \A b \in Handlers : At(b, "inserting")' <=> At(b, "inserting")
    BY DEF At
  <1>3. \A b \in Handlers, d \in Databases :
           (At(b, "inside") /\ DatabaseOf(b) = d)' <=> (At(b, "inside") /\ DatabaseOf(b) = d)
    BY DEF At, DatabaseOf
  <1>. QED  BY <1>1, <1>2, <1>3 DEF Locks

LEMMA TakeConnKeepsLocks ==
  ASSUME Locks, CallShape, NEW c \in Handlers, TakeConn(c),
         \A b \in Handlers : b # c => lease'[b] = lease[b]
  PROVE  Locks'
  <1>. DEFINE d == DatabaseOf(c)
  <1>1. /\ At(c, "working") /\ conn[d] = NoOne
        /\ conn' = [conn EXCEPT ![d] = c]
        /\ UNCHANGED <<lease, mu>>
    BY DEF TakeConn, cacheVars
  <1>2. d \in Databases
    BY <1>1 DEF Locks, HasHandle, At, DatabaseOf, Databases
  <1>3. /\ call'[c].pc = "inside" /\ call'[c].key = call[c].key
        /\ \A b \in Handlers : b # c => call'[b] = call[b]
    BY GotoKeepsRow DEF TakeConn
  <1>4. \A b \in Handlers : HasHandle(b)' /\ (At(b, "inserting")' <=> At(b, "inserting"))
    BY <1>1, <1>3 DEF Locks, HasHandle, At
  <1>5. \A b \in Handlers : DatabaseOf(b)' = DatabaseOf(b)
    BY <1>1, <1>3 DEF DatabaseOf
  <1>. HIDE DEF d
  <1>6. /\ conn' \in [Databases -> Handlers \cup {NoOne}]
        /\ conn'[d] = c
        /\ \A e \in Databases : e # d => conn'[e] = conn[e]
    BY <1>1, <1>2 DEF Locks
  <1>7. \A e \in Databases : conn'[e] = c <=> DatabaseOf(c)' = e
    <2>1. \A e \in Databases : conn[e] # c
      BY <1>1 DEF Locks, At
    <2>. QED  BY <1>5, <1>6, <2>1 DEF d
  <1>8. ASSUME NEW b \in Handlers, b # c, NEW e \in Databases
        PROVE  conn'[e] = b <=> (At(b, "inside")' /\ DatabaseOf(b)' = e)
    <2>1. At(b, "inside")' <=> At(b, "inside")
      BY <1>3, <1>8 DEF At
    <2>2. conn'[e] = b <=> conn[e] = b
      BY <1>1, <1>6, <1>8, NoOneAssumption, HandlersAreCalls
    <2>. QED  BY <1>5, <2>1, <2>2 DEF Locks
  <1>9. At(c, "inside")'
    BY <1>3 DEF At
  <1>. QED  BY <1>1, <1>4, <1>6, <1>7, <1>8, <1>9 DEF Locks

LEMMA LeaveConnKeepsLocks ==
  ASSUME Locks, CallShape, NEW c \in Handlers,
         LeaveConn(c, "working") \/ LeaveConn(c, "finished")
  PROVE  Locks'
  <1>. DEFINE d == DatabaseOf(c)
  <1>1. /\ At(c, "inside")
        /\ conn' = [conn EXCEPT ![d] = NoOne]
        /\ UNCHANGED <<lease, mu>>
    BY DEF LeaveConn, cacheVars
  <1>2. d \in Databases
    BY <1>1 DEF Locks, HasHandle, At, DatabaseOf, Databases
  <1>3. /\ call'[c].pc \in {"working", "finished"} /\ call'[c].key = call[c].key
        /\ \A b \in Handlers : b # c => call'[b] = call[b]
    BY GotoKeepsRow DEF LeaveConn
  <1>4. \A b \in Handlers : HasHandle(b)' /\ (At(b, "inserting")' <=> At(b, "inserting"))
    BY <1>1, <1>3 DEF Locks, HasHandle, At
  <1>5. \A b \in Handlers : DatabaseOf(b)' = DatabaseOf(b)
    BY <1>1, <1>3 DEF DatabaseOf
  <1>6. conn[d] = c
    BY <1>1, <1>2 DEF Locks
  <1>7. \A e \in Databases : conn[e] = c => e = d
    BY DEF Locks
  <1>. HIDE DEF d
  <1>8. /\ conn' \in [Databases -> Handlers \cup {NoOne}]
        /\ conn'[d] = NoOne
        /\ \A e \in Databases : e # d => conn'[e] = conn[e]
    BY <1>1, <1>2 DEF Locks
  <1>9. \A b \in Handlers : b # NoOne
    BY NoOneAssumption, HandlersAreCalls
  <1>10. \A e \in Databases : conn'[e] # c
    BY <1>7, <1>8, <1>9
  <1>11. ASSUME NEW b \in Handlers, b # c, NEW e \in Databases
         PROVE  conn'[e] = b <=> (At(b, "inside")' /\ DatabaseOf(b)' = e)
    <2>1. At(b, "inside")' <=> At(b, "inside")
      BY <1>3, <1>11 DEF At
    <2>2. conn'[e] = b <=> conn[e] = b
      BY <1>6, <1>8, <1>9, <1>11
    <2>. QED  BY <1>5, <2>1, <2>2 DEF Locks
  <1>12. ~At(c, "inside")'
    BY <1>3 DEF At
  <1>. QED  BY <1>1, <1>4, <1>8, <1>10, <1>11, <1>12 DEF Locks

\* The steps that take and leave the telemetry client's mutex.
LEMMA MutexKeepsLocks ==
  ASSUME Locks, CallShape, NEW c \in Handlers,
         LockClient(c) \/ InsertFails(c) \/ Insert(c)
  PROVE  Locks'
  <1>1. /\ \A b \in Handlers : b # c => call'[b] = call[b]
        /\ \/ mu = NoOne /\ mu' = c /\ call'[c].pc = "inserting"
              /\ call[c].pc = "answered"
           \/ mu' = NoOne /\ call'[c].pc \in {"idle", "answered"}
              /\ call[c].pc = "inserting"
        /\ UNCHANGED <<lease, conn>>
    <2>1. CASE LockClient(c)
      BY <2>1, GotoKeepsRow DEF LockClient, cacheVars, At
    <2>2. CASE InsertFails(c)
      BY <2>2, ReturnKeepsRow DEF InsertFails, cacheVars, At
    <2>3. CASE Insert(c)
      BY <2>3, InsertKeepsRow DEF Insert, cacheVars, At
    <2>. QED  BY <2>1, <2>2, <2>3
  <1>2. \A b \in Handlers : b # NoOne
    BY NoOneAssumption, HandlersAreCalls
  <1>3. mu' \in Handlers \cup {NoOne}
    BY <1>1
  <1>4. \A b \in Handlers : At(b, "inserting")' <=> mu' = b
    BY <1>1, <1>2 DEF Locks, At
  <1>5. \A b \in Handlers : HasHandle(b)'
    BY <1>1 DEF Locks, HasHandle
  <1>6. \A b \in Handlers : At(b, "inside")' <=> At(b, "inside")
    BY <1>1 DEF At
  <1>7. \A b \in Handlers : At(b, "inside") => DatabaseOf(b)' = DatabaseOf(b)
    BY <1>1 DEF At, DatabaseOf
  <1>. QED  BY <1>1, <1>3, <1>4, <1>5, <1>6, <1>7 DEF Locks

LEMMA HandlerKeepsLocks ==
  ASSUME Shape, CallShape, Locks, NEW c \in Handlers, HandlerStep(c)
  PROVE  Locks'
  <1>0. \A b \in Handlers : b # c => call'[b] = call[b] /\ lease'[b] = lease[b]
    BY HandlerKeepsShape, HandlerLeavesOthers, HandlersAreCalls
  <1>1. CASE TakeConn(c)
    BY <1>0, <1>1, TakeConnKeepsLocks
  <1>2. CASE LeaveConn(c, "working") \/ LeaveConn(c, "finished")
    BY <1>2, LeaveConnKeepsLocks
  <1>3. CASE LockClient(c) \/ InsertFails(c) \/ Insert(c)
    BY <1>3, MutexKeepsLocks
  <1>4. CASE Acquire(c)
    <2>1. call[c].key \in Keys
      BY <1>4 DEF Acquire, CallShape, CallRow
    <2>2. UNCHANGED <<mu, conn>> /\ call[c].pc = "begun" /\ call'[c].pc = "working"
      BY <1>4, GotoKeepsRow DEF Acquire, At
    <2>3. HasHandle(c)'
      BY <1>4, <2>1, AcquireGetsHandle DEF HasHandle
    <2>. QED  BY <1>0, <2>2, <2>3, ApartFromLocks
  <1>5. CASE Refuse(c) \/ Finish(c)
    <2>1. /\ UNCHANGED <<mu, conn>> /\ call[c].pc \notin {"inserting", "inside"}
          /\ call'[c].pc = "answered"
      BY <1>5, GotoKeepsRow DEF Refuse, Finish, At
    <2>. QED  BY <1>0, <2>1, ApartFromLocks DEF HasHandle
  <1>6. CASE BindDefault(c)
    <2>1. /\ UNCHANGED <<mu, conn>> /\ call[c].pc = "begun"
          /\ call'[c].pc \in {"nil", "working"} /\ call'[c].key = NoKey
      BY <1>6, GotoKeepsRow DEF BindDefault, At
    <2>. QED  BY <1>0, <2>1, ApartFromLocks DEF HasHandle
  <1>7. CASE Return(c)
    <2>1. /\ UNCHANGED <<mu, conn>> /\ call[c].pc = "answered"
          /\ call'[c].pc = "idle"
      BY <1>7, ReturnKeepsRow DEF Return, At
    <2>. QED  BY <1>0, <2>1, ApartFromLocks DEF HasHandle
  <1>8. CASE Panic(c) \/ ReachRegistry(c) \/ \E h \in Handles : CloseOne(c, h)
    <2>1. UNCHANGED <<mu, conn, call, lease>>
      BY <1>8 DEF Panic, ReachRegistry, OpenRegistry, CloseOne, CloseHandle, cacheVars
    <2>2. HasHandle(c)'
      BY <2>1 DEF HasHandle, Locks
    <2>. QED  BY <1>0, <2>1, <2>2, ApartFromLocks
  <1>. QED
    BY <1>1, <1>2, <1>3, <1>4, <1>5, <1>6, <1>7, <1>8 DEF HandlerStep

LEMMA LocksStep ==
  ASSUME Shape, ProcessShape, Locks, [Next]_vars
  PROVE  Locks'
  <1>1. ASSUME NEW c \in Handlers, HandlerStep(c) PROVE Locks'
    BY <1>1, HandlerKeepsLocks DEF ProcessShape
  <1>2. ASSUME NEW c \in Handlers, NEW k \in Asks[c], Begin(c, k) PROVE Locks'
    <2>1. /\ UNCHANGED <<mu, conn, lease>> /\ call[c].pc = "idle"
          /\ call'[c].pc = "begun"
          /\ \A b \in Handlers : b # c => call'[b] = call[b]
      BY <1>2, BeginKeepsRow DEF Begin, ProcessShape, At, cacheVars
    <2>. QED  BY <2>1, ApartFromLocks DEF HasHandle, ProcessShape
  <1>3. ASSUME UNCHANGED <<mu, conn, call>>, \A b \in Handlers : lease'[b] = lease[b]
        PROVE  Locks'
    BY <1>3 DEF Locks, HasHandle, At, DatabaseOf
  <1>4. CASE MainStep \/ RunReturns
    <2>1. UNCHANGED <<mu, conn, call>>
      BY <1>4 DEF MainStep, RunReturns, Start, StartFails, CloseDefault, DropDefault,
                  SwapTelemetry, CloseClient, ResetProjects, CloseReturns, Exit, CloseOne
    <2>. QED  BY <1>3, <1>4, <2>1, MainLeavesHandlers
  <1>5. CASE UNCHANGED vars
    BY <1>3, <1>5 DEF vars, cacheVars
  <1>. QED  BY <1>1, <1>2, <1>4, <1>5 DEF Next

LEMMA MainShapeStep ==
  ASSUME ClientShape, MainShape, [Next]_vars
  PROVE  MainShape'
  <1>1. ASSUME NEW c \in Handlers, HandlerStep(c) PROVE MainShape'
    BY <1>1, HandlerFrame DEF MainShape, Phases
  <1>2. ASSUME NEW c \in Handlers, NEW k \in Asks[c], Begin(c, k) PROVE MainShape'
    BY <1>2 DEF Begin, MainShape
  <1>3. CASE MainStep \/ RunReturns
    BY <1>3 DEF MainShape, Phases, MainStep, RunReturns, Start, StartFails, CloseDefault,
                DropDefault, SwapTelemetry, CloseClient, ResetProjects, CloseReturns,
                Exit, CloseOne
  <1>4. CASE UNCHANGED vars
    BY <1>4 DEF vars, MainShape
  <1>. QED  BY <1>1, <1>2, <1>3, <1>4 DEF Next

LEMMA LocksInit == Init => Locks /\ MainShape
  <1>. SUFFICES ASSUME Init PROVE Locks /\ MainShape
    OBVIOUS
  <1>1. \A c \in Handlers : call[c].pc = "idle" /\ c # NoOne
    BY NoCallRow, NoOneAssumption, HandlersAreCalls DEF Init
  <1>2. mu = NoOne /\ conn = [d \in Databases |-> NoOne]
    BY DEF Init
  <1>3. Locks
    BY <1>1, <1>2 DEF Locks, HasHandle, At
  <1>. QED  BY <1>3 DEF Init, MainShape, Phases

\* In the whole process every variable has its shape; who is inside a statement
\* holds the connection of its database, who inserts holds the telemetry mutex,
\* and nobody else does.
THEOREM ProcessTypes == Spec => []TypeOK
  <1>1. CacheTypeOK /\ RuntimeInv /\ Locks /\ MainShape => TypeOK
    BY DEF RuntimeInv, ProcessShape, CallShape, CallRow, ClientShape, Locks,
           MainShape, Phases, TypeOK
  <1>2. RuntimeInv /\ Locks /\ MainShape /\ [Next]_vars => Locks' /\ MainShape'
    BY LocksStep, MainShapeStep DEF RuntimeInv, CacheInv
  <1>. QED
    BY <1>1, <1>2, LocksInit, RuntimeInvInit, RuntimeInvStep, ImplementsCache,
       CacheTypesCorrect, PTL DEF Spec

\* In the whole process the cache keeps its promises: it is over its limit only
\* by entries in use, counts its leases and loses no handle.
THEOREM ServerCacheCorrect ==
  Spec => [](OverLimitOnlyInUse /\ RefsCountLeases /\ HandlesAccountedFor)
  BY ImplementsCache, LimitCorrect, CountsCorrect, HandlesCorrect, PTL

===========================================================================
