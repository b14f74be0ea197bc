SPECIFICATION MCSpec
CONSTANTS
  Master = master  Slave = slave
  Values = {va, vb, vc}  Initial = va  MaxSets = 4
  Keys = {k1, k2}  MapValues = {va, vb}  Absent = Absent  MaxMapChanges = 2
  Elements = {va, vb}  MaxListChanges = 2
  Members = {va, vb}  MaxSetChanges = 3
  Tasks = {t1, t2}  NoTask = NoTask
  Calls = {c1, c2}  Bindable = {c1}  NoCall = NoCall
  idProp = idProp  idCall = idCall  idRoot = idRoot
  Ids <- MCIds  SchedulerOf <- MCSchedulerOf  MaxMessages = 3
  x1 = x1  x2 = x2  x3 = x3  eternal = eternal  short = short  Null = Null
  Listeners <- MCListeners  ListenerLifetimes <- MCListenerLifetimes  Eternal = eternal
  LifetimeOf <- MCLifetimeOf  MaxFires = 2  MaxDepth = 2  Effects <- MCEffects
  outer = outer  middle = middle  act1 = act1  act2 = act2
  LifetimeThreads = {lt1, lt2}  Root = outer
  Lifetimes <- MCLifetimes  Parent <- MCParent  Actions <- MCActions  Owner <- MCOwner
INVARIANTS Converged MapConvergedUnlessUnguarded ConflictIffCrossed SetConvergedUnlessCollided
INVARIANTS CallsKeptApart AnsweredOnceUnlessOvertaken BrokerCorrect SignalCorrect
INVARIANTS LifetimeCorrect
PROPERTIES EventuallySettled EventuallyRuns MasterNotUndone ResultStaysUnlessRaced
PROPERTIES EventuallyAnsweredUnlessEnded
CHECK_DEADLOCK FALSE
