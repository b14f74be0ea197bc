SPECIFICATION MCSpec
CONSTANTS
  Master = master  Slave = slave
  Values = {va}  Initial = va  MaxSets = 0
  Keys = {k1}  MapValues = {va}  Absent = Absent  MaxMapChanges = 0
  Elements = {va}  MaxListChanges = 0
  Members = {va}  MaxSetChanges = 0
  Tasks = {t1}  NoTask = NoTask
  Calls = {c1}  Bindable = {c1}  NoCall = NoCall
  idProp = idProp  idCall = idCall  idRoot = idRoot
  Ids <- MCIds  SchedulerOf <- MCSchedulerOf  MaxMessages = 3
  x1 = x1  x2 = x2  x3 = x3  eternal = eternal  short = short  Null = Null
  Listeners <- MCListeners  ListenerLifetimes <- MCListenerLifetimes  Eternal = eternal
  LifetimeOf <- MCLifetimeOf  MaxFires = 0  MaxDepth = 1  Effects = {}
  outer = outer  middle = middle  act1 = act1  act2 = act2
  LifetimeThreads = {lt1}  Root = outer
  Lifetimes <- MCLifetimes  Parent <- MCParent  Actions <- MCActions  Owner <- MCOwner
INVARIANT FlushHasSubscription
CHECK_DEADLOCK FALSE
