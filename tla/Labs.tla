-------------------------------- MODULE Labs --------------------------------
(***************************************************************************)
(* The drivers of the lab exercises.  They are loaded one at a time: each  *)
(* lab builds, loads and unloads its own.  A variable that two drivers     *)
(* have is the one of the driver loaded; those of the others are unused.   *)
(***************************************************************************)
EXTENDS Integers, Sequences, FiniteSets

CONSTANTS
    Drivers,         \* the drivers that are tried
    Readers, Writers,
    BlockProcs,      \* the processes of the blocking drivers
    Walkers,         \* the readers of the list
    Lab3Calls,       \* bound on the calls of a driver of lab3
    BlockCalls, BlockSignals, Amounts,    \* the bounds of SimpleBlock, and its amounts
    MaxWrites,       \* bound on the writes of lab8
    NIds, AskedIds, MaxUpdates,           \* the list: its length, ids asked for, a bound
    MaxOpens, MaxEdges,                   \* the bounds of lab7
    Works,           \* the memory for work items
    ContextSets,     \* the contexts of ModuleLife, in sets
    WaiterSets       \* the actors that wait for something, in sets

\* Every process of lab8's applications is a reader or a writer for good.
ASSUME LabsAssumption ==
    /\ Readers \cap Writers = {} /\ Walkers \cap Writers = {}
    /\ "nobody" \notin Readers \cup Writers \cup Walkers \cup BlockProcs
    /\ "isr" \notin Readers /\ "elsewhere" \notin Readers
    /\ Amounts \subseteq Nat
    /\ NIds \in Nat \ {0} /\ MaxUpdates \in Nat /\ AskedIds \subseteq Nat

\* A work item is a context of its own.
ASSUME WorksAssumption ==
    Works \cap {"module", "user", "isr", "timer", "tasklet", "thread"} = {}

VARIABLES
    driver,
    proc, lock, loaded, calls, live, my_data,      \* of several drivers
    fresh, holdouts, holders, next, prev, node,    \* lab8
    my_wq, signals, produced, consumed,            \* lab4
    msgs, sent, got, kern_buf,                     \* lab3
    times, depth, isr, edges, shared,              \* lab7
    phase, run, held, armed, items, led, button, sonar,       \* lab6 to lab11
    failed, misfreed, unready, stopped, raced

lab3Vars == <<msgs, sent, got, kern_buf>>
lab4Vars == <<my_wq, signals, produced, consumed>>
listVars == <<times, isr, shared>>
lab7Vars == <<depth, edges, listVars>>
lab8Vars == <<fresh, holdouts, holders, next, prev, node>>
lifeVars == <<phase, run, held, armed, items, led, button, sonar,
              failed, misfreed, unready, stopped, raced>>
callVars == <<proc, lock, loaded, calls, live, my_data>>
allVars == <<driver, callVars, lab3Vars, lab4Vars, lab7Vars, lab8Vars, lifeVars>>

Block == INSTANCE SimpleBlock WITH
    Procs <- BlockProcs, my_lock <- lock, MaxCalls <- BlockCalls, MaxSignals <- BlockSignals
Rcu == INSTANCE SimpleRcu
Rw == INSTANCE SimpleRwlock
List == INSTANCE SimpleRculist WITH Readers <- Walkers, Updaters <- Writers
Ch3 == INSTANCE Ch3Mod WITH Procs <- BlockProcs, MaxCalls <- Lab3Calls
Spin == INSTANCE SimpleSpin WITH Procs <- BlockProcs, MaxCalls <- Lab3Calls
Sensor == INSTANCE SpinInterrupt WITH Procs <- Readers
Life == INSTANCE ModuleLife

\* The drivers that a module of their own describes; ModuleLife has the others.
Described == {"ch3", "simple_spin", "block_1", "block_2", "spin_interrupt",
              "rcu", "rwlock", "rculist"}

NotOfLab3 == msgs = 0 /\ sent = 0 /\ got = 0 /\ kern_buf = 0
NotOfLab4 == my_wq = 0 /\ signals = 0 /\ produced = 0 /\ consumed = 0
NotOfLab7 == times = 0 /\ depth = 0 /\ isr = 0 /\ edges = 0 /\ shared = 0
NotOfLab8 ==
    fresh = 0 /\ holdouts = 0 /\ holders = 0 /\ next = 0 /\ prev = 0 /\ node = 0
NotOfLife ==
    /\ phase = "none" /\ run = 0 /\ held = {} /\ armed = {} /\ items = {} /\ led = "off"
    /\ button = [now |-> "off"] /\ sonar = [flag |-> 0]
    /\ failed = {} /\ misfreed = {} /\ unready = {} /\ stopped = {} /\ raced = {}

InitOfLab3 ==
    /\ NotOfLab4 /\ NotOfLab7 /\ NotOfLab8 /\ my_data = 0
    /\ \/ driver = "ch3" /\ Ch3!Ch3Init /\ kern_buf = 0
       \/ driver = "simple_spin" /\ Spin!SpinInit
            /\ live = 0 /\ loaded = 0 /\ msgs = 0 /\ sent = 0
InitOfLab4 ==
    /\ NotOfLab3 /\ NotOfLab7 /\ NotOfLab8 /\ live = 0 /\ loaded = 0
    /\ driver \in {"block_1", "block_2"} /\ Block!BlockInit
InitOfLab7 ==
    /\ NotOfLab3 /\ NotOfLab4 /\ NotOfLab8 /\ my_data = 0
    /\ driver = "spin_interrupt" /\ Sensor!IntInit
InitOfLab8 ==
    /\ NotOfLab3 /\ NotOfLab4 /\ NotOfLab7 /\ calls = 0
    /\ \/ driver = "rcu" /\ Rcu!RcuInit /\ holders = 0 /\ next = 0 /\ prev = 0 /\ node = 0
       \/ driver = "rwlock" /\ Rw!RwInit /\ lock = 0 /\ holdouts = 0
            /\ next = 0 /\ prev = 0 /\ node = 0
       \/ driver = "rculist" /\ List!ListInit /\ my_data = 0 /\ holders = 0
InitOfLife ==
    /\ driver \notin Described
    /\ NotOfLab3 /\ NotOfLab4 /\ NotOfLab8 /\ times = 0 /\ isr = 0 /\ shared = 0
    /\ proc = 0 /\ lock = 0 /\ loaded = 0 /\ calls = 0 /\ live = 0 /\ my_data = 0
    /\ Life!LifeInit
Init ==
    /\ driver \in Drivers
    /\ \/ NotOfLife /\ (InitOfLab3 \/ InitOfLab4 \/ InitOfLab7 \/ InitOfLab8)
       \/ InitOfLife

\* A step of a driver leaves alone the variables that only others have.
OfCh3(A) == driver = "ch3" /\ A
              /\ UNCHANGED <<driver, my_data, kern_buf, lab4Vars, lab7Vars, lab8Vars, lifeVars>>
OfSpin(A) == driver = "simple_spin" /\ A
              /\ UNCHANGED <<driver, my_data, loaded, live, msgs, sent, lab4Vars, lab7Vars, lab8Vars, lifeVars>>
OfBlock(name, A) == driver = name /\ A
                      /\ UNCHANGED <<driver, loaded, live, lab3Vars, lab7Vars, lab8Vars, lifeVars>>
OfSensor(A) == driver = "spin_interrupt" /\ A
                 /\ UNCHANGED <<driver, my_data, lab3Vars, lab4Vars, lab8Vars, lifeVars>>
OfRcu(A) == driver = "rcu" /\ A
              /\ UNCHANGED <<driver, calls, holders, next, prev, node, lab3Vars, lab4Vars, lab7Vars, lifeVars>>
OfRw(A) == driver = "rwlock" /\ A
              /\ UNCHANGED <<driver, lock, calls, holdouts, next, prev, node,
                             lab3Vars, lab4Vars, lab7Vars, lifeVars>>
OfList(A) == driver = "rculist" /\ A
               /\ UNCHANGED <<driver, calls, my_data, holders, lab3Vars, lab4Vars, lab7Vars, lifeVars>>
OfLife(A) == driver \notin Described /\ A
               /\ UNCHANGED <<driver, callVars, listVars, lab3Vars, lab4Vars, lab8Vars>>

\* The two drivers of lab4 differ in their commands.
Commands1 == {"WQ", "WQ_INTERRUPTIBLE", "WQ_INTERRUPTIBLE_TIMEOUT", "WQ_WAKE_UP"}
Commands2 == {"WQ_INTERRUPTIBLE", "WQ_EX", "WQ_WAKE_UP", "WQ_WAKE_UP_ALL"}

Next ==
    \/ OfCh3(Ch3!Ch3Next)
    \/ OfSpin(Spin!SpinNext)
    \/ OfBlock("block_1", Block!BlockNext(Commands1))
    \/ OfBlock("block_2", Block!BlockNext(Commands2))
    \/ OfSensor(Sensor!IntNext)
    \/ OfRcu(Rcu!RcuNext)
    \/ OfRw(Rw!RwNext)
    \/ OfList(List!ListNext)
    \/ OfLife(Life!LifeNext)

\* The kernel runs every process and handler that can run, and timers expire.  RCU
\* looks at every processor until it was seen outside a read-side section, were it
\* only between two reads of a loop.  The driver never changes, so actors of
\* different drivers share a condition, as do the contexts of a set: no two of them
\* ever run under the same driver.
Blocking == driver \in {"block_1", "block_2"}
ProcStep(p) ==
    \/ p \in BlockProcs /\ Blocking /\ OfBlock(driver, Block!BlockStep(p))
    \/ p \in Readers /\ (\/ OfSensor(Sensor!IntStep(p))
                         \/ OfRcu(Rcu!ReaderStep(p)) \/ OfRw(Rw!ReaderStep(p)))
    \/ p \in Writers /\ (OfRcu(Rcu!WriterStep(p)) \/ OfRw(Rw!WriterStep(p)))
    \/ p = "isr" /\ OfSensor(Sensor!IsrStep)
ContextSteps(cs) == \E c \in cs : OfLife(Life!Runs(c) \/ (c = "module" /\ Life!Returns))
Spec ==
    /\ Init /\ [][Next]_allVars
    /\ \A p \in BlockProcs \cup Readers \cup Writers \cup {"isr"} : WF_allVars(ProcStep(p))
    /\ SF_allVars(\E p \in Readers \cup Writers : OfRcu(Rcu!Quiescent(p)))
    /\ \A cs \in ContextSets : WF_allVars(ContextSteps(cs))

(***************************************************************************)
(* Properties: each driver's own                                           *)
(***************************************************************************)
Reading == driver \in {"rcu", "rwlock", "spin_interrupt"}

\* Types.  lab4: who is in the wait queue, and in which order.  lab8/rcu: one
\* writer at a time is past the lock.
TypeOK == (Blocking => Block!WaitQueueOK) /\ (driver = "rcu" => Rcu!RcuTypeOK)
\* lab4: nobody sleeps over data unless a wake-up is on its way.
BlockNoLostWakeup == Blocking => Block!BlockNoLostWakeup
\* lab8: no driver frees what a reader may still use, or what it will hand out.
NoUseAfterFree ==
    /\ driver = "rcu" => Rcu!RcuNoUseAfterFree
    /\ driver = "rwlock" => Rw!RwNoUseAfterFree
    /\ driver = "rculist" => List!ListNoUseAfterFree
\* lab8/rcu, lab3, lab7: what is allocated is in use, and nothing is after unload.
NoLeak ==
    /\ driver = "rcu" => Rcu!RcuNoLeak
    /\ driver = "ch3" => Ch3!Ch3NoLeak
    /\ driver = "spin_interrupt" => Sensor!IntNoLeak
\* lab3: messages are read once and whole, those of the list in order.
MessagesOnce ==
    /\ driver = "ch3" => Ch3!MessagesOnce
    /\ driver = "simple_spin" => Spin!MailWhole
\* lab7: the interrupt follows the opens and closes of the device.
SensorFollowsOpen == driver = "spin_interrupt" => Sensor!SensorFollowsOpen
\* lab6 to lab11: when the module is gone nothing of it runs or waits to run, and
\* what it acquired is given back.
NothingAfterUnload == Life!NothingAfterUnload /\ Life!LifeNoLeak
\* lab6 to lab11: callbacks run when they may: what they use is there while the
\* driver is up, and the sensor's device is open.
ReadyWhenUsed == Life!ReadyWhenUsed /\ Life!LifeSensorFollowsOpen
\* lab9: a distance is measured from the rise of the echo to its fall.
EchoMeasured == Life!EchoMeasured
\* lab6/ch5 and lab7/ch6: the light follows the switch, and goes off.
LightFollows == Life!LightFollows
\* lab8/rwlock: a reader never holds an old cell.  lab8/rculist: a walk meets
\* every element once, in order.
ReadsConsistent ==
    /\ driver = "rwlock" => Rw!RwCurrent
    /\ driver = "rculist" => List!WalkComplete
\* lab4: no update of my_data is lost.  lab8/rculist: no element and no update is.
NothingLost ==
    /\ Blocking => Block!Balance
    /\ driver = "rculist" => List!ListComplete
\* lab4: sleepers get up when there is data.  lab8: readers get through, under RCU
\* even while writers are stuck; an RCU writer's grace period ends, however many
\* reads begin meanwhile, unless a second writer spins.  lab7: the handler ends, on whatever processor it
\* runs, and so do closes.  lab6 to lab11: init and exit return, whatever callbacks
\* they wait for, work is done and an echo is measured.  The actors of a set never
\* wait under the same driver: they share a leads-to.
Waits(a) ==
    \/ Blocking /\ a \in BlockProcs /\ Block!OwedData(a)
    \/ Reading /\ a \in Readers /\ proc[a].pc \in {"deref", "lock", "disable"}
    \/ driver = "spin_interrupt" /\ a = "isr" /\ isr.pc # "idle"
    \/ driver = "rcu" /\ a \in Writers /\ Rcu!Replacing(a)
    \/ Life!LifeWaits(a)
Done(a) ==
    /\ Blocking /\ a \in BlockProcs => proc[a].pc # "asleep"
    /\ Reading /\ a \in Readers => proc[a].pc = "out"
    /\ driver = "spin_interrupt" /\ a = "isr" => isr.pc = "idle"
    /\ driver = "rcu" /\ a \in Writers => ~Rcu!Replacing(a) \/ Rcu!LockedOut
    /\ ~Life!LifeWaits(a)
CallsEnd ==
    \A as \in WaiterSets :
        (\E a \in as : Waits(a)) ~> (\A a \in as : Done(a))
\* lab8/rcu: kfree(old) comes "when there are no more readers" (simple_rcu.c:50).
OldIsFreed ==
    \A w \in Writers : driver = "rcu" /\ proc[w].pc = "sync" ~> proc[w].pc = "out"
=============================================================================
