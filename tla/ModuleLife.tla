----------------------------- MODULE ModuleLife -----------------------------
(***************************************************************************)
(* From insmod to rmmod: the drivers of lab6, lab7, lab9, lab10 and lab11  *)
(* that hand work to the kernel (an interrupt handler, a timer, a tasklet, *)
(* a work item, a thread) and take it back when they are unloaded.         *)
(*                                                                         *)
(* A function of a driver is the sequence of its calls that matter; every  *)
(* context runs the function it is in, one call at a time, so that init,   *)
(* exit and the callbacks interleave.  The actions are the kernel's side.  *)
(***************************************************************************)
EXTENDS Integers, Sequences, FiniteSets

CONSTANTS
    Works,      \* the memory kmalloc has for work items
    MaxEdges    \* bound on interrupts and on changes of a switch

VARIABLES
    driver,     \* which driver it is
    phase,      \* of the module: init, up, exit or gone
    run,        \* per context, the calls its function has still to make
    held,       \* what is acquired and not released
    armed,      \* callbacks the kernel is going to run
    depth,      \* of disable_irq
    edges,      \* interrupts so far
    items,       \* work items allocated and not freed
    led, button, sonar,                        \* the devices and what is read of them
    failed, misfreed, unready, stopped, raced  \* history

lifeVars == <<driver, phase, run, held, armed, depth, edges, items, led, button, sonar,
              failed, misfreed, unready, stopped, raced>>
resVars == <<held, failed, misfreed>>
cbVars == <<armed, stopped, raced>>
devVars == <<led, button, sonar>>

(***************************************************************************)
(* Calls.  needs is what the call takes for granted.                       *)
(***************************************************************************)
Call(op, arg, needs) == [op |-> op, arg |-> arg, needs |-> needs, alt |-> <<>>]
Do(op) == Call(op, "nothing", {})
Request(r) == Call("request", r, {})          \* gpio_request_one, timer_setup, ...
Free(r) == Call("free", r, {})                \* gpio_free, cdev_del, ...
Arm(cb) == Call("arm", cb, {cb})              \* mod_timer, tasklet_schedule, ...
Disarm(cb) == Call("disarm", cb, {})          \* del_timer
Wait(cb) == Call("wait", cb, {})              \* tasklet_kill, synchronize_irq, ...
Led(v) == Call("led", v, {"LED"})
\* A result that is tested; alt is all that is left to do when the call fails.
Try(r, alt) == [Request(r) EXCEPT !.op = "try", !.alt = alt]
\* A test of the pointer that a failed creation left NULL; alt is what it guards.
If(r, alt) == [Do("if") EXCEPT !.arg = r, !.alt = alt]
FreeIrq == <<Free("irq"), Wait("isr")>>
DisableIrq == <<Do("disable"), Wait("isr")>>

(***************************************************************************)
(* The drivers                                                             *)
(***************************************************************************)
SimpleTimer ==
    [init |-> <<Request("timer"), Arm("timer")>>, exit |-> <<Disarm("timer")>>,
     timer |-> <<Arm("timer")>>]

Ch5Once ==                                      \* mutant: no mod_timer
    [init |-> <<Request("LED"), Request("SWITCH"), Request("timer"), Arm("timer")>>,
     exit |-> <<Led("off"), Disarm("timer"), Free("SWITCH"), Free("LED")>>,
     timer |-> <<Do("sample"), Call("show", "LED", {"LED"})>>]
Ch5 ==
    [init |-> <<Request("LED"), Request("SWITCH"), Request("timer"), Arm("timer")>>,
     exit |-> <<Led("off"), Disarm("timer"), Free("SWITCH"), Free("LED")>>,
     timer |-> <<Do("sample"), Call("show", "LED", {"LED"}), Arm("timer")>>]

Ch6TimerLeft ==                                 \* mutant: no del_timer
    [init |-> <<Request("PIR"), Request("LED"), Request("irq"), Request("timer")>>,
     exit |-> DisableIrq \o FreeIrq \o <<Led("off"), Free("PIR"), Free("LED")>>,
     isr |-> <<Led("off"), Led("on"), Arm("timer")>>, timer |-> <<Led("off")>>]
Ch6 ==
    LET rest == <<Request("timer")>>
    IN  [init |-> <<Request("PIR"), Request("LED"), Try("irq", FreeIrq \o rest)>> \o rest,
         exit |-> DisableIrq \o FreeIrq
                    \o <<Led("off"), Free("PIR"), Free("LED"), Disarm("timer")>>,
         isr |-> <<Led("off"), Led("on"), Arm("timer")>>, timer |-> <<Led("off")>>]

SimpleLed == [init |-> <<Request("LED"), Led("on")>>, exit |-> <<Led("off"), Free("LED")>>]

SwitchIrq ==
    [init |-> <<Request("SWITCH"), Try("irq", FreeIrq)>>,
     exit |-> DisableIrq \o FreeIrq \o <<Free("SWITCH")>>, isr |-> <<Do("print")>>]

\* The time of the open is taken after enable_irq.
SimpleSensor ==
    [init |-> <<Request("region"), Request("cdev"), Request("SENSOR1"), Try("irq", FreeIrq)>>
                \o DisableIrq,
     exit |-> <<Free("cdev"), Free("region")>> \o FreeIrq \o <<Free("SENSOR1")>>,
     open |-> <<Do("enable"), Request("start")>>, release |-> DisableIrq,
     isr |-> <<Call("print", "start", {"start"})>>]

SimpleTasklet ==
    [init |-> <<Request("tasklet"), Request("SWITCH"), Try("irq", FreeIrq)>>,
     exit |-> <<Wait("tasklet")>> \o FreeIrq \o <<Free("SWITCH")>>,
     isr |-> <<Arm("tasklet")>>, tasklet |-> <<Do("print")>>]
TmTasklet == SimpleTasklet

SimpleWorkqueueHasty ==                         \* mutant: free_irq after destroy_workqueue
    [init |-> <<Try("wq", <<>>), Request("SWITCH"), Try("irq", FreeIrq)>>,
     exit |-> <<Wait("works"), Free("wq")>> \o FreeIrq \o <<Free("SWITCH")>>,
     isr |-> <<If("wq", <<Call("queue", "wq", {"wq"})>>)>>, work |-> <<Do("fill"), Do("kfree")>>]
SimpleWorkqueue ==
    LET rest == <<Request("SWITCH"), Try("irq", FreeIrq)>>
    IN  [init |-> <<Try("wq", rest)>> \o rest,
         exit |-> FreeIrq \o <<Free("SWITCH"), Wait("works"), Free("wq")>>,
         isr |-> <<If("wq", <<Call("queue", "wq", {"wq"})>>)>>,
         work |-> <<Do("fill"), Do("kfree")>>]

SimpleKthread ==
    [init |-> <<Try("thread", <<Arm("thread")>>), Arm("thread")>>,
     exit |-> <<If("thread", <<Do("stop"), Wait("thread")>>)>>,
     thread |-> <<Do("until_stop")>>]

\* What init has acquired, from the last to the first; Undo(n) leaves out n.
Undo(n) == SubSeq(<<Free("device"), Free("class"), Free("cdev"), Free("region")>>, n + 1, 4)
SimpleSysfs ==
    [init |-> <<Request("region"), Request("cdev"), Try("class", Undo(2) \o <<Do("fail")>>),
                Try("device", Undo(1) \o <<Do("fail")>>), Try("file", Undo(0) \o <<Do("fail")>>)>>,
     exit |-> Undo(0)]

SimpleUltra ==
    [init |-> <<Request("TRIG"), Request("ECHO"), Try("irq", FreeIrq),
                Do("flag_0"), Do("trigger"), Do("flag_1")>>,
     exit |-> FreeIrq, isr |-> <<Do("time"), Do("echo")>>]

Programs ==
    [simple_timer |-> SimpleTimer, ch5 |-> Ch5, ch6 |-> Ch6, simple_led |-> SimpleLed,
     switch_irq |-> SwitchIrq, simple_sensor |-> SimpleSensor, simple_tasklet |-> SimpleTasklet,
     tm_tasklet |-> TmTasklet, simple_workqueue |-> SimpleWorkqueue,
     simple_kthread |-> SimpleKthread, simple_sysfs |-> SimpleSysfs, simple_ultra |-> SimpleUltra]

Callbacks == {"isr", "timer", "tasklet", "thread"} \cup Works
Contexts == {"module", "user"} \cup Callbacks
Code(f) == Programs[driver][f]
Has(f) == f \in DOMAIN Programs[driver]
CodeOf(cb) == IF cb \in Works THEN Code("work") ELSE Code(cb)

LifeInit ==
    /\ driver \in DOMAIN Programs
    /\ phase = "init" /\ run = [c \in Contexts |-> IF c = "module" THEN Code("init") ELSE <<>>]
    /\ held = {} /\ armed = {} /\ depth = 0 /\ edges = 0 /\ items = {} /\ led = "off"
    /\ button = [now |-> "off", read |-> "off"]
    /\ sonar = [line |-> "quiet", flag |-> 3, now |-> "none", start |-> "none", stop |-> "none"]
    /\ failed = {} /\ misfreed = {} /\ unready = {} /\ stopped = {} /\ raced = {}

(***************************************************************************)
(* The steps of a context                                                  *)
(***************************************************************************)
Loaded == phase \notin {"gone", "oops"}     \* a driver's code is there to be run
Running(c) == run[c] # <<>>
Now(c, op) == Loaded /\ Running(c) /\ Head(run[c]).op = op
Arg(c) == Head(run[c]).arg
Needs(c) == Head(run[c]).needs
\* A call made in another place takes nothing for granted that is not held.
When == IF Running("user") THEN "opening" ELSE phase
GoOn(c, calls) ==
    /\ run' = [run EXCEPT ![c] = calls]
    /\ unready' = unready \cup {[who |-> c, what |-> r, when |-> When] : r \in Needs(c) \ held}
    /\ UNCHANGED <<driver, phase, edges>>
Advance(c) == GoOn(c, Tail(run[c]))

Acquire(c) ==
    /\ Now(c, "request") \/ Now(c, "try")
    /\ held' = held \cup {Arg(c)}
    /\ Advance(c)
    /\ UNCHANGED <<failed, misfreed, cbVars, depth, items, devVars>>

AcquireFails(c) ==
    /\ Now(c, "try")
    /\ failed' = failed \cup {Arg(c)}
    /\ GoOn(c, Head(run[c]).alt)
    /\ UNCHANGED <<held, misfreed, cbVars, depth, items, devVars>>

\* free_irq takes back an interrupt that is latched; device_destroy takes the
\* device's file with it.
Within(r) == IF r = "device" THEN {"device", "file"} ELSE {r}
Release(c) ==
    /\ Now(c, "free")
    /\ held' = held \ Within(Arg(c))
    /\ misfreed' = misfreed \cup ({Arg(c)} \ held)
    /\ armed' = IF Arg(c) = "irq" THEN armed \ {"isr"} ELSE armed
    /\ Advance(c)
    /\ UNCHANGED <<failed, stopped, raced, depth, items, devVars>>

TestPointer(c) ==
    /\ Now(c, "if")
    /\ GoOn(c, (IF Arg(c) \in failed THEN <<>> ELSE Head(run[c]).alt) \o Tail(run[c]))
    /\ UNCHANGED <<resVars, cbVars, depth, items, devVars>>

\* A timer that is not set up has no function, and what could not be created is
\* a null pointer: the kernel stops.
Oops(c) ==
    /\ Now(c, "arm") \/ Now(c, "queue")
    /\ ~(Needs(c) \subseteq held)
    /\ phase' = "oops"
    /\ unready' = unready \cup {[who |-> c, what |-> r, when |-> When] : r \in Needs(c) \ held}
    /\ UNCHANGED <<driver, run, resVars, cbVars, depth, edges, items, devVars>>

ArmCallback(c) ==
    /\ Now(c, "arm") /\ Needs(c) \subseteq held
    /\ armed' = armed \cup {Arg(c)}
    /\ raced' = raced \cup ({Arg(c)} \cap stopped)
    /\ Advance(c)
    /\ UNCHANGED <<resVars, stopped, depth, items, devVars>>

\* del_timer neither waits for the timer's function nor keeps it from arming again.
DelTimer(c) ==
    /\ Now(c, "disarm")
    /\ armed' = armed \ {Arg(c)}
    /\ stopped' = stopped \cup {Arg(c)}
    /\ raced' = raced \cup {cb \in {Arg(c)} : Running(cb)}
    /\ Advance(c)
    /\ UNCHANGED <<resVars, depth, items, devVars>>

Idle(cbs) == cbs \cap armed = {} /\ \A cb \in cbs : ~Running(cb)
Awaited(c) == IF Arg(c) = "works" THEN Works ELSE {Arg(c)}
WaitIdle(c) ==
    /\ Now(c, "wait") /\ Idle(Awaited(c))
    /\ stopped' = IF phase = "exit" THEN stopped \cup (Awaited(c) \ Works) ELSE stopped
    /\ Advance(c)
    /\ UNCHANGED <<resVars, armed, raced, depth, items, devVars>>

\* An edge that comes while the interrupt is disabled is delivered when it is
\* enabled again: as if it came then.
SetDepth(c) ==
    /\ \/ Now(c, "disable") /\ depth' = depth + 1 /\ armed' = armed \ {"isr"}
       \/ Now(c, "enable") /\ UNCHANGED armed
            /\ depth' = IF depth = 0 THEN 0 ELSE depth - 1
    /\ Advance(c)
    /\ UNCHANGED <<resVars, stopped, raced, items, devVars>>

\* kmalloc, and when there is memory INIT_WORK and queue_work.
QueueWork(c) ==
    /\ Now(c, "queue") /\ Needs(c) \subseteq held
    /\ \/ \E w \in Works \ items : items' = items \cup {w} /\ armed' = armed \cup {w}
       \/ UNCHANGED <<items, armed>>
    /\ Advance(c)
    /\ UNCHANGED <<resVars, stopped, raced, depth, devVars>>

\* my_work_func sleeps, fills its own item in and frees it.
WorkStep(c) ==
    /\ \/ Now(c, "fill") /\ UNCHANGED items
       \/ Now(c, "kfree") /\ items' = items \ {c}
    /\ Advance(c)
    /\ UNCHANGED <<resVars, cbVars, depth, devVars>>

\* The thread sleeps and looks again until kthread_stop has set its flag.
ThreadStops(c) ==
    /\ Now(c, "until_stop") /\ "thread" \in stopped
    /\ Advance(c)
    /\ UNCHANGED <<resVars, cbVars, depth, items, devVars>>

StopThread(c) ==
    /\ Now(c, "stop")
    /\ stopped' = stopped \cup {"thread"}
    /\ Advance(c)
    /\ UNCHANGED <<resVars, armed, raced, depth, items, devVars>>

Report(c) ==
    /\ Now(c, "print")
    /\ Advance(c)
    /\ UNCHANGED <<resVars, cbVars, depth, items, devVars>>

InitFails(c) ==
    /\ Now(c, "fail")
    /\ phase' = "gone" /\ run' = [run EXCEPT ![c] = <<>>]
    /\ UNCHANGED <<driver, resVars, cbVars, depth, edges, items, devVars, unready>>

\* The pins.
Pins(c) ==
    /\ \/ Now(c, "led") /\ led' = Arg(c) /\ UNCHANGED button
       \/ Now(c, "sample") /\ button' = [button EXCEPT !.read = button.now] /\ UNCHANGED led
       \/ Now(c, "show") /\ led' = button.read /\ UNCHANGED button
    /\ Advance(c)
    /\ UNCHANGED <<resVars, cbVars, depth, items, sonar>>

\* The ultrasonic sensor: the pulse of the trigger, and the handler, which takes
\* the time first and looks at the flag and the line then.
EchoStart == sonar.flag = 1 /\ sonar.line = "high"
EchoStopUnstarted == sonar.flag # 3 /\ sonar.line # "high"  \* mutant: flag 2 not tested
EchoStop == sonar.flag = 2 /\ sonar.line # "high"
Sonar(c) ==
    /\ \/ Now(c, "flag_0") /\ sonar' = [sonar EXCEPT !.flag = 0]
       \/ Now(c, "flag_1") /\ sonar' = [sonar EXCEPT !.flag = 1]
       \/ Now(c, "trigger") /\ sonar' = [sonar EXCEPT !.line = "triggered"]
       \/ Now(c, "time") /\ sonar' = [sonar EXCEPT !.now = sonar.line]
       \/ Now(c, "echo") /\ EchoStart /\ sonar' = [sonar EXCEPT !.start = sonar.now, !.flag = 2]
       \/ Now(c, "echo") /\ EchoStop /\ sonar' = [sonar EXCEPT !.stop = sonar.now, !.flag = 3]
       \/ Now(c, "echo") /\ ~EchoStart /\ ~EchoStop /\ UNCHANGED sonar
    /\ Advance(c)
    /\ UNCHANGED <<resVars, cbVars, depth, items, led, button>>

Step(c) ==
    \/ Acquire(c) \/ AcquireFails(c) \/ Release(c) \/ TestPointer(c) \/ Oops(c)
    \/ ArmCallback(c) \/ DelTimer(c) \/ WaitIdle(c) \/ SetDepth(c) \/ QueueWork(c)
    \/ WorkStep(c) \/ ThreadStops(c) \/ StopThread(c) \/ Report(c) \/ InitFails(c)
    \/ Pins(c) \/ Sonar(c)

(***************************************************************************)
(* The kernel and the world                                                *)
(***************************************************************************)
\* A callback never runs twice at once.
Start(cb) ==
    /\ Loaded /\ cb \in armed /\ ~Running(cb)
    /\ run' = [run EXCEPT ![cb] = CodeOf(cb)]
    /\ armed' = armed \ {cb}
    /\ UNCHANGED <<driver, phase, resVars, stopped, raced, depth, edges, items, devVars, unready>>
Runs(c) == Step(c) \/ (c \in Callbacks /\ Start(c))

LineIsOn == Loaded /\ "irq" \in held /\ depth = 0
Latched == IF LineIsOn THEN armed \cup {"isr"} ELSE armed
Edge ==
    /\ driver # "simple_ultra" /\ LineIsOn /\ edges < MaxEdges
    /\ armed' = Latched /\ edges' = edges + 1
    /\ UNCHANGED <<driver, phase, run, resVars, stopped, raced, depth, items, devVars, unready>>

\* The echo line rises once after the trigger, and falls; both are edges.
Echo ==
    /\ \/ sonar.line = "triggered" /\ sonar' = [sonar EXCEPT !.line = "high"]
       \/ sonar.line = "high" /\ sonar' = [sonar EXCEPT !.line = "low"]
    /\ Loaded /\ armed' = Latched
    /\ UNCHANGED <<driver, phase, run, resVars, stopped, raced, depth, edges, items, led, button,
                   unready>>

Press ==
    /\ driver = "ch5" /\ Loaded /\ edges < MaxEdges
    /\ button' = [button EXCEPT !.now = IF @ = "on" THEN "off" ELSE "on"] /\ edges' = edges + 1
    /\ UNCHANGED <<driver, phase, run, resVars, cbVars, depth, items, led, sonar, unready>>

InitReturns ==
    /\ phase = "init" /\ ~Running("module")
    /\ phase' = "up"
    /\ UNCHANGED <<driver, run, resVars, cbVars, depth, edges, items, devVars, unready>>

\* The device is closed when its module is removed.
Closed == ~Running("user") /\ "opened" \notin held
Unload ==
    /\ phase = "up" /\ Closed
    /\ phase' = "exit" /\ run' = [run EXCEPT !["module"] = Code("exit")]
    /\ UNCHANGED <<driver, resVars, cbVars, depth, edges, items, devVars, unready>>

ExitReturns ==
    /\ phase = "exit" /\ ~Running("module")
    /\ phase' = "gone"
    /\ UNCHANGED <<driver, run, resVars, cbVars, depth, edges, items, devVars, unready>>

\* One process opens the device and closes it, again and again.
Use ==
    /\ phase = "up" /\ Has("open") /\ ~Running("user")
    /\ run' = [run EXCEPT !["user"] = Code(IF Closed THEN "open" ELSE "release")]
    /\ held' = IF Closed THEN held \cup {"opened"} ELSE held \ {"opened"}
    /\ UNCHANGED <<driver, phase, failed, misfreed, cbVars, depth, edges, items, devVars, unready>>

Returns == InitReturns \/ ExitReturns
LifeNext ==
    \/ \E c \in Contexts : Runs(c)
    \/ Edge \/ Echo \/ Press \/ Use \/ Unload \/ Returns

LifeSpec ==
    /\ LifeInit /\ [][LifeNext]_lifeVars /\ WF_lifeVars(Returns)
    /\ \A c \in Contexts : WF_lifeVars(Runs(c))

(***************************************************************************)
(* Properties                                                              *)
(***************************************************************************)
Gone == phase = "gone"
Alive == armed \cup {cb \in Callbacks : Running(cb)}

\* Nothing of a module is left to run when it is gone, except a timer whose
\* function ran while del_timer was called and a tasklet that an interrupt
\* scheduled after tasklet_kill; and the light of ch6 is off, whatever its handler
\* and its timer were doing.
NothingAfterUnload ==
    Gone => /\ Alive \subseteq raced \cap {"timer", "tasklet"}
            /\ driver = "ch6" => led = "off"

\* What is acquired is released, on the error path too; the ultrasonic driver keeps
\* its pins.  Only what could not be had is released without being held: the
\* interrupt and the work queue, whose failure the drivers survive.
InModule == {"timer", "tasklet", "thread", "start"}
LifeNoLeak ==
    /\ Gone => items = {} /\ held \subseteq InModule \cup {"TRIG", "ECHO"}
    /\ misfreed \subseteq failed \cap {"irq", "wq"}

\* While the driver is up every callback finds what it uses set up; the sensor's
\* handler does not find the time of an open that is still in progress.  During
\* init only a handler comes too early, during exit only a timer comes too late.
ReadyWhenUsed ==
    \A u \in unready :
        \/ u.when = "init" /\ u.who = "isr"
        \/ u.when = "init" /\ u.who = "module" /\ "thread" \in failed
        \/ u.when = "exit" /\ u.who = "timer"
        \/ u.when = "opening" /\ u.what = "start"

\* A driver that is up has its handler run only while the device is open.
LifeSensorFollowsOpen ==
    driver = "simple_sensor" /\ phase = "up" /\ Closed => Idle({"isr"}) /\ ~LineIsOn

\* The distance is measured from the rise of the echo to its fall.
EchoMeasured ==
    driver = "simple_ultra" /\ phase = "up" /\ sonar.flag = 3 /\ "irq" \notin failed =>
        sonar.start = "high" /\ sonar.stop = "low"

\* What ends: init and exit, a work item that was queued, and an echo whose start
\* was taken.
LifeWaits(a) ==
    \/ a = "module" /\ phase \in {"init", "exit"}
    \/ a \in items /\ phase # "oops"
    \/ a = "echo" /\ driver = "simple_ultra" /\ sonar.flag = 2 /\ sonar.line = "low" /\ ~Gone

\* The light of ch6 goes off, that of ch5 follows the switch while the driver is up.
LightOwed(v) ==
    \/ driver = "ch6" /\ v = "off" /\ led = "on" /\ phase # "oops"
    \/ driver = "ch5" /\ phase = "up" /\ button.now = v /\ led # v
LightFollows ==
    \A v \in {"on", "off"} : LightOwed(v) ~> ~LightOwed(v)
=============================================================================
