----------------------------- MODULE LifeProofs ----------------------------
(***************************************************************************)
(* Proofs about the drivers of lab6 to lab11 that ModuleLife runs: nothing *)
(* runs after it was unloaded, but for what is named; init and exit use    *)
(* nothing before it is ready; an echo is measured from its start.  The    *)
(* inductive invariant relates what is held, armed and running to the      *)
(* calls that init and exit have still to make.                            *)
(***************************************************************************)
EXTENDS LifeSteps

(***************************************************************************)
(* The types are kept                                                      *)
(***************************************************************************)
RunTypes ==
    /\ run = [k \in Life!Contexts |-> run[k]]
    /\ \A k \in Life!Contexts \ {"module"} : run[k] = <<>> \/ run[k] \in Rests(driver, k)
OtherTypes ==
    /\ armed \subseteq Life!Callbacks /\ \A k \in armed : Rests(driver, k) # {}
    /\ held \subseteq Needed(driver) \cup {"opened", "start"}
    /\ items \subseteq Works /\ depth \in Nat
    /\ led \in {"on", "off"} /\ button \in [now : {"on", "off"}, read : {"on", "off"}]
ModuleTypes ==
    /\ phase \in {"init", "up", "exit", "gone", "oops"}
    /\ phase = "init" => InitOrder(driver, run["module"])
    /\ phase = "exit" => ExitOrder(driver, run["module"])
    /\ phase \in {"up", "gone"} => run["module"] = <<>>
LEMMA TypeParts ==
    LifeTypes <=> driver \in DOMAIN Life!Programs /\ RunTypes /\ OtherTypes /\ ModuleTypes
BY DEF LifeTypes, RunTypes, OtherTypes, ModuleTypes

\* A context other than the module's moves, or the module's.
LEMMA RunsOn ==
    ASSUME LifeTypes, NEW c \in Life!Contexts \ {"module"}, NEW seq, MovesTo(c, seq),
           seq = <<>> \/ seq \in Rests(driver, c), driver' = driver
    PROVE  RunTypes' /\ run'["module"] = run["module"] /\ ToDo' = ToDo
<1>1. "module" \in Life!Contexts \ {c}
  BY ContextNames
<1>2. run'["module"] = run["module"]
  BY <1>1 DEF MovesTo
<1>3. RunTypes'
  BY DEF MovesTo, RunTypes, LifeTypes
<1> QED BY <1>2, <1>3 DEF ToDo
LEMMA ModuleOn ==
    ASSUME LifeTypes, NEW seq, MovesTo("module", seq), driver' = driver
    PROVE  RunTypes' /\ run'["module"] = seq
BY DEF MovesTo, RunTypes, LifeTypes
LEMMA MovesOn ==
    ASSUME LifeTypes, NEW c \in Life!Callbacks, Moves(c), driver' = driver
    PROVE  RunTypes' /\ run'["module"] = run["module"] /\ ToDo' = ToDo
BY RunsOn, ContextNames DEF Moves
LEMMA StaysPut ==
    ASSUME LifeTypes, UNCHANGED <<driver, run>>
    PROVE  RunTypes' /\ run'["module"] = run["module"] /\ ToDo' = ToDo
BY DEF RunTypes, LifeTypes, ToDo

\* What is left of the module's function when another context moves.
LEMMA ModuleStays ==
    ASSUME LifeTypes, driver' = driver, phase' \in {phase, "oops"},
           run'["module"] = run["module"]
    PROVE  ModuleTypes'
BY DEF ModuleTypes, LifeTypes

LEMMA CallbackTypes ==
    ASSUME LifeTypes, NEW c \in Life!Callbacks, CallbackEffect(c)
    PROVE  /\ LifeTypes' /\ driver' = driver /\ phase' \in {phase, "oops"}
           /\ run'["module"] = run["module"] /\ ToDo' = ToDo
           /\ UNCHANGED <<held, failed, misfreed, stopped, depth>>
           /\ \A k \in Life!Contexts \ {c} : run'[k] = run[k]
           /\ phase' = phase \/ Stops
<1> DEFINE Goal ==
        /\ LifeTypes' /\ driver' = driver /\ phase' \in {phase, "oops"}
        /\ run'["module"] = run["module"] /\ ToDo' = ToDo
        /\ UNCHANGED <<held, failed, misfreed, stopped, depth>>
        /\ \A k \in Life!Contexts \ {c} : run'[k] = run[k]
        /\ phase' = phase \/ Stops
<1>1. /\ armed \subseteq Life!Callbacks /\ \A k \in armed : Rests(driver, k) # {}
      /\ held \subseteq Needed(driver) \cup {"opened", "start"}
      /\ items \subseteq Works /\ depth \in Nat
      /\ led \in {"on", "off"} /\ button \in [now : {"on", "off"}, read : {"on", "off"}]
      /\ driver \in DOMAIN Life!Programs
  BY DEF LifeTypes
<1>2. ASSUME Moves(c), UNCHANGED <<driver, phase, held, failed, misfreed, stopped, depth>>,
             OtherTypes'
      PROVE  Goal
  <2>1. RunTypes' /\ run'["module"] = run["module"] /\ ToDo' = ToDo
    BY <1>2, MovesOn
  <2>2. ModuleTypes'
    BY <1>2, <2>1, ModuleStays
  <2>3. LifeTypes'
    BY <1>1, <1>2, <2>1, <2>2 DEF LifeTypes, RunTypes, OtherTypes, ModuleTypes
  <2>4. \A k \in Life!Contexts \ {c} : run'[k] = run[k]
    BY <1>2 DEF Moves, MovesTo
  <2> QED BY <1>2, <2>1, <2>3, <2>4
<1>3. CASE Stops
  <2>1. RunTypes' /\ run'["module"] = run["module"] /\ ToDo' = ToDo
    BY <1>3, StaysPut DEF Stops
  <2>2. ModuleTypes'
    BY <1>3, <2>1, ModuleStays DEF Stops
  <2>3. OtherTypes'
    BY <1>1, <1>3 DEF Stops, OtherTypes
  <2>4. LifeTypes'
    BY <1>1, <1>3, <2>1, <2>2, <2>3 DEF Stops, LifeTypes, RunTypes, OtherTypes, ModuleTypes
  <2> QED BY <1>3, <2>1, <2>4 DEF Stops
<1>4. ASSUME NEW cb \in {"timer", "tasklet"}, Arms(c, cb) PROVE Goal
  <2>1. OtherTypes'
    BY <1>1, <1>4, ContextNames DEF Arms, OtherTypes
  <2> HIDE DEF Goal
  <2> QED BY <1>2, <1>4, <2>1 DEF Arms
<1>5. ASSUME NEW v \in {"on", "off"}, Lights(c, v) PROVE Goal
  <2>1. OtherTypes'
    BY <1>1, <1>5 DEF Lights, OtherTypes
  <2> HIDE DEF Goal
  <2> QED BY <1>2, <1>5, <2>1 DEF Lights
<1>6. ASSUME Idles(c) PROVE Goal
  <2>1. OtherTypes'
    BY <1>1, <1>6 DEF Idles, OtherTypes
  <2> HIDE DEF Goal
  <2> QED BY <1>2, <1>6, <2>1 DEF Idles
<1>7. ASSUME NEW w \in Works, Queues(w), c = "isr" PROVE Goal
  <2>1. Rests("simple_workqueue", w) # {} /\ w \in Life!Callbacks
    BY RestsTable, ContextNames
  <2>2. OtherTypes'
    BY <1>1, <1>7, <2>1 DEF Queues, OtherTypes
  <2>3. Moves(c)
    BY <1>7 DEF Queues
  <2> HIDE DEF Goal
  <2> QED BY <1>2, <1>7, <2>2, <2>3 DEF Queues
<1>8. ASSUME Listens, c = "isr" PROVE Goal
  <2>1. OtherTypes'
    BY <1>1, <1>8 DEF Listens, OtherTypes
  <2>2. Moves(c)
    BY <1>8 DEF Listens
  <2> HIDE DEF Goal
  <2> QED BY <1>2, <1>8, <2>1, <2>2 DEF Listens
<1>9. ASSUME Samples, c = "timer" PROVE Goal
  <2>1. OtherTypes'
    BY <1>1, <1>9 DEF Samples, OtherTypes
  <2>2. Moves(c)
    BY <1>9 DEF Samples
  <2> HIDE DEF Goal
  <2> QED BY <1>2, <1>9, <2>1, <2>2 DEF Samples
<1>10. ASSUME Works1(c) PROVE Goal
  <2>1. OtherTypes'
    BY <1>1, <1>10 DEF Works1, OtherTypes
  <2> HIDE DEF Goal
  <2> QED BY <1>2, <1>10, <2>1 DEF Works1
<1> QED BY <1>3, <1>4, <1>5, <1>6, <1>7, <1>8, <1>9, <1>10 DEF CallbackEffect

\* The same for a callback that starts, and for the steps of init and exit.
LEMMA StartTypes ==
    ASSUME LifeTypes, NEW c \in Life!Callbacks, Starts(c)
    PROVE  /\ LifeTypes' /\ driver' = driver /\ phase' = phase
           /\ run'["module"] = run["module"] /\ ToDo' = ToDo
           /\ \A k \in Life!Contexts \ {c} : run'[k] = run[k]
<1>1. driver' = driver /\ phase' = phase /\ Moves(c)
  BY DEF Starts
<1>2. RunTypes' /\ run'["module"] = run["module"] /\ ToDo' = ToDo
  BY <1>1, MovesOn
<1>3. ModuleTypes'
  BY <1>1, <1>2, ModuleStays
<1>4. OtherTypes'
  BY DEF Starts, OtherTypes, LifeTypes
<1>5. LifeTypes'
  BY <1>1, <1>2, <1>3, <1>4 DEF LifeTypes, RunTypes, OtherTypes, ModuleTypes
<1> QED BY <1>1, <1>2, <1>5 DEF Moves, MovesTo

LEMMA UserTypes ==
    ASSUME LifeTypes, UserEffect
    PROVE  /\ LifeTypes' /\ driver' = driver /\ phase' = phase
           /\ run'["module"] = run["module"] /\ ToDo' = ToDo
           /\ \A k \in Life!Callbacks : run'[k] = run[k]
<1>1. driver = "simple_sensor" /\ driver' = driver /\ phase' = phase
  BY DEF UserEffect, Opens, Notes, Closes, Quiets
<1>2. PICK seq \in {UserCalls.start, UserCalls.wait, <<>>} : MovesTo("user", seq)
  BY DEF UserEffect, Opens, Notes, Closes, Quiets
<1>3. seq = <<>> \/ seq \in Rests(driver, "user")
  BY <1>1, RestsTable DEF UserCalls
<1>4. "user" \in Life!Contexts \ {"module"}
  BY ContextNames
<1>5. RunTypes' /\ run'["module"] = run["module"] /\ ToDo' = ToDo
  BY <1>1, <1>2, <1>3, <1>4, RunsOn
<1>6. ModuleTypes'
  BY <1>1, <1>5, ModuleStays
<1>7. OtherTypes'
  BY DEF UserEffect, Opens, Notes, Closes, Quiets, OtherTypes, LifeTypes
<1>8. LifeTypes'
  BY <1>1, <1>5, <1>6, <1>7 DEF LifeTypes, RunTypes, OtherTypes, ModuleTypes
<1>9. \A k \in Life!Callbacks : k \in Life!Contexts \ {"user"}
  BY ContextNames
<1> QED BY <1>1, <1>2, <1>5, <1>8, <1>9 DEF MovesTo

LEMMA ModuleStepTypes ==
    ASSUME LifeTypes,
           \/ phase = "init" /\ InitEffect /\ (phase' = "init" => InitOrder(driver, run'["module"]))
           \/ phase = "exit" /\ ExitEffect /\ phase' = "exit" /\ ExitOrder(driver, run'["module"])
    PROVE  /\ LifeTypes' /\ driver' = driver /\ items' = items
           /\ \A k \in Life!Contexts \ {"module"} : run'[k] = run[k]
<1>1. CASE Stops
  <2>1. RunTypes' /\ run'["module"] = run["module"] /\ ToDo' = ToDo
    BY <1>1, StaysPut DEF Stops
  <2>2. ModuleTypes'
    BY <1>1, <2>1, ModuleStays DEF Stops
  <2>3. LifeTypes'
    BY <1>1, <2>1, <2>2 DEF Stops, LifeTypes, RunTypes, ModuleTypes
  <2> QED BY <1>1, <2>3 DEF Stops
<1>2. ASSUME MovesTo("module", run'["module"]), driver' = driver, items' = items, OtherTypes',
             \/ phase' = "init" /\ InitOrder(driver, run'["module"])
             \/ phase' = "exit" /\ ExitOrder(driver, run'["module"])
             \/ phase' = "gone" /\ run'["module"] = <<>>
      PROVE  /\ LifeTypes' /\ driver' = driver /\ items' = items
             /\ \A k \in Life!Contexts \ {"module"} : run'[k] = run[k]
  <2>1. RunTypes'
    BY <1>2, ModuleOn
  <2>2. ModuleTypes'
    BY <1>2 DEF ModuleTypes
  <2>3. LifeTypes'
    BY <1>2, <2>1, <2>2 DEF LifeTypes, RunTypes, OtherTypes, ModuleTypes
  <2> QED BY <1>2, <2>3 DEF MovesTo
<1>3. CASE Abandons
  <2>1. OtherTypes'
    BY <1>3 DEF Abandons, OtherTypes, LifeTypes
  <2>2. MovesTo("module", run'["module"]) /\ run'["module"] = <<>> /\ driver' = driver /\ items' = items
    BY <1>3 DEF Abandons, MovesTo
  <2> QED BY <1>2, <1>3, <2>1, <2>2 DEF Abandons
<1>4. CASE /\ ~Stops /\ ~Abandons
  <2>1. /\ Disables \/ (\E r \in Resources : Gets(r) \/ Misses(r) \/ Gives(r))
            \/ (\E cb \in {"timer", "thread"} : Hands(cb))
            \/ (\E cb \in {"isr", "tasklet", "works", "thread"} : Awaits(cb))
            \/ (\E v \in {"on", "off"} : Shines(v))
            \/ (\E op \in {"flag_0", "flag_1", "trigger"} : Tunes(op))
            \/ Disarms \/ Looks \/ TellsThread
    BY <1>4 DEF InitEffect, ExitEffect
  <2>2. /\ MovesTo("module", run'["module"]) /\ driver' = driver /\ items' = items /\ phase' = phase
    BY <2>1 DEF Disables, Gets, Misses, Gives, Hands, Awaits, Shines, Tunes, Disarms, Looks,
                TellsThread, Goes
  <2>3. OtherTypes'
    <3>1. CASE Disables \/ Disarms \/ Looks \/ TellsThread \/ (\E v \in {"on", "off"} : Shines(v))
      BY <3>1 DEF Disables, Disarms, Looks, TellsThread, Shines, Goes, OtherTypes, LifeTypes
    <3>2. CASE \E r \in Resources : Gets(r) \/ Misses(r) \/ Gives(r)
      BY <3>2 DEF Gets, Misses, Gives, Goes, OtherTypes, LifeTypes
    <3>3. CASE \E cb \in {"timer", "thread"} : Hands(cb)
      BY <3>3, ContextNames DEF Hands, Goes, OtherTypes, LifeTypes
    <3>4. CASE \/ \E cb \in {"isr", "tasklet", "works", "thread"} : Awaits(cb)
               \/ \E op \in {"flag_0", "flag_1", "trigger"} : Tunes(op)
      BY <3>4 DEF Awaits, Tunes, Goes, OtherTypes, LifeTypes
    <3> QED BY <2>1, <3>1, <3>2, <3>3, <3>4
  <2> QED BY <1>2, <2>2, <2>3
<1> QED BY <1>1, <1>3, <1>4

LEMMA WorldTypes ==
    ASSUME LifeTypes, WorldEffect
    PROVE  /\ LifeTypes' /\ driver' = driver
           /\ \A k \in Life!Callbacks : run'[k] = run[k]
           /\ phase' \in {"exit"} \/ ToDo' = ToDo
<1>1. CASE UNCHANGED <<driver, phase, run>> /\ (Edges \/ Echoes \/ Presses)
  <2>1. RunTypes' /\ run'["module"] = run["module"] /\ ToDo' = ToDo
    BY <1>1, StaysPut
  <2>2. ModuleTypes'
    BY <1>1, <2>1, ModuleStays
  <2>3. "irq" \in held => Rests(driver, "isr") # {}
    <3>1. driver \in DOMAIN Life!Programs /\ held \subseteq Needed(driver) \cup {"opened", "start"}
      BY DEF LifeTypes
    <3>2. "irq" \in held => driver \in {"ch6"} \cup IrqDrivers
      BY <3>1, DriverNames DEF Needed, Tasklets, IrqDrivers
    <3> QED BY <3>2, RestsTable DEF IrqDrivers
  <2>4. OtherTypes'
    BY <1>1, <2>3, ContextNames DEF Edges, Echoes, Presses, OtherTypes, LifeTypes
  <2>5. LifeTypes'
    BY <1>1, <2>1, <2>2, <2>4 DEF LifeTypes, RunTypes, OtherTypes, ModuleTypes
  <2> QED BY <1>1, <2>1, <2>5
<1>2. CASE Begins \/ Leaves
  <2>1. RunTypes' /\ run'["module"] = <<>> /\ ToDo' = ToDo
    BY <1>2, StaysPut DEF Begins, Leaves
  <2>2. LifeTypes'
    BY <1>2, <2>1 DEF Begins, Leaves, LifeTypes, RunTypes
  <2> QED BY <1>2, <2>1, <2>2 DEF Begins, Leaves
<1>3. CASE Unloads
  <2>1. RunTypes'
    BY <1>3, ModuleOn DEF Unloads
  <2>2. ExitOrder(driver, run'["module"])
    BY <1>3 DEF Unloads, EndsWell
  <2>3. LifeTypes'
    BY <1>3, <2>1, <2>2 DEF Unloads, LifeTypes, RunTypes
  <2>4. \A k \in Life!Callbacks : k \in Life!Contexts \ {"module"}
    BY ContextNames
  <2> QED BY <1>3, <2>3, <2>4 DEF Unloads, MovesTo
<1>4. CASE Uses
  <2>1. driver = "simple_sensor" /\ driver' = driver /\ phase' = phase
    BY <1>4 DEF Uses
  <2>2. PICK seq \in {UserCalls.open, UserCalls.release} : MovesTo("user", seq)
    BY <1>4 DEF Uses
  <2>3. seq \in Rests(driver, "user")
    BY <2>1, RestsTable DEF UserCalls
  <2>4. "user" \in Life!Contexts \ {"module"} /\ \A k \in Life!Callbacks : k \in Life!Contexts \ {"user"}
    BY ContextNames
  <2>5. RunTypes' /\ run'["module"] = run["module"] /\ ToDo' = ToDo
    BY <2>1, <2>2, <2>3, <2>4, RunsOn
  <2>6. ModuleTypes'
    BY <2>1, <2>5, ModuleStays
  <2>7. OtherTypes'
    BY <1>4 DEF Uses, OtherTypes, LifeTypes
  <2>8. LifeTypes'
    BY <2>1, <2>5, <2>6, <2>7 DEF LifeTypes, RunTypes, OtherTypes, ModuleTypes
  <2> QED BY <2>1, <2>2, <2>4, <2>5, <2>8 DEF MovesTo
<1> QED BY <1>1, <1>2, <1>3, <1>4 DEF WorldEffect, Edges, Echoes, Presses

LEMMA TypesKept ==
    ASSUME LifeTypes, LifeEffect
    PROVE  LifeTypes' /\ driver' = driver
BY CallbackTypes, StartTypes, UserTypes, ModuleStepTypes, WorldTypes DEF LifeEffect

(***************************************************************************)
(* What is held                                                            *)
(***************************************************************************)
Failing == phase = "init" /\ Fail \in ToDo
Own == held \ {"opened", "start"}
HeldInv ==
    /\ phase \in {"init", "up"} /\ ~Failing =>
        /\ Own = Needed(driver) \ (Asks(ToDo) \cup failed)
        /\ failed \subseteq {"irq", "wq", "thread"} \cap (Needed(driver) \ Asks(ToDo))
        /\ Frees(ToDo) \subseteq failed \cap {"irq"}
    /\ phase \in {"exit", "gone"} \/ Failing =>
        /\ Own = (Freed(ToDo) \cup (Needed(driver) \cap Stay)) \ failed
        /\ Frees(ToDo) \cap failed \subseteq {"irq", "wq"}
    /\ phase \in {"init", "exit", "gone"} => "opened" \notin held
    /\ held \cap {"opened", "start"} # {} => driver = "simple_sensor"
    /\ misfreed \subseteq failed \cap {"irq", "wq"}

LEMMA NoFileFreed ==
    ASSUME LifeTypes, phase \in {"init", "exit"}
    PROVE  <<"free", "file">> \notin ToDo
<1>1. CASE phase = "init"
  <2>1. run["module"] \in Seq(InitCalls(driver)) /\ driver \in DOMAIN Life!Programs
    BY <1>1 DEF LifeTypes, InitOrder
  <2>2. ASSUME NEW h \in InitCalls(driver) PROVE Act(h) # <<"free", "file">>
    BY <2>1, InitHeads DEF Act
  <2> QED BY <2>1, <2>2 DEF ToDo, Acts
<1>2. CASE phase = "exit"
  <2>1. run["module"] \in Seq(ExitCalls(driver)) /\ driver \in DOMAIN Life!Programs
    BY <1>2 DEF LifeTypes, ExitOrder
  <2>2. ASSUME NEW h \in ExitCalls(driver) PROVE Act(h) # <<"free", "file">>
    BY <2>1, ExitHeads DEF Act
  <2> QED BY <2>1, <2>2 DEF ToDo, Acts
<1> QED BY <1>1, <1>2

LEMMA NothingToDo == Asks({}) = {} /\ Frees({}) = {} /\ Freed({}) = {} /\ Fail \notin {}
BY DEF Asks, Frees, Freed

LEMMA FailingAsks ==
    ASSUME LifeTypes, Failing
    PROVE  Asks(ToDo) = {}
BY DEF LifeTypes, Failing, InitOrder, ToDo

\* A step that leaves alone what is held and what is to be done with it.
LEMMA HeldFrame ==
    ASSUME HeldInv, UNCHANGED <<driver, phase, held, failed, misfreed>>,
           Asks(ToDo') = Asks(ToDo), Frees(ToDo') = Frees(ToDo), Freed(ToDo') = Freed(ToDo),
           Fail \in ToDo' <=> Fail \in ToDo
    PROVE  HeldInv'
BY DEF HeldInv, Failing, Own
LEMMA HeldStops == ASSUME HeldInv, Stops PROVE HeldInv'
BY DEF HeldInv, Stops, Failing

LEMMA OtherCalls ==
    ASSUME NEW op, NEW a, Goes(<<op, a>>), op \notin {"request", "free", "fail"}
    PROVE  /\ Asks(ToDo') = Asks(ToDo) /\ Frees(ToDo') = Frees(ToDo) /\ Freed(ToDo') = Freed(ToDo)
           /\ Fail \in ToDo' <=> Fail \in ToDo
<1>1. ToDo = {<<op, a>>} \cup ToDo'
  BY DEF Goes
<1>2. Fail # <<op, a>> /\ op \notin {"request", "free"}
  BY DEF Fail
<1> DEFINE B == ToDo'
<1> HIDE DEF B
<1>3. LET A == {<<op, a>>} \cup B
      IN  Asks(A) = Asks(B) /\ Frees(A) = Frees(B) /\ Freed(A) = Freed(B)
  BY <1>2 DEF Asks, Frees, Freed
<1>4. ToDo = {<<op, a>>} \cup B
  BY <1>1 DEF B
<1>5. /\ Asks(B) = Asks(ToDo) /\ Frees(B) = Frees(ToDo) /\ Freed(B) = Freed(ToDo)
      /\ Fail \in B <=> Fail \in ToDo
  BY <1>2, <1>3, <1>4
<1> QED BY <1>5 DEF B

LEMMA HeldGets ==
    ASSUME LifeTypes, HeldInv, phase = "init", NEW r \in Resources, Gets(r)
    PROVE  HeldInv'
<1> DEFINE B == ToDo'
<1>1. ToDo = {<<"request", r>>} \cup B /\ <<"request", r>> \notin B
  BY DEF Gets, Goes
<1>2. UNCHANGED <<driver, phase, failed, misfreed>> /\ held' = held \cup {r} /\ r \in Needed(driver)
  BY DEF Gets, Goes
<1> HIDE DEF B
<1>3. /\ Asks(ToDo) = Asks(B) \cup {r} /\ r \notin Asks(B)
      /\ Frees(ToDo) = Frees(B) /\ Freed(ToDo) = Freed(B)
  BY <1>1, AsksAct
<1>4. ~Failing
  BY <1>3, FailingAsks
<1>5. Fail \notin B
  BY <1>1, <1>4 DEF Failing
<1>6. r \notin {"opened", "start"}
  BY DEF Resources
<1>7. /\ Own = Needed(driver) \ (Asks(ToDo) \cup failed)
      /\ failed \subseteq {"irq", "wq", "thread"} \cap (Needed(driver) \ Asks(ToDo))
      /\ Frees(ToDo) \subseteq failed \cap {"irq"}
  BY <1>4 DEF HeldInv
<1>8. /\ Own' = Needed(driver) \ (Asks(B) \cup failed)
      /\ failed \subseteq {"irq", "wq", "thread"} \cap (Needed(driver) \ Asks(B))
      /\ Frees(B) \subseteq failed \cap {"irq"}
  BY <1>2, <1>3, <1>6, <1>7 DEF Own
<1>9. ToDo' = B /\ ~Failing'
  BY <1>5 DEF B, Failing
<1> QED BY <1>2, <1>6, <1>8, <1>9 DEF HeldInv

LEMMA HeldMisses ==
    ASSUME LifeTypes, HeldInv, phase = "init", NEW r \in Resources, Misses(r)
    PROVE  HeldInv'
<1> DEFINE T == ToDo'
<1>1. PICK B : /\ ToDo = {<<"request", r>>} \cup B /\ <<"request", r>> \notin B
               /\ Survives(r, B) \/ GivesUp(r, B)
  BY DEF Misses
<1>2. UNCHANGED <<driver, phase, held, misfreed>> /\ failed' = failed \cup {r} /\ r \in Needed(driver)
  BY DEF Misses
<1>3. /\ Asks(ToDo) = Asks(B) \cup {r} /\ r \notin Asks(B)
      /\ Frees(ToDo) = Frees(B) /\ Freed(ToDo) = Freed(B)
  BY <1>1, AsksAct
<1>4. ~Failing
  BY <1>3, FailingAsks
<1>5. /\ Own = Needed(driver) \ (Asks(ToDo) \cup failed)
      /\ failed \subseteq {"irq", "wq", "thread"} \cap (Needed(driver) \ Asks(ToDo))
      /\ Frees(ToDo) \subseteq failed \cap {"irq"}
  BY <1>4 DEF HeldInv
<1>6. CASE Survives(r, B)
  <2>1. /\ r \in {"irq", "wq", "thread"} /\ Fail \notin T
        /\ Asks(T) = Asks(B) /\ Frees(T) \subseteq {r} \cap {"irq"}
    BY <1>6 DEF Survives
  <2> HIDE DEF T
  <2>2. /\ Own' = Needed(driver) \ (Asks(T) \cup failed')
        /\ failed' \subseteq {"irq", "wq", "thread"} \cap (Needed(driver) \ Asks(T))
        /\ Frees(T) \subseteq failed' \cap {"irq"}
    BY <1>2, <1>3, <1>5, <2>1 DEF Own
  <2>3. ToDo' = T /\ ~Failing'
    BY <2>1 DEF T, Failing
  <2> QED BY <1>2, <2>2, <2>3 DEF HeldInv
<1>7. CASE GivesUp(r, B)
  <2>1. /\ driver = "simple_sysfs" /\ r \in {"class", "device", "file"} /\ Fail \in T
        /\ Freed(T) \ {r} = Needed(driver) \ (Asks(B) \cup {r})
        /\ r \notin Frees(T)
    BY <1>7 DEF GivesUp
  <2>2. failed = {} /\ Needed(driver) \cap Stay = {}
    <3>1. Needed(driver) = {"region", "cdev", "class", "device", "file"}
      BY <2>1 DEF Needed, Tasklets
    <3> QED BY <1>5, <3>1 DEF Stay
  <2> HIDE DEF T
  <2>3. /\ Own' = (Freed(T) \cup (Needed(driver) \cap Stay)) \ failed'
        /\ Frees(T) \cap failed' \subseteq {"irq", "wq"}
    BY <1>2, <1>3, <1>5, <2>1, <2>2 DEF Own
  <2>4. ToDo' = T /\ Failing'
    BY <1>2, <2>1 DEF T, Failing
  <2> QED BY <1>2, <2>3, <2>4 DEF HeldInv
<1> QED BY <1>1, <1>6, <1>7

LEMMA HeldGives ==
    ASSUME LifeTypes, HeldInv, phase \in {"init", "exit"}, NEW r \in Resources, Gives(r)
    PROVE  HeldInv'
<1> DEFINE B == ToDo'
<1>1. ToDo = {<<"free", r>>} \cup B /\ <<"free", r>> \notin B /\ <<"free", "file">> \notin B
  BY NoFileFreed DEF Gives, Goes
<1>2. /\ UNCHANGED <<driver, phase, failed>> /\ held' = held \ Life!Within(r)
      /\ misfreed' = misfreed \cup ({r} \ held) /\ r \notin Stay \cup {"file"}
  BY DEF Gives, Goes
<1>3. ToDo' = B
  OBVIOUS
<1> HIDE DEF B
<1>4. /\ Asks(ToDo) = Asks(B) /\ Frees(ToDo) = Frees(B) \cup {r}
      /\ Freed(ToDo) = Freed(B) \cup Life!Within(r)
      /\ r # "device" => Life!Within(r) = {r}
      /\ Freed(B) = Freed(ToDo) \ Life!Within(r)
  BY <1>1, <1>2, FreesAct
<1>5. Fail \in B <=> Fail \in ToDo
  BY <1>1 DEF Fail
<1>6. r \in Life!Within(r) /\ Life!Within(r) \cap Stay = {} /\ Life!Within(r) \cap {"opened", "start"} = {}
  BY <1>2 DEF Life!Within, Stay, Resources
<1>7. Failing' <=> Failing
  BY <1>2, <1>3, <1>5 DEF Failing
<1>8. CASE phase = "init" /\ ~Failing
  <2>1. /\ Own = Needed(driver) \ (Asks(ToDo) \cup failed)
        /\ failed \subseteq {"irq", "wq", "thread"} \cap (Needed(driver) \ Asks(ToDo))
        /\ Frees(ToDo) \subseteq failed \cap {"irq"}
    BY <1>8 DEF HeldInv
  <2>2. r = "irq" /\ r \in failed /\ r \notin held /\ Life!Within(r) = {r}
    BY <1>4, <2>1 DEF Own
  <2>3. Own' = Needed(driver) \ (Asks(B) \cup failed) /\ Frees(B) \subseteq failed \cap {"irq"}
    BY <1>2, <1>4, <2>1, <2>2 DEF Own
  <2>4. misfreed' \subseteq failed \cap {"irq", "wq"}
    BY <1>2, <2>2 DEF HeldInv
  <2> QED BY <1>2, <1>3, <1>4, <1>6, <1>7, <1>8, <2>1, <2>2, <2>3, <2>4 DEF HeldInv
<1>9. CASE phase = "exit" \/ Failing
  <2>1. /\ Own = (Freed(ToDo) \cup (Needed(driver) \cap Stay)) \ failed
        /\ Frees(ToDo) \cap failed \subseteq {"irq", "wq"}
    BY <1>9 DEF HeldInv
  <2>2. Own' = (Freed(B) \cup (Needed(driver) \cap Stay)) \ failed
    BY <1>2, <1>4, <1>6, <2>1 DEF Own
  <2>3. Frees(B) \cap failed \subseteq {"irq", "wq"}
    BY <1>4, <2>1
  <2>4. r \notin held => r \in failed \cap {"irq", "wq"}
    BY <1>4, <1>6, <2>1 DEF Own
  <2>5. misfreed' \subseteq failed \cap {"irq", "wq"}
    BY <1>2, <2>4 DEF HeldInv
  <2> QED BY <1>2, <1>3, <1>6, <1>7, <1>9, <2>2, <2>3, <2>5 DEF HeldInv, Failing
<1> QED BY <1>8, <1>9

LEMMA HeldModule ==
    ASSUME LifeTypes, HeldInv,
           (phase = "init" /\ InitEffect) \/ (phase = "exit" /\ ExitEffect)
    PROVE  HeldInv'
<1>1. ASSUME NEW op, NEW a, Goes(<<op, a>>), op \notin {"request", "free", "fail"},
             UNCHANGED <<held, failed, misfreed>>
      PROVE  HeldInv'
  BY <1>1, OtherCalls, HeldFrame DEF Goes
<1>2. CASE Looks
  <2>1. Asks(ToDo') = {} /\ Frees(ToDo') = {} /\ Freed(ToDo') = {} /\ Fail \notin ToDo'
    BY <1>2 DEF Looks, Asks, Frees, Freed, Fail
  <2>2. Asks(ToDo) = {} /\ Frees(ToDo) = {} /\ Freed(ToDo) = {} /\ Fail \notin ToDo
    BY <1>2 DEF Looks, Asks, Frees, Freed, Fail
  <2> QED BY <1>2, <2>1, <2>2, HeldFrame DEF Looks
<1>3. CASE Abandons
  <2>1. ToDo' = {}
    BY <1>3, NoActs DEF Abandons, MovesTo, ToDo
  <2>2. Freed(ToDo) = {} /\ Fail \in ToDo
    BY <1>3 DEF Abandons, Freed, Fail
  <2>3. phase = "init"
    BY <1>3 DEF Abandons, ExitEffect, Disables, Shines, Disarms, Looks, TellsThread, Gives, Awaits, Goes
  <2> QED BY <1>3, <2>1, <2>2, <2>3, NothingToDo DEF Abandons, HeldInv, Failing, Own
<1>4. CASE Disables
  BY <1>1, <1>4 DEF Disables
<1>5. ASSUME NEW v, Shines(v) PROVE HeldInv'
  BY <1>1, <1>5 DEF Shines
<1>6. CASE Disarms
  BY <1>1, <1>6 DEF Disarms
<1>7. CASE TellsThread
  BY <1>1, <1>7 DEF TellsThread
<1>8. ASSUME NEW cb, Hands(cb) PROVE HeldInv'
  BY <1>1, <1>8 DEF Hands
<1>9. ASSUME NEW cb, Awaits(cb) PROVE HeldInv'
  BY <1>1, <1>9 DEF Awaits
<1>10. ASSUME NEW op \in {"flag_0", "flag_1", "trigger"}, Tunes(op) PROVE HeldInv'
  BY <1>1, <1>10 DEF Tunes
<1> QED BY <1>2, <1>3, <1>4, <1>5, <1>6, <1>7, <1>8, <1>9, <1>10, HeldStops, HeldGets, HeldMisses,
           HeldGives DEF InitEffect, ExitEffect

LEMMA HeldWorld ==
    ASSUME LifeTypes, HeldInv, WorldEffect
    PROVE  HeldInv'
<1>1. CASE Edges \/ Echoes \/ Presses
  BY <1>1, HeldFrame DEF Edges, Echoes, Presses, ToDo
<1>2. CASE Begins
  <2>1. ToDo = {} /\ ToDo' = {}
    BY <1>2, NoActs DEF Begins, ToDo
  <2> QED BY <1>2, <2>1 DEF Begins, HeldInv, Failing, Own
<1>3. CASE Leaves
  <2>1. ToDo = {} /\ ToDo' = {}
    BY <1>3, NoActs DEF Leaves, ToDo
  <2> QED BY <1>3, <2>1 DEF Leaves, HeldInv, Failing, Own
<1>4. CASE Unloads
  <2>1. ToDo = {}
    BY <1>4, NoActs DEF Unloads, ToDo, LifeTypes
  <2>2. /\ Own = Needed(driver) \ failed
        /\ failed \subseteq {"irq", "wq", "thread"}
    BY <1>4, <2>1, NothingToDo DEF Unloads, HeldInv, Failing
  <2>3. Freed(ToDo') = Needed(driver) \ Stay
    BY <1>4 DEF Unloads, EndsWell, ToDo
  <2>4. Frees(ToDo') \subseteq Freed(ToDo')
    BY DEF Frees, Freed
  <2>5. "thread" \in Stay
    BY DEF Stay
  <2>6. phase' = "exit" /\ UNCHANGED <<driver, held, failed, misfreed>> /\ "opened" \notin held
    BY <1>4 DEF Unloads
  <2>7. /\ Own' = (Freed(ToDo') \cup (Needed(driver) \cap Stay)) \ failed
        /\ Frees(ToDo') \cap failed \subseteq {"irq", "wq"}
    BY <2>2, <2>3, <2>4, <2>5, <2>6 DEF Own
  <2> QED BY <2>6, <2>7 DEF HeldInv, Failing
<1>5. CASE Uses
  <2>1. UNCHANGED <<driver, phase, failed, misfreed>> /\ phase = "up" /\ driver = "simple_sensor"
    BY <1>5 DEF Uses
  <2>2. Own' = Own
    BY <1>5 DEF Uses, Own
  <2>3. ToDo' = ToDo
    <3>1. "module" \in Life!Contexts \ {"user"}
      BY ContextNames
    <3> QED BY <1>5, <3>1 DEF Uses, MovesTo, ToDo
  <2> QED BY <2>1, <2>2, <2>3 DEF HeldInv, Failing
<1> QED BY <1>1, <1>2, <1>3, <1>4, <1>5 DEF WorldEffect

LEMMA HeldKept ==
    ASSUME LifeTypes, HeldInv, LifeEffect
    PROVE  HeldInv'
<1>1. CASE UserEffect
  <2>1. driver = "simple_sensor" /\ driver' = driver /\ phase' = phase /\ ToDo' = ToDo
    BY <1>1, UserTypes DEF UserEffect
  <2>2. UNCHANGED <<failed, misfreed>> /\ Own' = Own /\ ("opened" \in held' <=> "opened" \in held)
    BY <1>1 DEF UserEffect, Opens, Notes, Closes, Quiets, Own
  <2> QED BY <2>1, <2>2 DEF HeldInv, Failing
<1>2. ASSUME NEW c \in Life!Callbacks, CallbackEffect(c) PROVE HeldInv'
  <2>1. CASE Stops
    BY <2>1, HeldStops
  <2>2. CASE ~Stops
    BY <1>2, <2>2, CallbackTypes, HeldFrame
  <2> QED BY <2>1, <2>2
<1>3. ASSUME NEW cb \in Life!Callbacks, Starts(cb) PROVE HeldInv'
  BY <1>3, StartTypes, HeldFrame DEF Starts
<1>4. CASE (phase = "init" /\ InitEffect) \/ (phase = "exit" /\ ExitEffect)
  BY <1>4, HeldModule
<1>5. CASE WorldEffect
  BY <1>5, HeldWorld
<1> QED BY <1>1, <1>2, <1>3, <1>4, <1>5 DEF LifeEffect

(***************************************************************************)
(* What may run, and what init and exit have then still to do              *)
(***************************************************************************)
IsAlive(k) == k \in armed \/ run[k] # <<>>
WaitIsr == <<"wait", "isr">>
IsrInv ==
    /\ "isr" \in armed => "irq" \in held
    /\ phase # "oops" /\ run["isr"] # <<>> => "irq" \in held \/ (phase = "exit" /\ WaitIsr \in ToDo)
    /\ driver = "simple_workqueue" /\ run["isr"] = QueueCalls => "wq" \notin failed
WorksInv ==
    /\ \A w \in Works : /\ w \in items <=> IsAlive(w)
                        /\ ~(w \in armed /\ run[w] # <<>>)
    /\ items # {} => driver = "simple_workqueue"
    /\ phase \in {"exit", "gone"} => items = {} \/ <<"wait", "works">> \in ToDo
ThreadInv ==
    IsAlive("thread") =>
    /\ "thread" \in held
    /\ phase \in {"exit", "gone"} => <<"if", "thread">> \in ToDo \/ <<"wait", "thread">> \in ToDo
Stopper(cb) == IF cb = "timer" THEN <<"disarm", "timer">> ELSE <<"wait", "tasklet">>
TimerInv ==
    \A cb \in {"timer", "tasklet"} :
        /\ IsAlive(cb) => cb \in held /\ (cb \in stopped => cb \in raced)
        /\ phase \in {"exit", "gone"} /\ cb \in held => cb \in stopped \/ Stopper(cb) \in ToDo
LedInv ==
    driver = "ch6" /\ phase \in {"exit", "gone"} /\ <<"led", "off">> \notin ToDo => led = "off"

LEMMA ToDoKeeps ==
    ASSUME LifeTypes
    PROVE  /\ phase = "init" => InitKeeps(driver, ToDo)
           /\ phase = "exit" => ExitKeeps(driver, ToDo)
           /\ phase \in {"up", "gone"} => ToDo = {}
BY InitOrderKeeps, ExitOrderKeeps, NoActs DEF LifeTypes, ToDo

\* Only simple_sysfs gives up.
LEMMA FailDriver ==
    ASSUME LifeTypes, Failing
    PROVE  driver = "simple_sysfs"
<1>1. run["module"] \in Seq(InitCalls(driver)) /\ driver \in DOMAIN Life!Programs
  BY DEF LifeTypes, InitOrder, Failing
<1>2. PICK i \in 1..Len(run["module"]) : Act(run["module"][i]) = Fail
  BY DEF Failing, ToDo, Acts
<1>3. run["module"][i] \in InitCalls(driver)
  BY <1>1
<1>4. run["module"][i].op = "fail"
  BY <1>2, <1>3, InitHeads, <1>1 DEF Act, Fail
<1> QED BY <1>1, <1>3, <1>4, InitHeads

LEMMA NeededSysfs == Needed("simple_sysfs") = {"region", "cdev", "class", "device", "file"}
BY DEF Needed, Tasklets

\* Names.
LEMMA Others ==
    /\ {"isr", "timer", "tasklet", "thread"} \subseteq Life!Callbacks \cap Life!Contexts
    /\ \A k \in Life!Callbacks : k \in Life!Contexts \ {"module", "user"}
    /\ \A w \in Works : w \in Life!Callbacks /\ w \notin {"isr", "timer", "tasklet", "thread"}
BY ContextNames

\* A handler that runs while exit does is going to be waited for.
LEMMA ExitWaits ==
    ASSUME LifeTypes, HeldInv, IsrInv, phase = "exit", run["isr"] # <<>>
    PROVE  WaitIsr \in ToDo
<1>1. ExitKeeps(driver, ToDo)
  BY ToDoKeeps
<1>2. CASE "irq" \in held
  <2>1. "irq" \in Own
    BY <1>2 DEF Own
  <2>2. "irq" \in Freed(ToDo)
    BY <2>1 DEF HeldInv, Stay
  <2>3. <<"free", "irq">> \in ToDo
    BY <2>2 DEF Freed
  <2> QED BY <1>1, <2>3 DEF ExitKeeps, WaitIsr
<1> QED BY <1>2 DEF IsrInv

\* init asks for nothing that is held.
LEMMA AsksUnheld ==
    ASSUME LifeTypes, HeldInv, phase = "init", NEW r \in Resources, <<"request", r>> \in ToDo
    PROVE  r \notin held
<1>1. r \in Asks(ToDo)
  BY DEF Asks
<1>2. ~Failing
  BY <1>1, FailingAsks
<1>3. r \notin Own /\ r \notin {"opened", "start"}
  BY <1>1, <1>2 DEF HeldInv, Resources
<1> QED BY <1>3 DEF Own

LEMMA WithinStays == \A r : r \notin Stay => Life!Within(r) \cap (Stay \cup {"irq"}) = {r} \cap {"irq"}
BY DEF Life!Within, Stay

(***************************************************************************)
(* The handler                                                             *)
(***************************************************************************)
LEMMA IsrModule ==
    ASSUME LifeTypes, HeldInv, IsrInv, run'["isr"] = run["isr"], driver' = driver,
           (phase = "init" /\ InitEffect) \/ (phase = "exit" /\ ExitEffect)
    PROVE  IsrInv'
<1>1. ASSUME NEW x, Goes(x), x # WaitIsr, held \subseteq held', failed' = failed,
             "isr" \in armed' => "isr" \in armed
      PROVE  IsrInv'
  BY <1>1 DEF IsrInv, Goes
<1>2. CASE Stops
  BY <1>2 DEF Stops, IsrInv
<1>3. CASE Abandons
  BY <1>3 DEF Abandons, IsrInv, ExitEffect, Disables, Shines, Disarms, Looks, TellsThread, Gives,
              Awaits, Goes
<1>4. CASE Looks
  BY <1>4 DEF Looks, IsrInv, WaitIsr
<1>5. ASSUME NEW cb, Awaits(cb) PROVE IsrInv'
  <2>1. CASE cb = "isr"
    BY <1>5, <2>1 DEF Awaits, AwaitedOf, IsrInv, Goes, QueueCalls
  <2>2. CASE cb # "isr"
    BY <1>1, <1>5, <2>2 DEF Awaits, WaitIsr
  <2> QED BY <2>1, <2>2
<1>6. ASSUME NEW r \in Resources, Gets(r) PROVE IsrInv'
  BY <1>1, <1>6 DEF Gets, WaitIsr
<1>7. ASSUME NEW r \in Resources, Misses(r), phase = "init" PROVE IsrInv'
  <2>1. UNCHANGED <<driver, phase, held, armed, run["isr"]>> /\ failed' = failed \cup {r}
    BY <1>7 DEF Misses
  <2>2. <<"request", r>> \in ToDo
    BY <1>7 DEF Misses
  <2>3. CASE r = "wq" /\ driver = "simple_workqueue"
    <3>1. <<"request", "irq">> \in ToDo
      BY <1>7, <2>2, <2>3, ToDoKeeps DEF InitKeeps
    <3>2. "irq" \notin held
      BY <1>7, <3>1, AsksUnheld DEF Resources
    <3>3. run["isr"] = <<>>
      BY <1>7, <3>2 DEF IsrInv
    <3> QED BY <1>7, <2>1, <3>3 DEF IsrInv, QueueCalls
  <2>4. CASE ~(r = "wq" /\ driver = "simple_workqueue")
    BY <1>7, <2>1, <2>4 DEF IsrInv
  <2> QED BY <2>3, <2>4
<1>8. ASSUME NEW r \in Resources, Gives(r) PROVE IsrInv'
  <2>1. /\ ToDo = {<<"free", r>>} \cup ToDo' /\ UNCHANGED <<driver, phase, failed>>
        /\ held' = held \ Life!Within(r) /\ r \notin Stay /\ r \in Needed(driver)
        /\ armed' = IF r = "irq" THEN armed \ {"isr"} ELSE armed
    BY <1>8 DEF Gives, Goes
  <2>2. WaitIsr \in ToDo => WaitIsr \in ToDo'
    BY <2>1 DEF WaitIsr
  <2>3. CASE r # "irq"
    <3>1. "irq" \in held => "irq" \in held'
      BY <2>1, <2>3, WithinStays
    <3> QED BY <2>1, <2>2, <2>3, <3>1 DEF IsrInv
  <2>4. CASE r = "irq" /\ phase = "exit"
    BY <2>1, <2>2, <2>4, ExitWaits DEF IsrInv
  <2>5. CASE r = "irq" /\ phase = "init"
    <3>1. ~Failing
      <4>1. "irq" \notin Needed("simple_sysfs")
        BY NeededSysfs
      <4> QED BY <2>1, <2>5, <4>1, FailDriver
    <3>2. "irq" \in Frees(ToDo)
      BY <2>1, <2>5 DEF Frees
    <3>3. "irq" \notin held
      BY <2>5, <3>1, <3>2 DEF HeldInv, Own
    <3>4. run["isr"] = <<>>
      BY <2>5, <3>3 DEF IsrInv
    <3> QED BY <2>1, <2>5, <3>4 DEF IsrInv, QueueCalls
  <2> QED BY <2>3, <2>4, <2>5
<1>9. CASE Disables \/ Disarms \/ TellsThread
  <2>1. PICK x \in {<<"disable", "nothing">>, <<"disarm", "timer">>, <<"stop", "nothing">>} : Goes(x)
    BY <1>9 DEF Disables, Disarms, TellsThread
  <2>2. x # WaitIsr
    BY DEF WaitIsr
  <2> QED BY <1>1, <1>9, <2>1, <2>2 DEF Disables, Disarms, TellsThread
<1>10. ASSUME NEW v, Shines(v) PROVE IsrInv'
  BY <1>1, <1>10 DEF Shines, WaitIsr
<1>11. ASSUME NEW cb, Hands(cb) PROVE IsrInv'
  BY <1>1, <1>11 DEF Hands, WaitIsr
<1>12. ASSUME NEW op \in {"flag_0", "flag_1", "trigger"}, Tunes(op) PROVE IsrInv'
  BY <1>1, <1>12 DEF Tunes, WaitIsr
<1>13. CASE phase = "init" /\ InitEffect
  BY <1>2, <1>3, <1>5, <1>6, <1>7, <1>8, <1>9, <1>10, <1>11, <1>12, <1>13 DEF InitEffect
<1>14. CASE phase = "exit" /\ ExitEffect
  BY <1>4, <1>5, <1>8, <1>9, <1>10, <1>14 DEF ExitEffect
<1> QED BY <1>13, <1>14

LEMMA IsrKept ==
    ASSUME LifeTypes, HeldInv, IsrInv, LifeEffect
    PROVE  IsrInv'
<1>1. CASE \/ phase = "init" /\ InitEffect /\ (phase' = "init" => InitOrder(driver, run'["module"]))
           \/ phase = "exit" /\ ExitEffect /\ phase' = "exit" /\ ExitOrder(driver, run'["module"])
  <2>1. run'["isr"] = run["isr"] /\ driver' = driver
    BY <1>1, ModuleStepTypes, Others
  <2> QED BY <1>1, <2>1, IsrModule
<1>2. CASE UserEffect
  <2>1. /\ driver = "simple_sensor" /\ driver' = driver /\ phase' = phase /\ ToDo' = ToDo
        /\ run'["isr"] = run["isr"]
    BY <1>2, UserTypes, Others DEF UserEffect
  <2>2. held \subseteq held' /\ ("isr" \in armed' => "isr" \in armed)
    BY <1>2 DEF UserEffect, Opens, Notes, Closes, Quiets
  <2> QED BY <2>1, <2>2 DEF IsrInv
<1>3. ASSUME NEW c \in Life!Callbacks, run[c] # <<>>, CallbackEffect(c) PROVE IsrInv'
  <2>1. /\ driver' = driver /\ phase' \in {phase, "oops"} /\ ToDo' = ToDo
        /\ UNCHANGED <<held, failed>> /\ \A k \in Life!Contexts \ {c} : run'[k] = run[k]
    BY <1>3, CallbackTypes
  <2>2. "isr" \in armed' => "isr" \in armed
    BY <1>3, Others DEF CallbackEffect, Stops, Arms, Lights, Idles, Queues, Listens, Samples, Works1
  <2>3. run'["isr"] # <<>> => run["isr"] # <<>>
    BY <1>3, <2>1, Others
  <2>4. driver = "simple_workqueue" /\ run'["isr"] = QueueCalls => "wq" \notin failed
    <3>1. CASE c # "isr"
      BY <2>1, <3>1, Others DEF IsrInv
    <3>2. CASE c = "isr"
      <4>1. QueueCalls # <<>>
        BY DEF QueueCalls
      <4> QED BY <1>3, <3>2, <4>1, Others
              DEF CallbackEffect, Stops, Arms, Queues, IsrInv
    <3> QED BY <3>1, <3>2
  <2> QED BY <2>1, <2>2, <2>3, <2>4 DEF IsrInv
<1>4. ASSUME NEW cb \in Life!Callbacks, Starts(cb) PROVE IsrInv'
  <2>1. /\ driver' = driver /\ phase' = phase /\ ToDo' = ToDo
        /\ \A k \in Life!Contexts \ {cb} : run'[k] = run[k]
    BY <1>4, StartTypes
  <2>2. CASE cb = "isr"
    BY <1>4, <2>1, <2>2 DEF Starts, IsrInv
  <2>3. CASE cb # "isr"
    <3>1. run'["isr"] = run["isr"]
      BY <2>1, <2>3, Others
    <3> QED BY <1>4, <2>1, <3>1 DEF Starts, IsrInv
  <2> QED BY <2>2, <2>3
<1>5. CASE WorldEffect
  <2>1. driver' = driver /\ run'["isr"] = run["isr"] /\ (phase' = "exit" \/ ToDo' = ToDo)
    BY <1>5, WorldTypes, Others
  <2>2. CASE Edges \/ Echoes \/ Presses
    <3>1. UNCHANGED <<phase, held, failed>> /\ ToDo' = ToDo
      BY <2>2 DEF Edges, Echoes, Presses, ToDo
    <3>2. "isr" \in armed' => "irq" \in held
      BY <2>2 DEF Edges, Echoes, Presses, IsrInv
    <3> QED BY <2>1, <3>1, <3>2 DEF IsrInv
  <2>3. CASE Begins \/ Unloads
    BY <2>1, <2>3 DEF Begins, Unloads, IsrInv
  <2>4. CASE Leaves
    <3>1. ToDo = {}
      BY <2>4, NoActs DEF Leaves, ToDo
    <3> QED BY <2>1, <2>4, <3>1 DEF Leaves, IsrInv
  <2>5. CASE Uses
    <3>1. "irq" \in held => "irq" \in held'
      BY <2>5 DEF Uses
    <3> QED BY <2>1, <2>5, <3>1 DEF Uses, IsrInv
  <2> QED BY <1>5, <2>2, <2>3, <2>4, <2>5 DEF WorldEffect
<1> QED BY <1>1, <1>2, <1>3, <1>4, <1>5 DEF LifeEffect

(***************************************************************************)
(* Work items                                                              *)
(***************************************************************************)
ModuleEffect ==
    \/ phase = "init" /\ InitEffect /\ (phase' = "init" => InitOrder(driver, run'["module"]))
    \/ phase = "exit" /\ ExitEffect /\ phase' = "exit" /\ ExitOrder(driver, run'["module"])

\* What no step of init or exit changes, with the call x that it makes.
LEMMA ModuleCalls ==
    ASSUME ModuleEffect
    PROVE  \/ Stops
           \/ Abandons /\ phase = "init"
           \/ Looks /\ phase = "exit"
           \/ \E r \in Resources : Misses(r) /\ phase = "init"
           \/ /\ phase' = phase
              /\ \/ Disables \/ Disarms \/ TellsThread
                 \/ \E r \in Resources : Gets(r) /\ phase = "init"
                 \/ \E r \in Resources : Gives(r)
                 \/ \E cb \in {"timer", "thread"} : Hands(cb) /\ phase = "init"
                 \/ \E cb \in {"isr", "tasklet", "works", "thread"} : Awaits(cb)
                 \/ \E v \in {"on", "off"} : Shines(v) /\ (phase = "exit" => v = "off")
                 \/ \E op \in {"flag_0", "flag_1", "trigger"} : Tunes(op) /\ phase = "init"
<1>1. CASE phase = "init" /\ InitEffect
  BY <1>1 DEF InitEffect, Disables, Gets, Gives, Hands, Awaits, Shines, Tunes, Goes
<1>2. CASE phase = "exit" /\ ExitEffect
  BY <1>2 DEF ExitEffect, Disables, Disarms, TellsThread, Gives, Awaits, Shines, Goes
<1> QED BY <1>1, <1>2 DEF ModuleEffect

LEMMA WorksKept ==
    ASSUME LifeTypes, HeldInv, IsrInv, WorksInv, LifeEffect
    PROVE  WorksInv'
<1>0. ASSUME driver' = driver, items' = items, \A w \in Works : run'[w] = run[w],
             armed' \cap Works = armed \cap Works,
             phase' \in {"exit", "gone"} => items = {} \/ <<"wait", "works">> \in ToDo'
      PROVE  WorksInv'
  BY <1>0 DEF WorksInv, IsAlive
<1>1. CASE ModuleEffect
  <2>1. driver' = driver /\ items' = items /\ \A w \in Works : run'[w] = run[w]
    BY <1>1, ModuleStepTypes, Others DEF ModuleEffect
  <2>2. ASSUME NEW x, Goes(x), x # <<"wait", "works">>, armed' \cap Works = armed \cap Works
        PROVE  WorksInv'
    BY <1>0, <2>1, <2>2 DEF Goes, WorksInv
  <2>3. CASE Stops
    BY <1>0, <2>1, <2>3 DEF Stops
  <2>4. CASE Abandons
    BY <1>0, <2>1, <2>4 DEF Abandons, WorksInv
  <2>5. CASE Looks
    BY <1>0, <2>1, <2>5 DEF Looks, WorksInv
  <2>6. ASSUME NEW r \in Resources, Misses(r), phase = "init" PROVE WorksInv'
    BY <1>0, <2>1, <2>6 DEF Misses
  <2>7. ASSUME NEW cb, Awaits(cb) PROVE WorksInv'
    <3>1. CASE cb = "works"
      <4>1. \A w \in Works : w \notin armed /\ run[w] = <<>>
        BY <2>7, <3>1 DEF Awaits, AwaitedOf
      <4>2. items = {}
        BY <4>1 DEF WorksInv, IsAlive, LifeTypes
      <4> QED BY <1>0, <2>1, <2>7, <4>2 DEF Awaits
    <3>2. CASE cb # "works"
      BY <2>2, <2>7, <3>2 DEF Awaits
    <3> QED BY <3>1, <3>2
  <2>8. ASSUME NEW r \in Resources, Gets(r) PROVE WorksInv'
    BY <2>2, <2>8 DEF Gets
  <2>9. ASSUME NEW r \in Resources, Gives(r) PROVE WorksInv'
    BY <2>2, <2>9, Others DEF Gives
  <2>10. ASSUME NEW cb \in {"timer", "thread"}, Hands(cb) PROVE WorksInv'
    BY <2>2, <2>10, Others DEF Hands
  <2>11. ASSUME NEW v, Shines(v) PROVE WorksInv'
    BY <2>2, <2>11 DEF Shines
  <2>12. ASSUME NEW op \in {"flag_0", "flag_1", "trigger"}, Tunes(op) PROVE WorksInv'
    BY <2>2, <2>12 DEF Tunes
  <2>13. CASE Disables
    BY <2>2, <2>13, Others DEF Disables
  <2>14. CASE Disarms
    BY <2>2, <2>14, Others DEF Disarms
  <2>15. CASE TellsThread
    BY <2>2, <2>15 DEF TellsThread
  <2> QED BY <1>1, <2>3, <2>4, <2>5, <2>6, <2>7, <2>8, <2>9, <2>10, <2>11, <2>12, <2>13, <2>14, <2>15,
             ModuleCalls
<1>2. CASE UserEffect
  <2>1. /\ driver' = driver /\ phase' = phase /\ ToDo' = ToDo /\ \A w \in Works : run'[w] = run[w]
    BY <1>2, UserTypes, Others
  <2>2. items' = items /\ armed' \cap Works = armed \cap Works
    BY <1>2, Others DEF UserEffect, Opens, Notes, Closes, Quiets
  <2> QED BY <1>0, <2>1, <2>2 DEF WorksInv
<1>3. ASSUME NEW c \in Life!Callbacks, run[c] # <<>>, CallbackEffect(c) PROVE WorksInv'
  <2>1. /\ driver' = driver /\ phase' \in {phase, "oops"} /\ ToDo' = ToDo
        /\ \A k \in Life!Contexts \ {c} : run'[k] = run[k]
    BY <1>3, CallbackTypes
  <2>2. ASSUME c \notin Works, items' = items, armed' \cap Works = armed \cap Works PROVE WorksInv'
    BY <1>0, <2>1, <2>2, Others DEF WorksInv
  <2>3. ASSUME NEW w \in Works, Queues(w), c = "isr" PROVE WorksInv'
    <3>1. \A k \in Works : run'[k] = run[k]
      BY <2>1, <2>3, Others
    <3>2. /\ driver = "simple_workqueue" /\ w \notin items /\ items' = items \cup {w}
          /\ armed' = armed \cup {w} /\ phase' = phase
      BY <2>3 DEF Queues
    <3>3. phase = "exit" => <<"wait", "works">> \in ToDo
      BY <1>3, <2>3, <3>2, ExitWaits, ToDoKeeps DEF ExitKeeps, WaitIsr
    <3>4. phase # "gone"
      BY <1>3, <2>3, <3>2, ToDoKeeps DEF LifeEffect
    <3> QED BY <2>1, <3>1, <3>2, <3>3, <3>4 DEF WorksInv, IsAlive
  <2>4. ASSUME Works1(c), c \in Works, driver = "simple_workqueue" PROVE WorksInv'
    <3>1. /\ items' = IF run'[c] = <<>> THEN items \ {c} ELSE items
          /\ armed' = armed /\ phase' = phase
      BY <2>4 DEF Works1
    <3>2. \A k \in Works \ {c} : run'[k] = run[k]
      BY <2>1, Others
    <3>3. c \in items /\ c \notin armed
      BY <1>3, <2>4 DEF WorksInv, IsAlive
    <3> QED BY <2>1, <2>4, <3>1, <3>2, <3>3 DEF WorksInv, IsAlive
  <2>5. CASE c \in Works
    <3>1. c \notin {"isr", "timer", "tasklet", "thread"}
      BY <2>5, Others
    <3>2. Stops \/ (driver = "simple_workqueue" /\ Works1(c))
      BY <1>3, <3>1 DEF CallbackEffect
    <3>3. CASE Stops
      BY <1>0, <3>3 DEF Stops
    <3> QED BY <2>4, <2>5, <3>2, <3>3
  <2>6. CASE c \notin Works
    <3>1. ASSUME NEW cb \in {"timer", "tasklet"}, Arms(c, cb) PROVE WorksInv'
      BY <2>2, <2>6, <3>1, Others DEF Arms
    <3>2. ASSUME Stops \/ Idles(c) \/ Listens \/ Samples \/ (\E v \in {"on", "off"} : Lights(c, v))
          PROVE  WorksInv'
      BY <2>2, <2>6, <3>2 DEF Stops, Idles, Listens, Samples, Lights
    <3> QED BY <1>3, <2>3, <2>6, <3>1, <3>2 DEF CallbackEffect
  <2> QED BY <2>5, <2>6
<1>4. ASSUME NEW cb \in Life!Callbacks, Starts(cb) PROVE WorksInv'
  <2>1. /\ driver' = driver /\ phase' = phase /\ ToDo' = ToDo /\ items' = items
        /\ \A k \in Life!Contexts \ {cb} : run'[k] = run[k]
        /\ armed' = armed \ {cb} /\ cb \in armed /\ run[cb] = <<>> /\ run'[cb] # <<>>
    BY <1>4, StartTypes DEF Starts
  <2>2. \A w \in Works \ {cb} : run'[w] = run[w]
    BY <2>1, Others
  <2> QED BY <2>1, <2>2 DEF WorksInv, IsAlive
<1>5. CASE WorldEffect
  <2>1. /\ driver' = driver /\ \A w \in Works : run'[w] = run[w]
        /\ phase' = "exit" \/ ToDo' = ToDo
    BY <1>5, WorldTypes, Others
  <2>2. items' = items /\ armed' \cap Works = armed \cap Works
    BY <1>5, Others DEF WorldEffect, Edges, Echoes, Presses, Begins, Leaves, Unloads, Uses
  <2>3. CASE Unloads
    <3>1. driver = "simple_workqueue" => <<"wait", "works">> \in ToDo'
      BY <2>3 DEF Unloads, EndsWell, ToDo
    <3> QED BY <1>0, <2>1, <2>2, <3>1 DEF WorksInv
  <2>4. CASE ~Unloads
    <3>1. /\ phase' \in {"exit", "gone"} => phase = "exit"
          /\ phase' = "exit" => UNCHANGED run
      BY <1>5, <2>4 DEF LifeEffect, WorldEffect, Edges, Echoes, Presses, Begins, Leaves, Uses
    <3>2. phase' \in {"exit", "gone"} => ToDo' = ToDo
      BY <2>1, <3>1 DEF ToDo
    <3> QED BY <1>0, <2>1, <2>2, <3>1, <3>2 DEF WorksInv
  <2> QED BY <2>3, <2>4
<1> QED BY <1>1, <1>2, <1>3, <1>4, <1>5 DEF LifeEffect, ModuleEffect

(***************************************************************************)
(* The thread                                                              *)
(***************************************************************************)
LEMMA ThreadDriver ==
    ASSUME LifeTypes, IsAlive("thread")
    PROVE  driver = "simple_kthread"
BY RestsDrivers, Others DEF LifeTypes, IsAlive

LEMMA ThreadKept ==
    ASSUME LifeTypes, HeldInv, ThreadInv, LifeEffect
    PROVE  ThreadInv'
<1>0. ASSUME IsAlive("thread")' => IsAlive("thread"),
             "thread" \in held => "thread" \in held',
             phase' \in {"exit", "gone"} => phase \in {"exit", "gone"},
             <<"if", "thread">> \in ToDo => <<"if", "thread">> \in ToDo',
             <<"wait", "thread">> \in ToDo => <<"wait", "thread">> \in ToDo'
      PROVE  ThreadInv'
  BY <1>0 DEF ThreadInv
<1>1. CASE ModuleEffect
  <2>1. run'["thread"] = run["thread"]
    BY <1>1, ModuleStepTypes, Others DEF ModuleEffect
  <2>2. ASSUME NEW x, Goes(x), x \notin {<<"if", "thread">>, <<"wait", "thread">>},
               "thread" \in armed' => "thread" \in armed, "thread" \in held => "thread" \in held'
        PROVE  ThreadInv'
    BY <1>0, <2>1, <2>2 DEF Goes, IsAlive
  <2>3. CASE Stops
    BY <1>0, <2>1, <2>3 DEF Stops, IsAlive, ToDo
  <2>4. CASE Abandons
    <3>1. ~IsAlive("thread")
      BY <2>4, ThreadDriver DEF Abandons
    <3> QED BY <2>1, <2>4, <3>1 DEF Abandons, ThreadInv, IsAlive
  <2>5. CASE Looks /\ phase = "exit"
    <3>1. "thread" \in held => "thread" \notin failed
      BY <2>5 DEF HeldInv, Own
    <3> QED BY <2>1, <2>5, <3>1 DEF Looks, ThreadInv, IsAlive
  <2>6. ASSUME NEW r \in Resources, Misses(r), phase = "init" PROVE ThreadInv'
    BY <2>1, <2>6 DEF Misses, ThreadInv, IsAlive
  <2>7. ASSUME NEW cb, Awaits(cb) PROVE ThreadInv'
    <3>1. CASE cb = "thread"
      BY <2>1, <2>7, <3>1 DEF Awaits, AwaitedOf, ThreadInv, IsAlive
    <3>2. CASE cb # "thread"
      BY <2>2, <2>7, <3>2 DEF Awaits
    <3> QED BY <3>1, <3>2
  <2>8. ASSUME NEW r \in Resources, Gets(r) PROVE ThreadInv'
    BY <2>2, <2>8 DEF Gets
  <2>9. ASSUME NEW r \in Resources, Gives(r) PROVE ThreadInv'
    <3>1. "thread" \in held => "thread" \in held'
      BY <2>9, WithinStays DEF Gives, Stay
    <3> QED BY <2>2, <2>9, <3>1 DEF Gives
  <2>10. ASSUME NEW cb \in {"timer", "thread"}, Hands(cb), phase = "init" PROVE ThreadInv'
    <3>1. CASE cb = "thread"
      BY <2>10, <3>1 DEF Hands, Goes, ThreadInv
    <3>2. CASE cb # "thread"
      BY <2>2, <2>10, <3>2 DEF Hands
    <3> QED BY <3>1, <3>2
  <2>11. ASSUME NEW v, Shines(v) PROVE ThreadInv'
    BY <2>2, <2>11 DEF Shines
  <2>12. ASSUME NEW op \in {"flag_0", "flag_1", "trigger"}, Tunes(op) PROVE ThreadInv'
    BY <2>2, <2>12 DEF Tunes
  <2>13. CASE Disables
    BY <2>2, <2>13 DEF Disables
  <2>14. CASE Disarms
    BY <2>2, <2>14 DEF Disarms
  <2>15. CASE TellsThread
    BY <2>2, <2>15 DEF TellsThread
  <2> QED BY <1>1, <2>3, <2>4, <2>5, <2>6, <2>7, <2>8, <2>9, <2>10, <2>11, <2>12, <2>13, <2>14, <2>15,
             ModuleCalls
<1>2. CASE UserEffect
  <2>1. phase' = phase /\ ToDo' = ToDo /\ run'["thread"] = run["thread"]
    BY <1>2, UserTypes, Others
  <2>2. held \subseteq held' /\ armed' \subseteq armed
    BY <1>2 DEF UserEffect, Opens, Notes, Closes, Quiets
  <2> QED BY <1>0, <2>1, <2>2 DEF IsAlive
<1>3. ASSUME NEW c \in Life!Callbacks, run[c] # <<>>, CallbackEffect(c) PROVE ThreadInv'
  <2>1. /\ phase' \in {phase, "oops"} /\ ToDo' = ToDo /\ held' = held
        /\ \A k \in Life!Contexts \ {c} : run'[k] = run[k]
    BY <1>3, CallbackTypes
  <2>2. "thread" \in armed' => "thread" \in armed
    BY <1>3, Others DEF CallbackEffect, Stops, Arms, Lights, Idles, Queues, Listens, Samples, Works1
  <2>3. run'["thread"] # <<>> => run["thread"] # <<>>
    BY <1>3, <2>1, Others
  <2> QED BY <1>0, <2>1, <2>2, <2>3 DEF IsAlive
<1>4. ASSUME NEW cb \in Life!Callbacks, Starts(cb) PROVE ThreadInv'
  <2>1. /\ phase' = phase /\ ToDo' = ToDo /\ \A k \in Life!Contexts \ {cb} : run'[k] = run[k]
        /\ armed' = armed \ {cb} /\ cb \in armed /\ held' = held
    BY <1>4, StartTypes DEF Starts
  <2>2. run'["thread"] # <<>> => run["thread"] # <<>> \/ cb = "thread"
    BY <2>1, Others
  <2> QED BY <1>0, <2>1, <2>2 DEF IsAlive
<1>5. CASE WorldEffect
  <2>1. /\ run'["thread"] = run["thread"]
        /\ phase' = "exit" \/ ToDo' = ToDo
    BY <1>5, WorldTypes, Others
  <2>2. /\ "thread" \in armed' => "thread" \in armed
        /\ "thread" \in held => "thread" \in held'
    BY <1>5 DEF WorldEffect, Edges, Echoes, Presses, Begins, Leaves, Unloads, Uses
  <2>3. CASE Unloads
    <3>1. "thread" \in held => "thread" \in Needed(driver)
      BY DEF LifeTypes
    <3>2. "thread" \in held => <<"if", "thread">> \in ToDo'
      BY <2>3, <3>1 DEF Unloads, EndsWell, ToDo
    <3> QED BY <2>1, <2>2, <3>2 DEF ThreadInv, IsAlive
  <2>4. CASE ~Unloads
    <3>1. /\ phase' \in {"exit", "gone"} => phase = "exit"
          /\ phase' = "exit" => UNCHANGED run
      BY <1>5, <2>4 DEF LifeEffect, WorldEffect, Edges, Echoes, Presses, Begins, Leaves, Uses
    <3>2. ToDo' = ToDo
      BY <2>1, <3>1 DEF ToDo
    <3> QED BY <1>0, <2>1, <2>2, <3>1, <3>2 DEF IsAlive
  <2> QED BY <2>3, <2>4
<1> QED BY <1>1, <1>2, <1>3, <1>4, <1>5 DEF LifeEffect, ModuleEffect

(***************************************************************************)
(* The timers and the tasklets                                             *)
(***************************************************************************)
Timers == {"timer", "tasklet"}
LEMMA TimersStay ==
    /\ Timers \subseteq Stay /\ Timers \cap Works = {} /\ Timers \subseteq Life!Contexts \ {"module", "user"}
    /\ Needed("simple_sysfs") \cap Timers = {} /\ Needed("simple_kthread") \cap Timers = {}
BY Others, NeededSysfs DEF Timers, Stay, Needed, Tasklets

\* What changes nothing for them, or stops more of them.
LEMMA TimerFrame ==
    ASSUME TimerInv, NEW cb \in Timers,
           IsAlive(cb)' => IsAlive(cb), cb \in held' <=> cb \in held,
           cb \in stopped' <=> cb \in stopped, cb \in raced => cb \in raced',
           phase' \in {"exit", "gone"} => phase \in {"exit", "gone"},
           phase' \in {"exit", "gone"} /\ Stopper(cb) \in ToDo => Stopper(cb) \in ToDo'
    PROVE  /\ IsAlive(cb)' => cb \in held' /\ (cb \in stopped' => cb \in raced')
           /\ phase' \in {"exit", "gone"} /\ cb \in held' => cb \in stopped' \/ Stopper(cb) \in ToDo'
BY DEF TimerInv, Timers

LEMMA TimerModule ==
    ASSUME LifeTypes, TimerInv, ModuleEffect
    PROVE  TimerInv'
<1> DEFINE Goal(cb) ==
               /\ IsAlive(cb)' => cb \in held' /\ (cb \in stopped' => cb \in raced')
               /\ phase' \in {"exit", "gone"} /\ cb \in held' =>
                       cb \in stopped' \/ Stopper(cb) \in ToDo'
<1>1. \A cb \in Timers : run'[cb] = run[cb]
  BY ModuleStepTypes, TimersStay DEF ModuleEffect
<1> SUFFICES ASSUME NEW cb \in Timers PROVE Goal(cb)
  BY DEF TimerInv, Timers, Stopper
<1>2. IsAlive(cb) => cb \in held /\ (cb \in stopped => cb \in raced)
  BY DEF TimerInv, Timers
<1>3. phase \in {"exit", "gone"} /\ cb \in held => cb \in stopped \/ Stopper(cb) \in ToDo
  BY DEF TimerInv, Timers
<1>4. cb \in Stay /\ cb \notin Works /\ cb # "nothing" /\ cb # "isr" /\ cb # "thread"
  BY TimersStay DEF Timers
<1>5. run'[cb] = run[cb]
  BY <1>1
<1>6. ASSUME NEW x, Goes(x), x # Stopper(cb),
             cb \in armed' => cb \in armed, cb \in held' <=> cb \in held,
             cb \in stopped' <=> cb \in stopped, cb \in raced => cb \in raced'
      PROVE  Goal(cb)
  BY <1>2, <1>3, <1>5, <1>6 DEF Goes, IsAlive
<1>7. CASE Stops
  BY <1>2, <1>7 DEF Stops, IsAlive
<1>8. CASE Abandons
  <2>1. cb \notin held
    BY <1>8, TimersStay DEF Abandons, LifeTypes, Timers
  <2> QED BY <1>2, <1>5, <1>8, <2>1 DEF Abandons, IsAlive
<1>9. CASE Looks
  <2>1. cb \notin held
    BY <1>9, TimersStay DEF Looks, LifeTypes, Timers
  <2> QED BY <1>2, <1>5, <1>9, <2>1 DEF Looks, IsAlive
<1>10. ASSUME NEW r \in Resources, Misses(r), phase = "init" PROVE Goal(cb)
  BY <1>2, <1>5, <1>10 DEF Misses, IsAlive
<1>11. ASSUME NEW k, Awaits(k) PROVE Goal(cb)
  <2>1. cb \in stopped' <=> cb \in stopped \/ (phase = "exit" /\ k = cb)
    BY <1>4, <1>11 DEF Awaits, AwaitedOf, Timers
  <2>2. CASE k = cb
    <3>1. ~IsAlive(cb)' /\ phase' = phase
      BY <1>4, <1>5, <1>11, <2>2 DEF Awaits, AwaitedOf, IsAlive, Timers, Goes
    <3>2. phase' # "gone"
      BY <1>11, <3>1 DEF Awaits, ModuleEffect
    <3> QED BY <2>1, <2>2, <3>1, <3>2
  <2>3. CASE k # cb
    <3>1. <<"wait", k>> # Stopper(cb)
      BY <2>3 DEF Stopper, Timers
    <3> QED BY <1>6, <1>11, <2>1, <2>3, <3>1 DEF Awaits
  <2> QED BY <2>2, <2>3
<1>12. ASSUME NEW r \in Resources, Gets(r), phase = "init" PROVE Goal(cb)
  BY <1>2, <1>5, <1>12 DEF Gets, Goes, IsAlive
<1>13. ASSUME NEW r \in Resources, Gives(r) PROVE Goal(cb)
  <2>1. cb \in held' <=> cb \in held
    BY <1>4, <1>13, WithinStays DEF Gives
  <2> QED BY <1>6, <1>13, <2>1 DEF Gives, Stopper
<1>14. ASSUME NEW k \in {"timer", "thread"}, Hands(k), phase = "init" PROVE Goal(cb)
  BY <1>2, <1>4, <1>5, <1>14 DEF Hands, Goes, IsAlive
<1>15. ASSUME NEW v, Shines(v) PROVE Goal(cb)
  BY <1>6, <1>15 DEF Shines, Stopper
<1>16. ASSUME NEW op \in {"flag_0", "flag_1", "trigger"}, Tunes(op) PROVE Goal(cb)
  BY <1>6, <1>16 DEF Tunes, Stopper
<1>17. CASE Disables
  BY <1>6, <1>17 DEF Disables, Stopper
<1>18. CASE Disarms
  <2>1. CASE cb = "timer"
    BY <1>2, <1>5, <1>18, <2>1 DEF Disarms, IsAlive, Timers, Goes
  <2>2. CASE cb # "timer"
    BY <1>6, <1>18, <2>2 DEF Disarms, Stopper
  <2> QED BY <2>1, <2>2
<1>19. CASE TellsThread
  BY <1>4, <1>6, <1>19 DEF TellsThread, Stopper
<1> QED BY <1>7, <1>8, <1>9, <1>10, <1>11, <1>12, <1>13, <1>14, <1>15, <1>16, <1>17, <1>18, <1>19,
           ModuleCalls

LEMMA TimerKept ==
    ASSUME LifeTypes, TimerInv, LifeEffect
    PROVE  TimerInv'
<1>0. ASSUME \A cb \in Timers :
                /\ IsAlive(cb)' => cb \in held' /\ (cb \in stopped' => cb \in raced')
                /\ phase' \in {"exit", "gone"} /\ cb \in held' =>
                       cb \in stopped' \/ Stopper(cb) \in ToDo'
      PROVE  TimerInv'
  BY <1>0 DEF TimerInv, Timers, Stopper
<1>1. CASE ModuleEffect
  BY <1>1, TimerModule
<1>2. CASE UserEffect
  <2>1. phase' = phase /\ ToDo' = ToDo /\ \A cb \in Timers : run'[cb] = run[cb]
    BY <1>2, UserTypes, Others DEF Timers
  <2>2. \A cb \in Timers : /\ cb \in armed' => cb \in armed
                           /\ cb \in held' <=> cb \in held
                           /\ cb \in stopped' <=> cb \in stopped
                           /\ cb \in raced => cb \in raced'
    BY <1>2 DEF UserEffect, Opens, Notes, Closes, Quiets, Timers
  <2> QED BY <1>0, <2>1, <2>2, TimerFrame DEF IsAlive
<1>3. ASSUME NEW c \in Life!Callbacks, run[c] # <<>>, CallbackEffect(c) PROVE TimerInv'
  <2>1. /\ phase' \in {phase, "oops"} /\ ToDo' = ToDo /\ held' = held /\ stopped' = stopped
        /\ \A k \in Life!Contexts \ {c} : run'[k] = run[k]
    BY <1>3, CallbackTypes
  <2>2. \A cb \in Timers : run'[cb] # <<>> => run[cb] # <<>>
    BY <1>3, <2>1, TimersStay
  <2>3. CASE \E cb \in Timers : Arms(c, cb)
    <3>1. PICK k \in Timers : Arms(c, k)
      BY <2>3
    <3>2. ASSUME NEW cb \in Timers
          PROVE  /\ IsAlive(cb)' => cb \in held' /\ (cb \in stopped' => cb \in raced')
                 /\ phase' \in {"exit", "gone"} /\ cb \in held' =>
                       cb \in stopped' \/ Stopper(cb) \in ToDo'
      BY <2>1, <2>2, <3>1, <3>2 DEF Arms, IsAlive, TimerInv, Timers
    <3> QED BY <1>0, <3>2
  <2>4. CASE ~ \E cb \in Timers : Arms(c, cb)
    <3>1. \A cb \in Timers : (cb \in armed' => cb \in armed) /\ (cb \in raced => cb \in raced')
      BY <1>3, <2>4, TimersStay DEF CallbackEffect, Stops, Lights, Idles, Queues, Listens, Samples,
                                    Works1, Timers
    <3> QED BY <1>0, <2>1, <2>2, <3>1, TimerFrame DEF IsAlive
  <2> QED BY <2>3, <2>4
<1>4. ASSUME NEW k \in Life!Callbacks, Starts(k) PROVE TimerInv'
  <2>1. /\ phase' = phase /\ ToDo' = ToDo /\ \A c \in Life!Contexts \ {k} : run'[c] = run[c]
        /\ armed' = armed \ {k} /\ k \in armed /\ UNCHANGED <<held, stopped, raced>>
    BY <1>4, StartTypes DEF Starts
  <2>2. \A cb \in Timers : run'[cb] # <<>> => run[cb] # <<>> \/ cb = k
    BY <2>1, TimersStay
  <2> QED BY <1>0, <2>1, <2>2, TimerFrame DEF IsAlive
<1>5. CASE WorldEffect
  <2>1. phase' = "exit" \/ ToDo' = ToDo
    BY <1>5, WorldTypes
  <2>2. \A cb \in Timers : run'[cb] = run[cb]
    BY <1>5, WorldTypes, Others DEF Timers
  <2>3. \A cb \in Timers : /\ cb \in armed' => cb \in armed
                           /\ cb \in held' <=> cb \in held
                           /\ cb \in stopped' <=> cb \in stopped
                           /\ cb \in raced => cb \in raced'
    BY <1>5 DEF WorldEffect, Edges, Echoes, Presses, Begins, Leaves, Unloads, Uses, Timers
  <2>4. CASE Unloads
    <3>1. ASSUME NEW cb \in Timers, cb \in held PROVE Stopper(cb) \in ToDo'
      <4>1. cb \in Needed(driver)
        BY <3>1 DEF LifeTypes, Timers
      <4> QED BY <2>4, <4>1 DEF Unloads, EndsWell, ToDo, Stopper, Timers
    <3>2. ASSUME NEW cb \in Timers
          PROVE  /\ IsAlive(cb)' => cb \in held' /\ (cb \in stopped' => cb \in raced')
                 /\ phase' \in {"exit", "gone"} /\ cb \in held' =>
                       cb \in stopped' \/ Stopper(cb) \in ToDo'
      BY <2>2, <2>3, <3>1, <3>2 DEF IsAlive, TimerInv, Timers
    <3> QED BY <1>0, <3>2
  <2>5. CASE ~Unloads
    <3>1. /\ phase' \in {"exit", "gone"} => phase = "exit"
          /\ phase' = "exit" => UNCHANGED run
      BY <1>5, <2>5 DEF LifeEffect, WorldEffect, Edges, Echoes, Presses, Begins, Leaves, Uses
    <3>2. ToDo' = ToDo
      BY <2>1, <3>1 DEF ToDo
    <3> QED BY <1>0, <2>2, <2>3, <3>1, <3>2, TimerFrame DEF IsAlive
  <2> QED BY <2>4, <2>5
<1> QED BY <1>1, <1>2, <1>3, <1>4, <1>5 DEF LifeEffect, ModuleEffect

(***************************************************************************)
(* The light of ch6                                                        *)
(***************************************************************************)
\* Once exit is past its led_off, ch6 has no handler that could light it again.
LEMMA LedKept ==
    ASSUME LifeTypes, HeldInv, IsrInv, LedInv, LifeEffect
    PROVE  LedInv'
<1>0. ASSUME driver' = driver, led' = led, phase' \in {"exit", "gone"} => phase \in {"exit", "gone"},
             driver = "ch6" /\ phase' \in {"exit", "gone"} /\ <<"led", "off">> \in ToDo
                => <<"led", "off">> \in ToDo'
      PROVE  LedInv'
  BY <1>0 DEF LedInv
<1>1. CASE ModuleEffect
  <2>1. driver' = driver
    BY <1>1, ModuleStepTypes DEF ModuleEffect
  <2>2. ASSUME NEW x, Goes(x), x # <<"led", "off">>, led' = led PROVE LedInv'
    BY <1>0, <2>1, <2>2 DEF Goes
  <2>3. CASE Stops
    BY <1>0, <2>1, <2>3 DEF Stops
  <2>4. CASE Abandons
    BY <1>0, <2>1, <2>4 DEF Abandons, LedInv
  <2>5. CASE Looks
    BY <1>0, <2>1, <2>5 DEF Looks, LedInv
  <2>6. ASSUME NEW r \in Resources, Misses(r), phase = "init" PROVE LedInv'
    BY <2>6 DEF Misses, LedInv
  <2>7. ASSUME NEW v, Shines(v), phase = "exit" => v = "off" PROVE LedInv'
    <3>1. led' = v /\ phase' = phase /\ phase # "gone"
      BY <1>1, <2>7 DEF Shines, Goes, ModuleEffect
    <3> QED BY <2>7, <3>1 DEF LedInv
  <2>8. CASE Disables \/ Disarms \/ TellsThread
    <3>1. PICK x \in {<<"disable", "nothing">>, <<"disarm", "timer">>, <<"stop", "nothing">>} : Goes(x)
      BY <2>8 DEF Disables, Disarms, TellsThread
    <3>2. led' = led
      BY <2>8 DEF Disables, Disarms, TellsThread
    <3> QED BY <2>2, <3>1, <3>2
  <2>9. ASSUME NEW r \in Resources, Gets(r) \/ Gives(r) PROVE LedInv'
    BY <2>2, <2>9 DEF Gets, Gives
  <2>10. ASSUME NEW cb, Hands(cb) \/ Awaits(cb) PROVE LedInv'
    BY <2>2, <2>10 DEF Hands, Awaits
  <2>11. ASSUME NEW op \in {"flag_0", "flag_1", "trigger"}, Tunes(op) PROVE LedInv'
    BY <2>2, <2>11 DEF Tunes
  <2> QED BY <1>1, <2>3, <2>4, <2>5, <2>6, <2>7, <2>8, <2>9, <2>10, <2>11, ModuleCalls
<1>2. CASE UserEffect
  <2>1. driver = "simple_sensor" /\ driver' = driver
    BY <1>2, UserTypes DEF UserEffect
  <2> QED BY <2>1 DEF LedInv
<1>3. ASSUME NEW c \in Life!Callbacks, run[c] # <<>>, CallbackEffect(c) PROVE LedInv'
  <2>1. driver' = driver /\ phase' \in {phase, "oops"} /\ ToDo' = ToDo
    BY <1>3, CallbackTypes
  <2>2. ASSUME led' = led PROVE LedInv'
    BY <1>0, <2>1, <2>2
  <2>3. ASSUME NEW v, Lights(c, v), driver = "ch6", c = "isr" \/ v = "off" PROVE LedInv'
    <3>1. led' = v
      BY <2>3 DEF Lights
    <3>2. CASE v = "off"
      BY <3>1, <3>2 DEF LedInv
    <3>3. CASE c = "isr" /\ phase = "exit"
      <4>1. WaitIsr \in ToDo /\ ExitKeeps(driver, ToDo)
        BY <1>3, <3>3, ExitWaits, ToDoKeeps
      <4>2. <<"led", "off">> \in ToDo
        BY <2>3, <4>1 DEF ExitKeeps, WaitIsr
      <4> QED BY <2>1, <4>2 DEF LedInv
    <3>4. CASE phase # "exit"
      BY <2>1, <3>4 DEF LedInv, LifeEffect
    <3> QED BY <2>3, <3>2, <3>3, <3>4
  <2> QED BY <1>3, <2>1, <2>2, <2>3
          DEF CallbackEffect, Stops, Arms, Lights, Idles, Queues, Listens, Samples, Works1, LedInv
<1>4. ASSUME NEW cb \in Life!Callbacks, Starts(cb) PROVE LedInv'
  BY <1>0, <1>4, StartTypes DEF Starts
<1>5. CASE WorldEffect
  <2>1. driver' = driver /\ (phase' = "exit" \/ ToDo' = ToDo)
    BY <1>5, WorldTypes
  <2>2. led' = led
    BY <1>5 DEF WorldEffect, Edges, Echoes, Presses, Begins, Leaves, Unloads, Uses
  <2>3. CASE Unloads
    <3>1. driver = "ch6" => <<"led", "off">> \in ToDo'
      BY <2>3 DEF Unloads, EndsWell, ToDo
    <3> QED BY <2>1, <3>1 DEF LedInv
  <2>4. CASE ~Unloads
    <3>1. /\ phase' \in {"exit", "gone"} => phase = "exit"
          /\ phase' = "exit" => UNCHANGED run
      BY <1>5, <2>4 DEF LifeEffect, WorldEffect, Edges, Echoes, Presses, Begins, Leaves, Uses
    <3>2. ToDo' = ToDo
      BY <2>1, <3>1 DEF ToDo
    <3> QED BY <1>0, <2>1, <2>2, <3>1, <3>2
  <2> QED BY <2>3, <2>4
<1> QED BY <1>1, <1>2, <1>3, <1>4, <1>5 DEF LifeEffect, ModuleEffect

(***************************************************************************)
(* The sensor's handler follows open and release                           *)
(***************************************************************************)
QuietLine == "isr" \notin armed /\ ("irq" \in held => depth > 0)
Undisabled == <<"request", "irq">> \in ToDo \/ <<"disable", "nothing">> \in ToDo
SensorInv ==
    driver = "simple_sensor" =>
    /\ phase = "init" => Undisabled \/ (QuietLine /\ (WaitIsr \in ToDo \/ run["isr"] = <<>>))
    /\ phase \in {"up", "exit"} /\ run["user"] = <<>> /\ "opened" \notin held =>
           QuietLine /\ run["isr"] = <<>>
    /\ run["user"] = UserCalls.wait => QuietLine
    /\ run["user"] \in {UserCalls.release, UserCalls.wait} => "opened" \notin held
    /\ run["user"] \in {UserCalls.open, UserCalls.start} => "opened" \in held
    /\ run["user"] # <<>> => phase \in {"up", "oops"}
    /\ run["user"] = <<>> /\ "opened" \in held => "start" \in held

LEMMA UserCallsDiffer ==
    /\ UserCalls.open # UserCalls.release /\ UserCalls.open # UserCalls.wait
    /\ UserCalls.start # UserCalls.release /\ UserCalls.start # UserCalls.wait
    /\ UserCalls.release # UserCalls.wait
    /\ UserCalls.open # <<>> /\ UserCalls.start # <<>> /\ UserCalls.release # <<>>
    /\ UserCalls.wait # <<>>
<1>1. /\ Head(UserCalls.open).op = "enable" /\ Head(UserCalls.start).op = "request"
      /\ Head(UserCalls.release).op = "disable" /\ Head(UserCalls.wait).op = "wait"
  BY HeadTail, CallFields DEF UserCalls
<1>2. /\ UserCalls.open # <<>> /\ UserCalls.start # <<>> /\ UserCalls.release # <<>>
      /\ UserCalls.wait # <<>>
  BY NotEmpty DEF UserCalls
<1> QED BY <1>1, <1>2

\* What neither raises the line nor starts the handler.
LEMMA SensorFrame ==
    ASSUME SensorInv, driver' = driver, phase' \in {phase, "oops"}, ToDo' = ToDo,
           UNCHANGED <<held, depth>>, run'["user"] = run["user"],
           "isr" \in armed' => "isr" \in armed, run'["isr"] # <<>> => run["isr"] # <<>>
    PROVE  SensorInv'
BY UserCallsDiffer DEF SensorInv, QuietLine, Undisabled

\* What happens only while the line is not quiet.
LEMMA SensorLoud ==
    ASSUME SensorInv, driver' = driver, phase' = phase, ToDo' = ToDo, held' = held,
           run'["user"] = run["user"], ~QuietLine
    PROVE  SensorInv'
BY DEF SensorInv, Undisabled

\* The steps of init: they disable the interrupt as soon as it is requested.
LEMMA SensorInitKept ==
    ASSUME LifeTypes, HeldInv, IsrInv, SensorInv, ModuleEffect, phase = "init",
           driver = "simple_sensor"
    PROVE  SensorInv'
<1>1. /\ run["user"] = <<>> /\ "opened" \notin held
      /\ Undisabled \/ (QuietLine /\ (WaitIsr \in ToDo \/ run["isr"] = <<>>))
  BY DEF SensorInv, HeldInv
<1>2. driver' = driver /\ run'["user"] = run["user"] /\ run'["isr"] = run["isr"] /\ LifeTypes'
  BY ModuleStepTypes, Others, ContextNames DEF ModuleEffect
<1>3. HeldInv'
  BY HeldKept DEF LifeEffect, ModuleEffect
<1>4. phase' \in {"init", "oops", "gone"} => "opened" \notin held' \/ phase' = "oops"
  BY <1>3 DEF HeldInv
<1>5. ASSUME phase' = "init", Undisabled' \/ (QuietLine' /\ (WaitIsr \in ToDo' \/ run'["isr"] = <<>>))
      PROVE  SensorInv'
  BY <1>1, <1>2, <1>4, <1>5, UserCallsDiffer DEF SensorInv
<1>6. ASSUME NEW x, Goes(x), x # WaitIsr, x # <<"request", "irq">>, x # <<"disable", "nothing">>,
             "isr" \in armed' => "isr" \in armed, "irq" \in held' => "irq" \in held, depth' = depth
      PROVE  SensorInv'
  <2>1. Undisabled => Undisabled'
    BY <1>6 DEF Goes, Undisabled
  <2>2. QuietLine => QuietLine'
    BY <1>6 DEF QuietLine
  <2>3. phase' = "init" /\ (WaitIsr \in ToDo => WaitIsr \in ToDo')
    BY <1>6 DEF Goes
  <2> QED BY <1>1, <1>2, <1>5, <2>1, <2>2, <2>3
<1>7. InitKeeps(driver, ToDo)
  BY ToDoKeeps
<1>8. CASE Stops
  BY <1>1, <1>8, UserCallsDiffer DEF Stops, SensorInv
<1>9. ASSUME NEW r \in Resources, Misses(r) PROVE SensorInv'
  <2>1. /\ UNCHANGED <<phase, held, armed, depth>> /\ r \in Needed(driver)
        /\ \E B : ToDo = {<<"request", r>>} \cup B /\ (Survives(r, B) \/ GivesUp(r, B))
    BY <1>9 DEF Misses
  <2>2. r = "irq"
    BY <2>1 DEF Survives, GivesUp, Needed, Tasklets
  <2>3. "irq" \notin held
    BY <2>1, <2>2, AsksUnheld DEF Resources
  <2>4. QuietLine' /\ run["isr"] = <<>>
    BY <2>1, <2>3 DEF IsrInv, QuietLine
  <2> QED BY <1>2, <1>5, <2>1, <2>4
<1>10. ASSUME NEW r \in Resources, Gets(r) PROVE SensorInv'
  <2>1. CASE r = "irq"
    <3>1. ToDo = {<<"request", "irq">>} \cup ToDo' /\ phase' = "init"
      BY <1>10, <2>1 DEF Gets, Goes
    <3>2. <<"disable", "nothing">> \in ToDo'
      BY <1>7, <3>1 DEF InitKeeps
    <3> QED BY <1>5, <3>1, <3>2 DEF Undisabled
  <2>2. CASE r # "irq"
    BY <1>6, <1>10, <2>2 DEF Gets, WaitIsr
  <2> QED BY <2>1, <2>2
<1>11. CASE Disables
  <2>1. /\ ToDo = {<<"disable", "nothing">>} \cup ToDo' /\ phase' = "init"
        /\ depth' = depth + 1 /\ armed' = armed \ {"isr"}
    BY <1>11 DEF Disables, Goes
  <2>2. WaitIsr \in ToDo'
    BY <1>7, <2>1 DEF InitKeeps, WaitIsr
  <2>3. QuietLine'
    BY <2>1 DEF QuietLine, LifeTypes
  <2> QED BY <1>5, <2>1, <2>2, <2>3
<1>12. ASSUME NEW cb, Awaits(cb) PROVE SensorInv'
  <2>1. CASE cb = "isr"
    <3>1. /\ ToDo = {WaitIsr} \cup ToDo' /\ phase' = "init" /\ UNCHANGED <<armed, held, depth>>
          /\ run["isr"] = <<>>
      BY <1>12, <2>1 DEF Awaits, AwaitedOf, Goes, WaitIsr
    <3>2. Undisabled => Undisabled'
      BY <3>1 DEF Undisabled, WaitIsr
    <3>3. QuietLine => QuietLine'
      BY <3>1 DEF QuietLine
    <3> QED BY <1>1, <1>2, <1>5, <3>1, <3>2, <3>3
  <2>2. CASE cb # "isr"
    BY <1>6, <1>12, <2>2 DEF Awaits, WaitIsr
  <2> QED BY <2>1, <2>2
<1>13. ASSUME NEW r \in Resources, Gives(r) PROVE SensorInv'
  BY <1>6, <1>13 DEF Gives, WaitIsr
<1>14. ASSUME NEW cb \in {"timer", "thread"}, Hands(cb) PROVE SensorInv'
  BY <1>6, <1>14 DEF Hands, WaitIsr
<1>15. ASSUME NEW v, Shines(v) PROVE SensorInv'
  BY <1>6, <1>15 DEF Shines, WaitIsr
<1>16. CASE Disarms
  BY <1>6, <1>16 DEF Disarms, WaitIsr
<1>17. CASE TellsThread
  BY <1>6, <1>17 DEF TellsThread, WaitIsr
<1>18. ~Abandons /\ \A op \in {"flag_0", "flag_1", "trigger"} : ~Tunes(op)
  BY DEF Abandons, Tunes
<1> QED BY <1>8, <1>9, <1>10, <1>11, <1>12, <1>13, <1>14, <1>15, <1>16, <1>17, <1>18, ModuleCalls

\* The steps of exit find the device closed.
LEMMA SensorExitKept ==
    ASSUME LifeTypes, HeldInv, SensorInv, ModuleEffect, phase = "exit",
           driver = "simple_sensor"
    PROVE  SensorInv'
<1>1. run["user"] = <<>> /\ "opened" \notin held /\ QuietLine /\ run["isr"] = <<>>
  BY DEF SensorInv, HeldInv
<1>2. driver' = driver /\ run'["user"] = run["user"] /\ run'["isr"] = run["isr"]
  BY ModuleStepTypes, Others, ContextNames DEF ModuleEffect
<1>3. phase' = "exit" /\ held' \subseteq held /\ ("isr" \in armed' => "isr" \in armed)
      /\ (depth' = depth \/ depth' = depth + 1)
  BY DEF ModuleEffect, ExitEffect, Disables, Shines, Disarms, Looks, TellsThread, Gives, Awaits
<1>4. QuietLine'
  BY <1>1, <1>3 DEF QuietLine, LifeTypes
<1> QED BY <1>1, <1>2, <1>3, <1>4, UserCallsDiffer DEF SensorInv

LEMMA SensorKept ==
    ASSUME LifeTypes, HeldInv, IsrInv, SensorInv, LifeEffect
    PROVE  SensorInv'
<1>0. driver' = driver /\ (driver # "simple_sensor" => SensorInv')
  BY TypesKept DEF SensorInv
<1> SUFFICES ASSUME driver = "simple_sensor" PROVE SensorInv'
  BY <1>0
<1>1. CASE ModuleEffect
  BY <1>1, SensorInitKept, SensorExitKept DEF ModuleEffect
<1>2. CASE UserEffect
  <2>1. phase' = phase /\ ToDo' = ToDo /\ run'["isr"] = run["isr"]
    BY <1>2, UserTypes, Others
  <2>2. phase = "up"
    BY <1>2, UserCallsDiffer DEF SensorInv, UserEffect, Opens, Notes, Closes, Quiets, LifeEffect
  <2>3. CASE Opens
    BY <1>0, <2>1, <2>2, <2>3, UserCallsDiffer DEF Opens, SensorInv, MovesTo
  <2>4. CASE Notes
    BY <1>0, <2>1, <2>2, <2>4, UserCallsDiffer DEF Notes, SensorInv, MovesTo
  <2>5. CASE Closes
    BY <1>0, <2>1, <2>2, <2>5, UserCallsDiffer DEF Closes, SensorInv, MovesTo, QuietLine, LifeTypes
  <2>6. CASE Quiets
    BY <1>0, <2>1, <2>2, <2>6, UserCallsDiffer DEF Quiets, SensorInv, MovesTo, QuietLine
  <2> QED BY <1>2, <2>3, <2>4, <2>5, <2>6 DEF UserEffect
<1>3. ASSUME NEW c \in Life!Callbacks, run[c] # <<>>, CallbackEffect(c) PROVE SensorInv'
  <2>1. /\ phase' \in {phase, "oops"} /\ ToDo' = ToDo /\ UNCHANGED <<held, depth>>
        /\ \A k \in Life!Contexts \ {c} : run'[k] = run[k]
    BY <1>3, CallbackTypes
  <2>2. "isr" \in armed' => "isr" \in armed
    BY <1>3, Others DEF CallbackEffect, Stops, Arms, Lights, Idles, Queues, Listens, Samples, Works1
  <2>3. (run'["isr"] # <<>> => run["isr"] # <<>>) /\ run'["user"] = run["user"]
    BY <1>3, <2>1, Others, ContextNames
  <2> QED BY <1>0, <2>1, <2>2, <2>3, SensorFrame
<1>4. ASSUME NEW cb \in Life!Callbacks, Starts(cb) PROVE SensorInv'
  <2>1. /\ phase' = phase /\ ToDo' = ToDo /\ UNCHANGED <<held, depth>>
        /\ \A k \in Life!Contexts \ {cb} : run'[k] = run[k]
        /\ cb \in armed /\ armed' = armed \ {cb}
    BY <1>4, StartTypes DEF Starts
  <2>2. run'["user"] = run["user"]
    BY <2>1, ContextNames
  <2>3. CASE cb = "isr"
    BY <1>0, <2>1, <2>2, <2>3, SensorLoud DEF QuietLine
  <2>4. CASE cb # "isr"
    <3>1. run'["isr"] = run["isr"]
      BY <2>1, <2>4, Others
    <3> QED BY <1>0, <2>1, <2>2, <3>1, SensorFrame
  <2> QED BY <2>3, <2>4
<1>5. CASE WorldEffect
  <2>1. /\ phase' = "exit" \/ ToDo' = ToDo
        /\ run'["isr"] = run["isr"]
    BY <1>5, WorldTypes, Others
  <2>2. CASE Edges
    <3>1. UNCHANGED <<phase, run, held>> /\ ~QuietLine /\ ToDo' = ToDo
      BY <2>2 DEF Edges, QuietLine, ToDo
    <3> QED BY <1>0, <3>1, SensorLoud
  <2>3. CASE Echoes
    <3>1. UNCHANGED <<phase, run, held, depth>> /\ ToDo' = ToDo
          /\ (QuietLine => armed' = armed)
      BY <2>3 DEF Echoes, QuietLine, ToDo
    <3> QED BY <1>0, <3>1, SensorLoud, SensorFrame
  <2>4. CASE Presses
    <3>1. UNCHANGED <<phase, run, held, depth, armed>> /\ ToDo' = ToDo
      BY <2>4 DEF Presses, ToDo
    <3> QED BY <1>0, <3>1, SensorFrame
  <2>5. CASE Begins
    <3>1. ToDo = {}
      BY <2>5, NoActs DEF Begins, ToDo
    <3>2. QuietLine /\ run["isr"] = <<>> /\ run["user"] = <<>> /\ "opened" \notin held
      BY <2>5, <3>1 DEF Begins, SensorInv, HeldInv, Undisabled
    <3> QED BY <1>0, <2>5, <3>2, UserCallsDiffer DEF Begins, SensorInv, QuietLine
  <2>6. CASE Leaves
    <3>1. run["user"] = <<>> /\ "opened" \notin held
      BY <2>6 DEF Leaves, SensorInv, HeldInv
    <3> QED BY <1>0, <2>6, <3>1, UserCallsDiffer DEF Leaves, SensorInv
  <2>7. CASE Unloads
    <3>1. run'["user"] = <<>> /\ UNCHANGED <<held, armed, depth>> /\ phase' = "exit"
      BY <2>7, ContextNames DEF Unloads, MovesTo
    <3>2. QuietLine /\ run["isr"] = <<>> /\ "opened" \notin held
      BY <2>7 DEF Unloads, SensorInv
    <3> QED BY <1>0, <2>1, <3>1, <3>2, UserCallsDiffer DEF SensorInv, QuietLine
  <2>8. CASE Uses
    BY <1>0, <2>1, <2>8, UserCallsDiffer DEF Uses, SensorInv, MovesTo
  <2> QED BY <1>5, <2>2, <2>3, <2>4, <2>5, <2>6, <2>7, <2>8 DEF WorldEffect
<1> QED BY <1>1, <1>2, <1>3, <1>4, <1>5 DEF LifeEffect, ModuleEffect

(***************************************************************************)
(* The echo                                                                *)
(***************************************************************************)
Levels == {"none", "quiet", "triggered", "high", "low"}
SonarTypes == [line : {"quiet", "triggered", "high", "low"}, flag : 0..3, now : Levels,
               start : Levels, stop : Levels]
IsrIdle == ~IsAlive("isr")
Measured == sonar.start = "high" /\ sonar.stop = "low"
EchoInv ==
    driver = "simple_ultra" =>
    /\ sonar \in SonarTypes
    /\ sonar.line \in {"quiet", "triggered"} => IsrIdle
    /\ sonar.line = "high" => "isr" \notin armed \/ run["isr"] = <<>>
    /\ sonar.line = "high" /\ run["isr"] = EchoCalls => sonar.now = "high"
    /\ sonar.flag = 2 => /\ sonar.start = "high" /\ sonar.line \in {"high", "low"}
                         /\ sonar.line = "high" => IsrIdle
                         /\ run["isr"] = EchoCalls => sonar.now = "low"
    /\ phase = "init" /\ <<"trigger", "nothing">> \in ToDo => sonar.line = "quiet"
    /\ sonar.flag = 3 => \/ Measured
                         \/ phase = "init" /\ <<"flag_0", "nothing">> \in ToDo
                         \/ phase = "oops" \/ "irq" \in failed

LEMMA EchoCallsSome == EchoCalls # <<>>
BY NotEmpty DEF EchoCalls

\* A step that leaves the sonar alone and wakes no handler.
LEMMA EchoFrame ==
    ASSUME EchoInv, driver' = driver, sonar' = sonar, failed \subseteq failed',
           "isr" \in armed' => "isr" \in armed, run'["isr"] \in {run["isr"], <<>>},
           phase' = "init" => phase = "init",
           phase' = "init" /\ <<"trigger", "nothing">> \in ToDo' =>
               <<"trigger", "nothing">> \in ToDo \/ sonar.line = "quiet",
           phase = "init" /\ <<"flag_0", "nothing">> \in ToDo =>
               \/ phase' = "init" /\ <<"flag_0", "nothing">> \in ToDo'
               \/ phase' = "oops" \/ "irq" \in failed',
           phase = "oops" => phase' = "oops"
    PROVE  EchoInv'
BY EchoCallsSome DEF EchoInv, IsrIdle, IsAlive, Measured

\* The flag and the trigger's pulse, in the order of init.
LEMMA EchoTunes ==
    ASSUME LifeTypes, EchoInv, phase = "init", driver = "simple_ultra", driver' = driver,
           run'["isr"] = run["isr"], InitOrder(driver, run'["module"]),
           NEW op \in {"flag_0", "flag_1", "trigger"}, Tunes(op)
    PROVE  EchoInv'
<1>1. /\ ToDo = {<<op, "nothing">>} \cup ToDo' /\ <<op, "nothing">> \notin ToDo'
      /\ UNCHANGED <<phase, armed, failed>>
  BY DEF Tunes, Goes
<1>2. InitKeeps(driver, ToDo) /\ InitKeeps(driver, ToDo')
  BY ToDoKeeps, InitOrderKeeps DEF ToDo
<1>3. sonar \in SonarTypes
  BY DEF EchoInv
<1>4. CASE op = "flag_0"
  <2>1. sonar' = [sonar EXCEPT !.flag = 0]
    BY <1>4 DEF Tunes
  <2>2. /\ sonar'.flag = 0 /\ sonar'.line = sonar.line /\ sonar'.now = sonar.now
        /\ sonar' \in SonarTypes
    BY <1>3, <2>1 DEF SonarTypes
  <2> QED BY <1>1, <2>2 DEF EchoInv, IsrIdle, IsAlive, Measured
<1>5. CASE op = "flag_1"
  <2>1. sonar' = [sonar EXCEPT !.flag = 1]
    BY <1>5 DEF Tunes
  <2>2. /\ sonar'.flag = 1 /\ sonar'.line = sonar.line /\ sonar'.now = sonar.now
        /\ sonar' \in SonarTypes
    BY <1>3, <2>1 DEF SonarTypes
  <2> QED BY <1>1, <2>2 DEF EchoInv, IsrIdle, IsAlive, Measured
<1>6. CASE op = "trigger"
  <2>1. sonar' = [sonar EXCEPT !.line = "triggered"]
    BY <1>6 DEF Tunes
  <2>2. /\ sonar'.line = "triggered" /\ sonar'.flag = sonar.flag /\ sonar'.start = sonar.start
        /\ sonar'.stop = sonar.stop /\ sonar' \in SonarTypes
    BY <1>3, <2>1 DEF SonarTypes
  <2>3. sonar.line = "quiet" /\ sonar.flag # 2 /\ IsrIdle
    BY <1>1, <1>6 DEF EchoInv
  <2>4. <<"flag_0", "nothing">> \in ToDo => <<"flag_0", "nothing">> \in ToDo'
    BY <1>1, <1>6
  <2> QED BY <1>1, <1>6, <2>2, <2>3, <2>4 DEF EchoInv, IsrIdle, IsAlive, Measured
<1> QED BY <1>4, <1>5, <1>6

LEMMA EchoModule ==
    ASSUME LifeTypes, HeldInv, EchoInv, ModuleEffect, driver = "simple_ultra"
    PROVE  EchoInv'
<1>1. driver' = driver /\ run'["isr"] = run["isr"]
  BY ModuleStepTypes, Others DEF ModuleEffect
<1>2. ASSUME NEW x, Goes(x), x # <<"flag_0", "nothing">>, failed' = failed, sonar' = sonar,
             "isr" \in armed' => "isr" \in armed
      PROVE  EchoInv'
  <2>1. UNCHANGED phase /\ ToDo = {x} \cup ToDo'
    BY <1>2 DEF Goes
  <2> QED BY <1>1, <1>2, <2>1, EchoFrame
<1>3. CASE Stops
  BY <1>1, <1>3, EchoFrame DEF Stops
<1>4. ASSUME NEW r \in Resources, Misses(r), phase = "init" PROVE EchoInv'
  <2>1. /\ UNCHANGED <<phase, armed, sonar>> /\ failed' = failed \cup {r} /\ r \in Needed(driver)
        /\ \E B : ToDo = {<<"request", r>>} \cup B /\ (Survives(r, B) \/ GivesUp(r, B))
    BY <1>4 DEF Misses
  <2>2. r = "irq"
    BY <2>1 DEF Survives, GivesUp, Needed, Tasklets
  <2>3. InitKeeps(driver, ToDo)
    BY <1>4, ToDoKeeps
  <2>4. <<"trigger", "nothing">> \in ToDo
    BY <2>1, <2>2, <2>3 DEF InitKeeps
  <2> QED BY <1>1, <1>4, <2>1, <2>2, <2>4, EchoFrame
<1>5. ASSUME NEW r \in Resources, Gets(r) \/ Gives(r) PROVE EchoInv'
  <2>1. CASE Gets(r)
    BY <1>2, <2>1 DEF Gets
  <2>2. CASE Gives(r)
    BY <1>2, <2>2 DEF Gives
  <2> QED BY <1>5, <2>1, <2>2
<1>6. ASSUME NEW cb, Awaits(cb) PROVE EchoInv'
  BY <1>2, <1>6 DEF Awaits
<1>7. ASSUME NEW cb \in {"timer", "thread"}, Hands(cb) PROVE EchoInv'
  BY <1>2, <1>7 DEF Hands
<1>8. ASSUME NEW v, Shines(v) PROVE EchoInv'
  BY <1>2, <1>8 DEF Shines
<1>9. CASE Disables
  BY <1>2, <1>9 DEF Disables
<1>10. ~Abandons /\ ~Looks /\ ~Disarms /\ ~TellsThread
  BY DEF Abandons, Looks, Disarms, TellsThread
<1>11. ASSUME NEW op \in {"flag_0", "flag_1", "trigger"}, Tunes(op), phase = "init" PROVE EchoInv'
  <2>1. phase' = "init"
    BY <1>11 DEF Tunes, Goes
  <2>2. InitOrder(driver, run'["module"])
    BY <1>11, <2>1 DEF ModuleEffect
  <2> QED BY <1>1, <1>11, <2>2, EchoTunes
<1> QED BY <1>3, <1>4, <1>5, <1>6, <1>7, <1>8, <1>9, <1>10, <1>11, ModuleCalls

\* The handler sets the time and the flag.
LEMMA TimeTaken ==
    ASSUME NEW s \in SonarTypes, NEW v \in Levels
    PROVE  /\ LET t == [s EXCEPT !.start = v, !.flag = 2]
              IN  t \in SonarTypes /\ t.start = v /\ t.flag = 2 /\ t.line = s.line
           /\ LET t == [s EXCEPT !.stop = v, !.flag = 3]
              IN  /\ t \in SonarTypes /\ t.stop = v /\ t.flag = 3 /\ t.line = s.line
                  /\ t.start = s.start
<1> DEFINE m == [s EXCEPT !.start = v]
           n == [s EXCEPT !.stop = v]
<1>1. m \in SonarTypes /\ m.start = v /\ m.line = s.line
  BY DEF SonarTypes, Levels
<1>2. n \in SonarTypes /\ n.stop = v /\ n.line = s.line /\ n.start = s.start
  BY DEF SonarTypes, Levels
<1>3. /\ [s EXCEPT !.start = v, !.flag = 2] = [m EXCEPT !.flag = 2]
      /\ [s EXCEPT !.stop = v, !.flag = 3] = [n EXCEPT !.flag = 3]
  OBVIOUS
<1> HIDE DEF m, n
<1>4. LET t == [m EXCEPT !.flag = 2] IN t \in SonarTypes /\ t.start = v /\ t.flag = 2 /\ t.line = s.line
  BY <1>1 DEF SonarTypes, Levels
<1>5. LET t == [n EXCEPT !.flag = 3]
      IN  t \in SonarTypes /\ t.stop = v /\ t.flag = 3 /\ t.line = s.line /\ t.start = s.start
  BY <1>2 DEF SonarTypes, Levels
<1> QED BY <1>3, <1>4, <1>5

\* The handler takes the time, then looks at the flag and the line.
LEMMA EchoListens ==
    ASSUME LifeTypes, EchoInv, phase \in {"init", "up", "exit"}, driver = "simple_ultra", run["isr"] # <<>>,
           UNCHANGED <<driver, phase, armed, failed>>, ToDo' = ToDo,
           \/ run'["isr"] = EchoCalls /\ sonar' = [sonar EXCEPT !.now = sonar.line]
           \/ /\ run["isr"] = EchoCalls /\ run'["isr"] = <<>>
              /\ \/ Life!EchoStart /\ sonar' = [sonar EXCEPT !.start = sonar.now, !.flag = 2]
                 \/ Life!EchoStop /\ sonar' = [sonar EXCEPT !.stop = sonar.now, !.flag = 3]
                 \/ ~Life!EchoStart /\ ~Life!EchoStop /\ UNCHANGED sonar
    PROVE  EchoInv'
<1>1. sonar \in SonarTypes
  BY DEF EchoInv
<1>2. ~IsrIdle /\ sonar.line \in {"high", "low"}
  BY <1>1 DEF EchoInv, IsrIdle, IsAlive, SonarTypes
<1>3. CASE run'["isr"] = EchoCalls /\ sonar' = [sonar EXCEPT !.now = sonar.line]
  <2>1. /\ sonar'.now = sonar.line /\ sonar'.line = sonar.line /\ sonar'.flag = sonar.flag
        /\ sonar'.start = sonar.start /\ sonar'.stop = sonar.stop /\ sonar' \in SonarTypes
    BY <1>1, <1>3 DEF SonarTypes, Levels
  <2> QED BY <1>2, <1>3, <2>1, EchoCallsSome DEF EchoInv, IsrIdle, IsAlive, Measured
<1>4. CASE /\ run["isr"] = EchoCalls /\ run'["isr"] = <<>>
           /\ Life!EchoStart /\ sonar' = [sonar EXCEPT !.start = sonar.now, !.flag = 2]
  <2>1. sonar.line = "high" /\ sonar.now = "high" /\ "isr" \notin armed
    BY <1>4 DEF EchoInv, Life!EchoStart
  <2>2. sonar' = [sonar EXCEPT !.start = "high", !.flag = 2]
    BY <1>4, <2>1
  <2>3. /\ sonar'.start = "high" /\ sonar'.flag = 2 /\ sonar'.line = "high" /\ sonar' \in SonarTypes
    BY <1>1, <2>1, <2>2, TimeTaken DEF Levels
  <2> QED BY <1>2, <1>4, <2>1, <2>3, EchoCallsSome DEF EchoInv, IsrIdle, IsAlive, Measured
<1>5. CASE /\ run["isr"] = EchoCalls /\ run'["isr"] = <<>>
           /\ Life!EchoStop /\ sonar' = [sonar EXCEPT !.stop = sonar.now, !.flag = 3]
  <2>1. sonar.line = "low" /\ sonar.now = "low" /\ sonar.start = "high"
    BY <1>2, <1>5 DEF EchoInv, Life!EchoStop
  <2>2. sonar' = [sonar EXCEPT !.stop = "low", !.flag = 3]
    BY <1>5, <2>1
  <2>3. /\ sonar'.stop = "low" /\ sonar'.start = "high" /\ sonar'.flag = 3 /\ sonar'.line = "low"
        /\ sonar' \in SonarTypes
    BY <1>1, <2>1, <2>2, TimeTaken DEF Levels
  <2> QED BY <1>2, <1>5, <2>1, <2>3, EchoCallsSome DEF EchoInv, IsrIdle, IsAlive, Measured
<1>6. CASE run'["isr"] = <<>> /\ UNCHANGED sonar
  BY <1>6, EchoFrame
<1> QED BY <1>3, <1>4, <1>5, <1>6

LEMMA EchoKept ==
    ASSUME LifeTypes, HeldInv, EchoInv, LifeEffect
    PROVE  EchoInv'
<1>0. driver' = driver /\ (driver # "simple_ultra" => EchoInv')
  BY TypesKept DEF EchoInv
<1> SUFFICES ASSUME driver = "simple_ultra" PROVE EchoInv'
  BY <1>0
<1>1. CASE ModuleEffect
  BY <1>1, EchoModule
<1>2. CASE UserEffect
  BY <1>2 DEF UserEffect
<1>3. ASSUME NEW c \in Life!Callbacks, run[c] # <<>>, CallbackEffect(c) PROVE EchoInv'
  <2>1. /\ phase' \in {phase, "oops"} /\ ToDo' = ToDo /\ failed' = failed
        /\ \A k \in Life!Contexts \ {c} : run'[k] = run[k]
    BY <1>3, CallbackTypes
  <2>2. ASSUME sonar' = sonar, "isr" \in armed' => "isr" \in armed,
               run'["isr"] \in {run["isr"], <<>>}
        PROVE  EchoInv'
    BY <1>0, <2>1, <2>2, EchoFrame DEF LifeEffect
  <2>3. CASE c = "isr" /\ ~Stops /\ ~ \E cb \in {"timer", "tasklet"} : Arms(c, cb)
    <3>1. /\ Listens
          /\ \/ run'["isr"] = EchoCalls /\ sonar' = [sonar EXCEPT !.now = sonar.line]
             \/ /\ run["isr"] = EchoCalls /\ run'["isr"] = <<>>
                /\ \/ Life!EchoStart /\ sonar' = [sonar EXCEPT !.start = sonar.now, !.flag = 2]
                   \/ Life!EchoStop /\ sonar' = [sonar EXCEPT !.stop = sonar.now, !.flag = 3]
                   \/ ~Life!EchoStart /\ ~Life!EchoStop /\ UNCHANGED sonar
      BY <1>3, <2>3, Others DEF CallbackEffect, Queues
    <3>2. UNCHANGED <<driver, phase, armed, failed>>
      BY <3>1 DEF Listens
    <3>3. phase \in {"init", "up", "exit"} /\ run["isr"] # <<>>
      BY <1>3, <2>3 DEF LifeEffect
    <3> QED BY <2>1, <3>1, <3>2, <3>3, EchoListens
  <2>4. CASE Stops
    BY <2>2, <2>4 DEF Stops
  <2>5. ASSUME NEW cb \in {"timer", "tasklet"}, Arms(c, cb) PROVE EchoInv'
    <3>1. run'["isr"] \in {run["isr"], <<>>}
      BY <2>1, <2>5, Others DEF Arms
    <3> QED BY <2>2, <2>5, <3>1 DEF Arms
  <2>6. CASE c # "isr" /\ ~Stops
    <3>1. run'["isr"] = run["isr"]
      BY <2>1, <2>6, Others
    <3>2. sonar' = sonar /\ ("isr" \in armed' => "isr" \in armed)
      BY <1>3, <2>6, Others DEF CallbackEffect, Arms, Lights, Idles, Samples, Works1
    <3> QED BY <2>2, <3>1, <3>2
  <2> QED BY <2>3, <2>4, <2>5, <2>6
<1>4. ASSUME NEW cb \in Life!Callbacks, Starts(cb) PROVE EchoInv'
  <2>1. /\ UNCHANGED <<phase, sonar, failed>> /\ ToDo' = ToDo
        /\ \A k \in Life!Contexts \ {cb} : run'[k] = run[k]
        /\ cb \in armed /\ armed' = armed \ {cb}
    BY <1>4, StartTypes DEF Starts
  <2>2. CASE cb = "isr"
    <3>1. run'["isr"] # EchoCalls /\ ~IsrIdle
      BY <1>4, <2>2 DEF Starts, IsrIdle, IsAlive
    <3> QED BY <1>0, <2>1, <2>2, <3>1 DEF EchoInv, IsrIdle, IsAlive, Measured
  <2>3. CASE cb # "isr"
    <3>1. run'["isr"] = run["isr"]
      BY <2>1, <2>3, Others
    <3> QED BY <1>0, <2>1, <2>3, <3>1, EchoFrame
  <2> QED BY <2>2, <2>3
<1>5. CASE WorldEffect
  <2>1. /\ phase' = "exit" \/ ToDo' = ToDo
        /\ run'["isr"] = run["isr"]
    BY <1>5, WorldTypes, Others
  <2>2. CASE Echoes
    <3>1. sonar \in SonarTypes
      BY DEF EchoInv
    <3>2. UNCHANGED <<phase, run, failed>> /\ ToDo' = ToDo
      BY <2>2 DEF Echoes, ToDo
    <3>3. CASE sonar.line = "triggered" /\ sonar' = [sonar EXCEPT !.line = "high"]
      <4>1. /\ sonar'.line = "high" /\ sonar'.flag = sonar.flag /\ sonar'.start = sonar.start
            /\ sonar'.stop = sonar.stop /\ sonar' \in SonarTypes
        BY <3>1, <3>3 DEF SonarTypes
      <4>2. run["isr"] = <<>> /\ sonar.flag # 2
        BY <3>3 DEF EchoInv, IsrIdle, IsAlive
      <4> QED BY <1>0, <3>2, <3>3, <4>1, <4>2, EchoCallsSome DEF EchoInv, IsrIdle, IsAlive, Measured
    <3>4. CASE sonar.line = "high" /\ sonar' = [sonar EXCEPT !.line = "low"]
      <4>1. /\ sonar'.line = "low" /\ sonar'.flag = sonar.flag /\ sonar'.start = sonar.start
            /\ sonar'.stop = sonar.stop /\ sonar' \in SonarTypes
        BY <3>1, <3>4 DEF SonarTypes
      <4>2. sonar.flag = 2 => sonar.start = "high" /\ run["isr"] = <<>>
        BY <3>4 DEF EchoInv, IsrIdle, IsAlive
      <4> QED BY <1>0, <3>2, <3>4, <4>1, <4>2, EchoCallsSome DEF EchoInv, IsrIdle, IsAlive, Measured
    <3> QED BY <2>2, <3>3, <3>4 DEF Echoes
  <2>3. CASE ~Echoes
    <3>1. sonar' = sonar /\ failed' = failed /\ armed' = armed
      BY <1>5, <2>3 DEF WorldEffect, Edges, Presses, Begins, Leaves, Unloads, Uses
    <3>2. phase' = "init" => phase = "init" /\ ToDo' = ToDo
      BY <1>5, <2>1, <2>3 DEF WorldEffect, Edges, Presses, Begins, Leaves, Unloads, Uses
    <3>3. phase = "init" /\ phase' # "init" => ToDo = {}
      BY <1>5, <2>3, NoActs DEF WorldEffect, Edges, Presses, Begins, Leaves, Unloads, Uses, ToDo
    <3>4. phase = "init" /\ <<"flag_0", "nothing">> \in ToDo => phase' = "init" /\ ToDo' = ToDo
      BY <3>2, <3>3
    <3>5. phase # "oops"
      BY DEF LifeEffect
    <3> QED BY <1>0, <2>1, <3>1, <3>2, <3>4, <3>5, EchoFrame
  <2> QED BY <2>2, <2>3
<1> QED BY <1>1, <1>2, <1>3, <1>4, <1>5 DEF LifeEffect, ModuleEffect

(***************************************************************************)
(* What a call takes for granted                                           *)
(***************************************************************************)
FailedInv == failed \subseteq {"irq", "wq", "thread", "class", "device", "file"}

LEMMA FailedKept ==
    ASSUME LifeTypes, FailedInv, LifeEffect
    PROVE  FailedInv'
<1>1. CASE ModuleEffect
  <2>1. ASSUME NEW r \in Resources, Misses(r) PROVE FailedInv'
    <3>1. failed' = failed \cup {r}
      BY <2>1 DEF Misses
    <3>2. r \in {"irq", "wq", "thread"} \cup {"class", "device", "file"}
      BY <2>1 DEF Misses, Survives, GivesUp
    <3> QED BY <3>1, <3>2 DEF FailedInv
  <2>2. CASE ~ \E r \in Resources : Misses(r)
    <3>1. failed' = failed
      BY <1>1, <2>2 DEF ModuleEffect, InitEffect, ExitEffect, Stops, Abandons, Disables, Gets, Gives,
                        Hands, Awaits, Shines, Tunes, Disarms, Looks, TellsThread
    <3> QED BY <3>1 DEF FailedInv
  <2> QED BY <2>1, <2>2
<1>2. CASE UserEffect
  BY <1>2 DEF UserEffect, Opens, Notes, Closes, Quiets, FailedInv
<1>3. ASSUME NEW c \in Life!Callbacks, run[c] # <<>>, CallbackEffect(c) PROVE FailedInv'
  BY <1>3, CallbackTypes DEF FailedInv
<1>4. ASSUME NEW cb \in Life!Callbacks, Starts(cb) PROVE FailedInv'
  BY <1>4 DEF Starts, FailedInv
<1>5. CASE WorldEffect
  BY <1>5 DEF WorldEffect, Edges, Echoes, Presses, Begins, Leaves, Unloads, Uses, FailedInv
<1> QED BY <1>1, <1>2, <1>3, <1>4, <1>5 DEF LifeEffect, ModuleEffect

\* What the order of init and exit says of what is held.
LEMMA HeldWhenUp ==
    ASSUME LifeTypes, HeldInv, phase = "up", NEW r \in Needed(driver) \ failed
    PROVE  r \in held
<1>1. ToDo = {}
  BY ToDoKeeps
<1>2. Own = Needed(driver) \ (Asks(ToDo) \cup failed)
  BY DEF HeldInv, Failing
<1> QED BY <1>1, <1>2, NothingToDo DEF Own
LEMMA HeldInInit ==
    ASSUME LifeTypes, HeldInv, phase = "init", driver # "simple_sysfs",
           NEW r \in Needed(driver) \ failed, <<"request", r>> \notin ToDo
    PROVE  r \in held
<1>1. ~Failing
  BY FailDriver
<1>2. Own = Needed(driver) \ (Asks(ToDo) \cup failed) /\ r \notin Asks(ToDo)
  BY <1>1 DEF HeldInv, Asks
<1> QED BY <1>2 DEF Own
LEMMA HeldInExit ==
    ASSUME LifeTypes, HeldInv, phase = "exit", NEW r \in Resources \ failed,
           <<"free", r>> \in ToDo \/ r \in Needed(driver) \cap Stay
    PROVE  r \in held
<1>1. Own = (Freed(ToDo) \cup (Needed(driver) \cap Stay)) \ failed
  BY DEF HeldInv
<1> QED BY <1>1 DEF Own, Freed

\* Where a call is made.
LEMMA WhenTable ==
    ASSUME LifeTypes, SensorInv, phase \in {"init", "up", "exit"}
    PROVE  /\ run["user"] = <<>> => Life!When = phase
           /\ run["user"] # <<>> =>
                  driver = "simple_sensor" /\ Life!When = "opening" /\ phase = "up"
<1>1. run["user"] # <<>> => run["user"] \in Rests(driver, "user") /\ driver \in DOMAIN Life!Programs
  BY ContextNames, TypesAt
<1>2. run["user"] # <<>> => driver = "simple_sensor"
  BY <1>1, RestsDrivers
<1> QED BY <1>2 DEF Life!When, Life!Running, SensorInv

(***************************************************************************)
(* The calls that take something for granted                               *)
(***************************************************************************)
LEMMA IsrNeeds ==
    ASSUME LifeTypes, run["isr"] # <<>>
    PROVE  /\ driver \in {"ch6"} \cup IrqDrivers
           /\ LET needs == Head(run["isr"]).needs
              IN  /\ driver = "ch6" => needs \subseteq {"LED", "timer"}
                  /\ driver = "simple_sensor" => needs \subseteq {"start"}
                  /\ driver \in Tasklets => needs \subseteq {"tasklet"}
                  /\ driver = "simple_workqueue" =>
                         needs = {} \/ (needs = {"wq"} /\ run["isr"] = QueueCalls)
                  /\ driver \in {"switch_irq", "simple_ultra"} => needs = {}
<1>1. run["isr"] \in Rests(driver, "isr") /\ driver \in DOMAIN Life!Programs
  BY ContextNames, TypesAt
<1>2. driver \in {"ch6"} \cup IrqDrivers
  BY <1>1, RestsDrivers
<1>3. CASE driver = "ch6"
  <2>1. Rests("ch6", "isr") = {<<Life!Led("off"), Life!Led("on"), Life!Arm("timer")>>,
                              <<Life!Led("on"), Life!Arm("timer")>>, <<Life!Arm("timer")>>}
    BY RestsTable
  <2>2. Head(run["isr"]) \in {Life!Led("off"), Life!Led("on"), Life!Arm("timer")}
    BY <1>1, <1>3, <2>1, HeadTail
  <2>3. Head(run["isr"]).needs \subseteq {"LED", "timer"}
    BY <2>2, CallFields
  <2> QED BY <1>2, <1>3, <2>3 DEF Tasklets
<1>4. CASE driver = "simple_sensor"
  <2>1. Rests("simple_sensor", "isr") = {<<Life!Call("print", "start", {"start"})>>}
    BY RestsTable
  <2>2. Head(run["isr"]) = Life!Call("print", "start", {"start"})
    BY <1>1, <1>4, <2>1, HeadTail
  <2>3. Head(run["isr"]).needs = {"start"}
    BY <2>2, CallFields
  <2> QED BY <1>2, <1>4, <2>3 DEF Tasklets
<1>5. CASE driver \in Tasklets
  <2>1. Rests(driver, "isr") = {<<Life!Arm("tasklet")>>}
    BY <1>5, RestsTable
  <2>2. Head(run["isr"]) = Life!Arm("tasklet")
    BY <1>1, <2>1, HeadTail
  <2>3. Head(run["isr"]).needs = {"tasklet"}
    BY <2>2, CallFields
  <2> QED BY <1>2, <1>5, <2>3 DEF Tasklets
<1>6. CASE driver = "simple_workqueue"
  <2>1. Rests("simple_workqueue", "isr") = {<<Life!If("wq", QueueCalls)>>, QueueCalls}
    BY RestsTable
  <2>2. CASE run["isr"] = <<Life!If("wq", QueueCalls)>>
    <3>1. Head(run["isr"]).needs = {}
      BY <2>2, HeadTail, CallFields
    <3> QED BY <1>2, <1>6, <3>1 DEF Tasklets
  <2>3. CASE run["isr"] = QueueCalls
    <3>1. Head(run["isr"]).needs = {"wq"}
      BY <2>3, HeadTail, CallFields DEF QueueCalls
    <3> QED BY <1>2, <1>6, <2>3, <3>1 DEF Tasklets
  <2> QED BY <1>1, <1>6, <2>1, <2>2, <2>3
<1>7. CASE driver \in {"switch_irq", "simple_ultra"}
  <2>1. /\ Rests("switch_irq", "isr") = {<<Life!Do("print")>>}
        /\ Rests("simple_ultra", "isr") = {<<Life!Do("time"), Life!Do("echo")>>, <<Life!Do("echo")>>}
    BY RestsTable
  <2>2. Head(run["isr"]) \in {Life!Do("print"), Life!Do("time"), Life!Do("echo")}
    BY <1>1, <1>7, <2>1, HeadTail
  <2>3. Head(run["isr"]).needs = {}
    BY <2>2, CallFields
  <2> QED BY <1>2, <1>7, <2>3 DEF Tasklets
<1> QED BY <1>2, <1>3, <1>4, <1>5, <1>6, <1>7 DEF IrqDrivers

LEMMA TimerNeeds ==
    ASSUME LifeTypes, run["timer"] # <<>>
    PROVE  /\ driver \in {"simple_timer", "ch5", "ch6"}
           /\ Head(run["timer"]).needs \subseteq
                  IF driver = "simple_timer" THEN {"timer"} ELSE {"LED", "timer"}
<1>1. run["timer"] \in Rests(driver, "timer") /\ driver \in DOMAIN Life!Programs
  BY ContextNames, TypesAt
<1>2. driver \in {"simple_timer", "ch5", "ch6"}
  BY <1>1, RestsDrivers
<1>3. /\ Rests("simple_timer", "timer") = {<<Life!Arm("timer")>>}
      /\ Rests("ch5", "timer") =
            {<<Life!Do("sample"), Life!Call("show", "LED", {"LED"}), Life!Arm("timer")>>,
             <<Life!Call("show", "LED", {"LED"}), Life!Arm("timer")>>, <<Life!Arm("timer")>>}
      /\ Rests("ch6", "timer") = {<<Life!Led("off")>>}
  BY RestsTable
<1>4. CASE driver = "simple_timer"
  <2>1. Head(run["timer"]) = Life!Arm("timer")
    BY <1>1, <1>3, <1>4, HeadTail
  <2> QED BY <1>4, <2>1, CallFields
<1>5. CASE driver = "ch5"
  <2>1. Head(run["timer"]) \in {Life!Do("sample"), Life!Call("show", "LED", {"LED"}), Life!Arm("timer")}
    BY <1>1, <1>3, <1>5, HeadTail
  <2>2. Head(run["timer"]).needs \subseteq {"LED", "timer"}
    BY <2>1, CallFields
  <2> QED BY <1>5, <2>2
<1>6. CASE driver = "ch6"
  <2>1. Head(run["timer"]) = Life!Led("off")
    BY <1>1, <1>3, <1>6, HeadTail
  <2>2. Head(run["timer"]).needs \subseteq {"LED", "timer"}
    BY <2>1, CallFields
  <2> QED BY <1>6, <2>2
<1> QED BY <1>2, <1>4, <1>5, <1>6

\* The other contexts take nothing for granted.
LEMMA OtherNeeds ==
    ASSUME LifeTypes, NEW c \in Life!Contexts \ {"module", "isr", "timer"}, run[c] # <<>>
    PROVE  Head(run[c]).needs = {}
<1>1. run[c] \in Rests(driver, c) /\ driver \in DOMAIN Life!Programs
  BY TypesAt
<1>2. c \in {"user", "tasklet", "thread"} \cup Works
  BY ContextNames
<1>3. CASE c = "user"
  <2>1. driver = "simple_sensor"
    BY <1>1, <1>3, RestsDrivers
  <2>2. Rests("simple_sensor", "user") =
            {<<Life!Do("enable"), Life!Request("start")>>, <<Life!Request("start")>>,
             <<Life!Do("disable"), Life!Wait("isr")>>, <<Life!Wait("isr")>>}
    BY RestsTable
  <2>3. Head(run[c]) \in {Life!Do("enable"), Life!Request("start"), Life!Do("disable"), Life!Wait("isr")}
    BY <1>1, <1>3, <2>1, <2>2, HeadTail
  <2> QED BY <2>3, CallFields
<1>4. CASE c = "tasklet"
  <2>1. driver \in Tasklets
    BY <1>1, <1>4, RestsDrivers
  <2>2. Rests(driver, "tasklet") = {<<Life!Do("print")>>}
    BY <2>1, RestsTable
  <2>3. Head(run[c]) = Life!Do("print")
    BY <1>1, <1>4, <2>2, HeadTail
  <2> QED BY <2>3, CallFields
<1>5. CASE c = "thread"
  <2>1. driver = "simple_kthread"
    BY <1>1, <1>5, RestsDrivers
  <2>2. Rests("simple_kthread", "thread") = {<<Life!Do("until_stop")>>}
    BY RestsTable
  <2>3. Head(run[c]) = Life!Do("until_stop")
    BY <1>1, <1>5, <2>1, <2>2, HeadTail
  <2> QED BY <2>3, CallFields
<1>6. CASE c \in Works
  <2>1. driver = "simple_workqueue"
    BY <1>1, <1>6, RestsDrivers
  <2>2. \A w \in Works : Rests("simple_workqueue", w) =
            {<<Life!Do("fill"), Life!Do("kfree")>>, <<Life!Do("kfree")>>}
    BY RestsTable
  <2>3. Head(run[c]) \in {Life!Do("fill"), Life!Do("kfree")}
    BY <1>1, <1>6, <2>1, <2>2, HeadTail
  <2> QED BY <2>3, CallFields
<1> QED BY <1>2, <1>3, <1>4, <1>5, <1>6

Allowed(u) ==
    \/ u.when = "init" /\ u.who = "isr"
    \/ u.when = "init" /\ u.who = "module" /\ "thread" \in failed
    \/ u.when = "exit" /\ u.who = "timer"
    \/ u.when = "opening" /\ u.what = "start"
Lack(c, r) == [who |-> c, what |-> r, when |-> Life!When]
LEMMA LackFields == \A c, r : Lack(c, r).who = c /\ Lack(c, r).what = r /\ Lack(c, r).when = Life!When
BY DEF Lack

\* init arms what it has set up, and exit turns off a light that is still its own.
LEMMA ModuleNeeds ==
    ASSUME LifeTypes, HeldInv, FailedInv, SensorInv, phase \in {"init", "up", "exit"},
           run["module"] # <<>>, NEW r \in Head(run["module"]).needs, r \notin held
    PROVE  Allowed(Lack("module", r))
<1> DEFINE s == run["module"]
           h == Head(s)
<1>1. driver \in DOMAIN Life!Programs /\ phase \in {"init", "exit"}
  BY DEF LifeTypes
<1>2. CASE phase = "init"
  <2>1. InitOrder(driver, s) /\ s \in Seq(InitCalls(driver)) /\ Ordered(s, InitRules(driver))
    BY <1>2 DEF LifeTypes, InitOrder
  <2>2. h \in InitCalls(driver)
    BY <2>1, HeadAndTail
  <2>3. /\ ToDo = {Act(h)} \cup Acts(Tail(s))
        /\ h.op # "wait" => Act(h) \notin Acts(Tail(s))
    BY <2>1, LaterIsActs, OrderedTail DEF ToDo
  <2>4. InitKeeps(driver, Acts(Tail(s)))
    BY <2>1, InitOrderTail, InitOrderKeeps
  <2>5. r \in h.needs
    OBVIOUS
  <2> HIDE DEF h, s
  <2>6. h.op \in {"arm", "led"}
    BY <1>1, <2>2, <2>5, InitHeads
  <2>7. CASE h.op = "arm"
    <3>1. /\ h = Life!Arm(h.arg) /\ h.arg \in Needed(driver)
          /\ \/ h.arg = "timer" /\ driver \in {"simple_timer", "ch5"}
             \/ h.arg = "thread" /\ driver = "simple_kthread"
      BY <1>1, <2>2, <2>7, InitHeads
    <3>2. r = h.arg /\ Act(h) = <<"arm", r>>
      BY <2>5, <2>7, <3>1, CallFields DEF Act
    <3>3. <<"request", r>> \notin ToDo
      BY <2>3, <2>4, <2>7, <3>1, <3>2 DEF InitKeeps
    <3>4. r \in failed
      BY <1>2, <3>1, <3>2, <3>3, HeldInInit
    <3>5. r = "thread" /\ driver = "simple_kthread"
      BY <3>1, <3>2, <3>4 DEF FailedInv
    <3>6. Life!When = "init"
      BY <1>2, WhenTable
    <3> QED BY <3>4, <3>5, <3>6, LackFields DEF Allowed
  <2>8. CASE h.op = "led"
    <3>1. h = Life!Led("on") /\ driver = "simple_led"
      BY <1>1, <2>2, <2>8, InitHeads
    <3>2. r = "LED" /\ Act(h) = <<"led", "on">>
      BY <2>5, <3>1, CallFields DEF Act
    <3>3. <<"request", r>> \notin ToDo
      BY <2>3, <2>4, <2>8, <3>1, <3>2 DEF InitKeeps
    <3>4. r \in Needed(driver) \ failed
      BY <3>1, <3>2 DEF FailedInv, Needed, Tasklets
    <3> QED BY <1>2, <3>1, <3>3, <3>4, HeldInInit
  <2> QED BY <2>6, <2>7, <2>8
<1>3. CASE phase = "exit"
  <2>1. ExitOrder(driver, s) /\ s \in Seq(ExitCalls(driver))
    BY <1>3 DEF LifeTypes, ExitOrder
  <2>2. h \in ExitCalls(driver) /\ ToDo = {Act(h)} \cup Acts(Tail(s))
    BY <2>1, HeadAndTail, LaterIsActs DEF ToDo
  <2>3. ExitKeeps(driver, ToDo)
    BY <1>3, ToDoKeeps
  <2>4. r \in h.needs
    OBVIOUS
  <2> HIDE DEF h, s
  <2>5. h = Life!Led("off") /\ driver \in {"ch5", "ch6", "simple_led"}
    BY <1>1, <2>2, <2>4, ExitHeads
  <2>6. r = "LED" /\ Act(h) = <<"led", "off">>
    BY <2>4, <2>5, CallFields DEF Act
  <2>7. <<"free", "LED">> \in ToDo
    BY <2>2, <2>3, <2>5, <2>6 DEF ExitKeeps
  <2>8. r \in Resources \ failed
    BY <2>6 DEF FailedInv, Resources
  <2> QED BY <1>3, <2>6, <2>7, <2>8, HeldInExit
<1> QED BY <1>1, <1>2, <1>3

\* A handler finds what it uses unless init is not done with it.
LEMMA IsrReady ==
    ASSUME LifeTypes, HeldInv, FailedInv, IsrInv, SensorInv, phase \in {"init", "up", "exit"},
           run["isr"] # <<>>, NEW r \in Head(run["isr"]).needs, r \notin held
    PROVE  Allowed(Lack("isr", r))
<1> DEFINE needs == Head(run["isr"]).needs
<1>1. /\ driver \in {"ch6"} \cup IrqDrivers
      /\ driver = "ch6" => needs \subseteq {"LED", "timer"}
      /\ driver = "simple_sensor" => needs \subseteq {"start"}
      /\ driver \in Tasklets => needs \subseteq {"tasklet"}
      /\ driver = "simple_workqueue" => needs = {} \/ (needs = {"wq"} /\ run["isr"] = QueueCalls)
      /\ driver \in {"switch_irq", "simple_ultra"} => needs = {}
  BY IsrNeeds
<1>2. r \in needs
  OBVIOUS
<1> HIDE DEF needs
<1>3. CASE phase = "init"
  BY <1>3, WhenTable, LackFields DEF Allowed
<1>4. CASE phase \in {"up", "exit"} /\ driver = "simple_sensor"
  <2>1. r = "start"
    BY <1>1, <1>2, <1>4
  <2>2. run["user"] # <<>>
    BY <1>4, <2>1 DEF SensorInv
  <2> QED BY <2>1, <2>2, WhenTable, LackFields DEF Allowed
<1>5. CASE phase \in {"up", "exit"} /\ driver # "simple_sensor"
  <2>1. /\ r \in Needed(driver) /\ r \in {"LED", "timer", "tasklet", "wq"}
        /\ r = "LED" => driver = "ch6"
        /\ r = "wq" => driver = "simple_workqueue" /\ run["isr"] = QueueCalls
    BY <1>1, <1>2, <1>5 DEF Needed, Tasklets, IrqDrivers
  <2>2. r \notin failed
    BY <2>1 DEF FailedInv, IsrInv
  <2>3. phase # "up"
    BY <2>1, <2>2, HeldWhenUp
  <2>4. phase = "exit"
    BY <1>5, <2>3
  <2>5. WaitIsr \in ToDo /\ ExitKeeps(driver, ToDo)
    BY <2>4, ExitWaits, ToDoKeeps
  <2>6. /\ r = "LED" => <<"free", "LED">> \in ToDo
        /\ r = "wq" => <<"free", "wq">> \in ToDo
        /\ r \in {"timer", "tasklet"} => r \in Stay
    BY <2>1, <2>5 DEF ExitKeeps, WaitIsr, Stay
  <2>7. r \in Resources
    BY <2>1 DEF Resources
  <2>8. <<"free", r>> \in ToDo \/ r \in Needed(driver) \cap Stay
    BY <2>1, <2>6
  <2> QED BY <2>2, <2>4, <2>7, <2>8, HeldInExit
<1> QED BY <1>3, <1>4, <1>5

\* A timer is armed when all that its function uses is set up.
LEMMA TimerReady ==
    ASSUME LifeTypes, HeldInv, FailedInv, TimerInv, SensorInv, phase \in {"init", "up", "exit"},
           run["timer"] # <<>>, NEW r \in Head(run["timer"]).needs, r \notin held
    PROVE  Allowed(Lack("timer", r))
<1>1. /\ driver \in {"simple_timer", "ch5", "ch6"}
      /\ r \in IF driver = "simple_timer" THEN {"timer"} ELSE {"LED", "timer"}
  BY TimerNeeds
<1>2. "timer" \in held
  BY DEF TimerInv, IsAlive
<1>3. r = "LED" /\ driver \in {"ch5", "ch6"} /\ r \in Needed(driver) \ failed
  BY <1>1, <1>2 DEF Needed, Tasklets, FailedInv
<1>4. CASE phase = "exit"
  BY <1>1, <1>4, WhenTable, LackFields DEF Allowed
<1>5. CASE phase = "up"
  BY <1>3, <1>5, HeldWhenUp
<1>6. CASE phase = "init"
  <2>1. InitKeeps(driver, ToDo)
    BY <1>6, ToDoKeeps
  <2>2. <<"request", "timer">> \notin ToDo
    BY <1>2, <1>6, AsksUnheld DEF Resources
  <2>3. <<"request", "LED">> \notin ToDo
    BY <1>3, <2>1, <2>2 DEF InitKeeps
  <2> QED BY <1>3, <1>6, <2>3, HeldInInit
<1> QED BY <1>4, <1>5, <1>6

LEMMA NeedsMet ==
    ASSUME LifeTypes, HeldInv, FailedInv, IsrInv, TimerInv, SensorInv,
           phase \in {"init", "up", "exit"},
           NEW c \in Life!Contexts, run[c] # <<>>, NEW r \in Head(run[c]).needs, r \notin held
    PROVE  Allowed(Lack(c, r))
<1>1. CASE c = "module"
  BY <1>1, ModuleNeeds
<1>2. CASE c = "isr"
  BY <1>2, IsrReady
<1>3. CASE c = "timer"
  BY <1>3, TimerReady
<1>4. CASE c \notin {"module", "isr", "timer"}
  BY <1>4, OtherNeeds
<1> QED BY <1>1, <1>2, <1>3, <1>4

\* What a step adds to the calls that came too early or too late.
LEMMA LackSteps ==
    ASSUME LifeTypes, Life!LifeNext
    PROVE  unready' \subseteq unready \cup
               UNION {{Lack(c, r) : r \in Head(run[c]).needs \ held} :
                          c \in {k \in Life!Contexts : run[k] # <<>>}}
<1> DEFINE Goal ==
        unready' \subseteq unready \cup
            UNION {{Lack(c, r) : r \in Head(run[c]).needs \ held} :
                       c \in {k \in Life!Contexts : run[k] # <<>>}}
<1>1. ASSUME NEW c \in Life!Contexts, NEW seq, Life!GoOn(c, seq), run[c] # <<>> PROVE Goal
  <2>1. unready' = unready \cup {Lack(c, r) : r \in Head(run[c]).needs \ held}
    BY <1>1 DEF Life!GoOn, Life!Needs, Lack
  <2> QED BY <1>1, <2>1
<1>2. ASSUME NEW c \in Life!Contexts, Life!Oops(c) PROVE Goal
  <2>1. unready' = unready \cup {Lack(c, r) : r \in Head(run[c]).needs \ held} /\ run[c] # <<>>
    BY <1>2 DEF Life!Oops, Life!Needs, Lack, Life!Now, Life!Running
  <2> QED BY <2>1
<1>3. ASSUME NEW c \in Life!Contexts, Life!Step(c) PROVE Goal
  <2>1. CASE Life!Oops(c)
    BY <1>2, <2>1
  <2>2. CASE Life!InitFails(c)
    BY <2>2 DEF Life!InitFails
  <2>3. CASE ~Life!Oops(c) /\ ~Life!InitFails(c)
    <3>1. \E seq : Life!GoOn(c, seq)
      BY <1>3, <2>3
         DEF Life!Step, Life!Acquire, Life!AcquireFails, Life!Release, Life!TestPointer,
             Life!ArmCallback, Life!DelTimer, Life!WaitIdle, Life!SetDepth, Life!QueueWork,
             Life!WorkStep, Life!ThreadStops, Life!StopThread, Life!Report, Life!Pins, Life!Sonar,
             Life!Advance
    <3>2. run[c] # <<>>
      BY <1>3, StepOf
    <3> QED BY <1>1, <3>1, <3>2
  <2> QED BY <2>1, <2>2, <2>3
<1>4. ASSUME UNCHANGED unready PROVE Goal
  BY <1>4
<1>5. CASE \E c \in Life!Contexts : Life!Step(c)
  BY <1>3, <1>5
<1>6. CASE ~ \E c \in Life!Contexts : Life!Step(c)
  <2>1. unready' = unready
    BY <1>6 DEF Life!LifeNext, Life!Runs, Life!Start, Life!Edge, Life!Echo, Life!Press, Life!Use,
                Life!Unload, Life!Returns, Life!InitReturns, Life!ExitReturns
  <2> QED BY <1>4, <2>1
<1> QED BY <1>5, <1>6

(***************************************************************************)
(* The inductive invariant                                                 *)
(***************************************************************************)
LifeInv ==
    /\ LifeTypes /\ HeldInv /\ FailedInv /\ IsrInv /\ WorksInv /\ ThreadInv
    /\ TimerInv /\ LedInv /\ SensorInv /\ EchoInv /\ Life!ReadyWhenUsed

LEMMA LifeInitInv == Life!LifeInit => LifeInv
<1> SUFFICES ASSUME Life!LifeInit PROVE LifeInv
  OBVIOUS
<1>1. /\ driver \in DOMAIN Life!Programs /\ phase = "init"
      /\ run = [c \in Life!Contexts |-> IF c = "module" THEN Life!Code("init") ELSE <<>>]
      /\ held = {} /\ armed = {} /\ depth = 0 /\ items = {} /\ led = "off"
      /\ button = [now |-> "off", read |-> "off"]
      /\ sonar = [line |-> "quiet", flag |-> 3, now |-> "none", start |-> "none", stop |-> "none"]
      /\ failed = {} /\ misfreed = {} /\ unready = {} /\ stopped = {} /\ raced = {}
  BY DEF Life!LifeInit
<1>2. /\ run["module"] = Life!Programs[driver]["init"]
      /\ \A k \in Life!Contexts \ {"module"} : run[k] = <<>>
      /\ run = [k \in Life!Contexts |-> run[k]]
  BY <1>1, ContextNames DEF Life!Code
<1>3. /\ InitOrder(driver, run["module"]) /\ Asks(ToDo) = Needed(driver)
      /\ Frees(ToDo) = {} /\ Fail \notin ToDo
  BY <1>1, <1>2, InitTable DEF StartsWell, ToDo
<1>4. \A k \in {"user", "isr", "timer", "tasklet", "thread"} \cup Works : run[k] = <<>>
  BY <1>2, ContextNames
<1>5. LifeTypes
  BY <1>1, <1>2, <1>3 DEF LifeTypes
<1>6. InitKeeps(driver, ToDo)
  BY <1>1, <1>5, ToDoKeeps
<1>7. HeldInv /\ FailedInv
  BY <1>1, <1>3 DEF HeldInv, FailedInv, Failing, Own
<1>8. IsrInv /\ WorksInv /\ ThreadInv /\ TimerInv /\ LedInv
  BY <1>1, <1>4, NotEmpty DEF IsrInv, WorksInv, ThreadInv, TimerInv, LedInv, IsAlive, QueueCalls
<1>9. "irq" \in Needed(driver) => <<"request", "irq">> \in ToDo
  BY <1>3 DEF Asks
<1>10. SensorInv
  <2>1. driver = "simple_sensor" => Undisabled
    BY <1>9 DEF Undisabled, Needed, Tasklets
  <2> QED BY <1>1, <1>4, <2>1, UserCallsDiffer DEF SensorInv
<1>11. EchoInv
  <2>1. driver = "simple_ultra" => <<"flag_0", "nothing">> \in ToDo
    BY <1>6, <1>9 DEF InitKeeps, Needed, Tasklets
  <2>2. sonar \in SonarTypes /\ sonar.line = "quiet" /\ sonar.flag = 3
    BY <1>1 DEF SonarTypes, Levels
  <2> QED BY <1>1, <1>4, <2>1, <2>2 DEF EchoInv, IsrIdle, IsAlive
<1>12. Life!ReadyWhenUsed
  BY <1>1 DEF Life!ReadyWhenUsed
<1> QED BY <1>5, <1>7, <1>8, <1>10, <1>11, <1>12 DEF LifeInv

LEMMA FailedGrows ==
    ASSUME LifeTypes, LifeEffect
    PROVE  failed \subseteq failed'
<1>1. ModuleEffect => failed \subseteq failed'
  BY DEF ModuleEffect, InitEffect, ExitEffect, Stops, Abandons, Misses, Disables, Gets, Gives,
         Hands, Awaits, Shines, Tunes, Disarms, Looks, TellsThread
<1>2. UserEffect => failed \subseteq failed'
  BY DEF UserEffect, Opens, Notes, Closes, Quiets
<1>3. \A c \in Life!Callbacks : CallbackEffect(c) => failed \subseteq failed'
  BY CallbackTypes
<1>4. \A cb \in Life!Callbacks : Starts(cb) => failed \subseteq failed'
  BY DEF Starts
<1>5. WorldEffect => failed \subseteq failed'
  BY DEF WorldEffect, Edges, Echoes, Presses, Begins, Leaves, Unloads, Uses
<1> QED BY <1>1, <1>2, <1>3, <1>4, <1>5 DEF LifeEffect, ModuleEffect

LEMMA ReadyKept ==
    ASSUME LifeInv, Life!LifeNext, LifeEffect
    PROVE  Life!ReadyWhenUsed'
<1>1. LifeTypes /\ HeldInv /\ FailedInv /\ IsrInv /\ TimerInv /\ SensorInv /\ Life!ReadyWhenUsed
  BY DEF LifeInv
<1>2. phase \in {"init", "up", "exit"}
  BY DEF LifeEffect
<1>3. failed \subseteq failed'
  BY <1>1, FailedGrows
<1>4. \A u \in unready : Allowed(u)
  BY <1>1 DEF Life!ReadyWhenUsed, Allowed
<1>5. ASSUME NEW u \in unready' PROVE Allowed(u)
  <2>1. CASE u \in unready
    BY <1>4, <2>1
  <2>2. CASE u \notin unready
    <3>1. PICK c \in {k \in Life!Contexts : run[k] # <<>>} :
              u \in {Lack(c, r) : r \in Head(run[c]).needs \ held}
      BY <1>1, <1>5, <2>2, LackSteps
    <3>2. PICK r \in Head(run[c]).needs \ held : u = Lack(c, r)
      BY <3>1
    <3> QED BY <1>1, <1>2, <3>1, <3>2, NeedsMet
  <2> QED BY <2>1, <2>2
<1>6. \A u : Allowed(u) => Allowed(u)'
  BY <1>3 DEF Allowed
<1> QED BY <1>5, <1>6 DEF Life!ReadyWhenUsed, Allowed

LEMMA LifeNextInv == LifeInv /\ Life!LifeNext => LifeInv'
<1> SUFFICES ASSUME LifeInv, Life!LifeNext PROVE LifeInv'
  OBVIOUS
<1>1. /\ LifeTypes /\ HeldInv /\ FailedInv /\ IsrInv /\ WorksInv /\ ThreadInv
      /\ TimerInv /\ LedInv /\ SensorInv /\ EchoInv
  BY DEF LifeInv
<1>2. LifeEffect
  BY <1>1, LifeCases
<1>3. LifeTypes' /\ HeldInv' /\ FailedInv'
  BY <1>1, <1>2, TypesKept, HeldKept, FailedKept
<1>4. IsrInv' /\ WorksInv' /\ ThreadInv'
  BY <1>1, <1>2, IsrKept, WorksKept, ThreadKept
<1>5. TimerInv' /\ LedInv'
  BY <1>1, <1>2, TimerKept, LedKept
<1>6. SensorInv' /\ EchoInv'
  BY <1>1, <1>2, SensorKept, EchoKept
<1>7. Life!ReadyWhenUsed'
  BY <1>2, ReadyKept
<1> QED BY <1>3, <1>4, <1>5, <1>6, <1>7 DEF LifeInv

LEMMA LifeStutters ==
    LifeInv /\ UNCHANGED <<driver, depth, lifeVars>> => LifeInv'
<1> SUFFICES ASSUME LifeInv, UNCHANGED <<driver, depth, lifeVars>> PROVE LifeInv'
  OBVIOUS
<1>1. UNCHANGED <<driver, phase, run, held, armed, depth, items, led, button, sonar, failed,
                  misfreed, unready, stopped, raced>>
  BY DEF lifeVars
<1>2. ToDo' = ToDo /\ \A k : IsAlive(k)' = IsAlive(k)
  BY <1>1 DEF ToDo, IsAlive
<1>3. LifeTypes'
  BY <1>1 DEF LifeInv, LifeTypes
<1>4. HeldInv' /\ FailedInv'
  BY <1>1, <1>2 DEF LifeInv, HeldInv, FailedInv, Failing, Own
<1>5. IsrInv' /\ WorksInv' /\ ThreadInv' /\ TimerInv' /\ LedInv'
  BY <1>1, <1>2 DEF LifeInv, IsrInv, WorksInv, ThreadInv, TimerInv, LedInv, Stopper
<1>6. SensorInv'
  BY <1>1, <1>2 DEF LifeInv, SensorInv, QuietLine, Undisabled
<1>7. EchoInv'
  BY <1>1, <1>2 DEF LifeInv, EchoInv, IsrIdle, Measured
<1>8. Life!ReadyWhenUsed'
  BY <1>1 DEF LifeInv, Life!ReadyWhenUsed
<1> QED BY <1>3, <1>4, <1>5, <1>6, <1>7, <1>8 DEF LifeInv

(***************************************************************************)
(* What follows from it                                                    *)
(***************************************************************************)
LEMMA AliveOf == ASSUME NEW k, k \in Life!Alive PROVE k \in Life!Callbacks \cup armed /\ IsAlive(k)
BY DEF Life!Alive, Life!Running, IsAlive

LEMMA LifeUnloaded == LifeInv => Life!NothingAfterUnload /\ Life!LifeNoLeak
<1> SUFFICES ASSUME LifeInv PROVE Life!NothingAfterUnload /\ Life!LifeNoLeak
  OBVIOUS
<1>1. /\ LifeTypes /\ HeldInv /\ FailedInv /\ IsrInv /\ WorksInv /\ ThreadInv
      /\ TimerInv /\ LedInv
  BY DEF LifeInv
<1>2. misfreed \subseteq failed \cap {"irq", "wq"}
  BY <1>1 DEF HeldInv
<1>3. ASSUME phase = "gone"
      PROVE  /\ items = {} /\ held \subseteq Life!InModule \cup {"TRIG", "ECHO"}
             /\ Life!Alive \subseteq raced \cap Timers /\ (driver = "ch6" => led = "off")
  <2>1. ToDo = {}
    BY <1>1, <1>3, ToDoKeeps
  <2>2. items = {} /\ (driver = "ch6" => led = "off")
    BY <1>1, <1>3, <2>1 DEF WorksInv, LedInv
  <2>3. held \subseteq Stay \cup {"start"}
    <3>1. Own = (Freed(ToDo) \cup (Needed(driver) \cap Stay)) \ failed /\ "opened" \notin held
      BY <1>1, <1>3 DEF HeldInv
    <3> QED BY <2>1, <3>1, NothingToDo DEF Own
  <2>4. ASSUME NEW k \in Life!Alive PROVE k \in raced \cap Timers
    <3>1. IsAlive(k) /\ k \in {"isr", "timer", "tasklet", "thread"} \cup Works
      BY <1>1, AliveOf, ContextNames DEF LifeTypes
    <3>2. k # "isr"
      <4>1. "irq" \notin held
        BY <2>3 DEF Stay
      <4> QED BY <1>1, <1>3, <3>1, <4>1 DEF IsrInv, IsAlive
    <3>3. k # "thread"
      BY <1>1, <1>3, <2>1, <3>1 DEF ThreadInv
    <3>4. k \notin Works
      BY <1>1, <2>2, <3>1 DEF WorksInv
    <3>5. k \in Timers
      BY <3>1, <3>2, <3>3, <3>4 DEF Timers
    <3>6. k \in held /\ (k \in stopped => k \in raced)
      BY <1>1, <3>1, <3>5 DEF TimerInv, Timers
    <3>7. k \in stopped
      BY <1>1, <1>3, <2>1, <3>5, <3>6 DEF TimerInv, Timers
    <3> QED BY <3>5, <3>6, <3>7
  <2> QED BY <2>2, <2>3, <2>4 DEF Life!InModule, Stay
<1> QED BY <1>2, <1>3 DEF Life!NothingAfterUnload, Life!LifeNoLeak, Life!Gone, Timers

LEMMA LifeReady == LifeInv => Life!ReadyWhenUsed /\ Life!LifeSensorFollowsOpen
<1> SUFFICES ASSUME LifeInv PROVE Life!ReadyWhenUsed /\ Life!LifeSensorFollowsOpen
  OBVIOUS
<1>1. ASSUME driver = "simple_sensor", phase = "up", Life!Closed
      PROVE  Life!Idle({"isr"}) /\ ~Life!LineIsOn
  <2>1. QuietLine /\ run["isr"] = <<>>
    BY <1>1 DEF LifeInv, SensorInv, Life!Closed, Life!Running
  <2> QED BY <2>1 DEF QuietLine, Life!Idle, Life!Running, Life!LineIsOn
<1> QED BY <1>1 DEF LifeInv, Life!LifeSensorFollowsOpen

LEMMA LifeEcho == LifeInv => Life!EchoMeasured
BY DEF LifeInv, EchoInv, Measured, Life!EchoMeasured

(***************************************************************************)
(* The drivers of the labs                                                 *)
(***************************************************************************)
\* A driver that a module of its own describes leaves ModuleLife's state alone.
LifeOfLabs ==
    /\ driver \in Described => phase = "none" /\ unready = {} /\ misfreed = {}
    /\ driver \notin Described => LifeInv

LEMMA LifeOfLabsInit == Init => LifeOfLabs
<1> SUFFICES ASSUME Init PROVE LifeOfLabs
  OBVIOUS
<1>1. CASE NotOfLife /\ (InitOfLab3 \/ InitOfLab4 \/ InitOfLab7 \/ InitOfLab8)
  <2>1. driver \in Described
    BY <1>1 DEF InitOfLab3, InitOfLab4, InitOfLab7, InitOfLab8, Described
  <2> QED BY <1>1, <2>1 DEF NotOfLife, LifeOfLabs
<1>2. CASE InitOfLife
  BY <1>2, LifeInitInv DEF InitOfLife, LifeOfLabs
<1> QED BY <1>1, <1>2 DEF Init

LEMMA LifeOfLabsNext == LifeOfLabs /\ [Next]_allVars => LifeOfLabs'
<1> SUFFICES ASSUME LifeOfLabs, [Next]_allVars PROVE LifeOfLabs'
  OBVIOUS
<1>1. CASE OfLife(Life!LifeNext)
  BY <1>1, LifeNextInv DEF OfLife, LifeOfLabs
<1>2. CASE UNCHANGED allVars
  <2>1. UNCHANGED <<driver, depth, lifeVars>>
    BY <1>2 DEF allVars, lab7Vars
  <2> QED BY <2>1, LifeStutters DEF LifeOfLabs, lifeVars
<1>3. CASE Next /\ ~OfLife(Life!LifeNext)
  <2>1. driver \in Described /\ UNCHANGED <<driver, lifeVars>>
    BY <1>3 DEF Next, OfCh3, OfSpin, OfBlock, OfSensor, OfRcu, OfRw, OfList, Described
  <2> QED BY <2>1 DEF LifeOfLabs, lifeVars
<1> QED BY <1>1, <1>2, <1>3

\* Whatever driver is loaded, and however its calls interleave with its callbacks,
\* the invariant holds.
THEOREM LifeConsistency == Spec => []LifeOfLabs
<1> QED BY LifeOfLabsInit, LifeOfLabsNext, PTL DEF Spec

\* When a module is gone nothing of it runs or waits to run, but a timer or tasklet
\* that raced with its stop, and what it acquired is given back.
THEOREM LifeNothingAfterUnload == Spec => []NothingAfterUnload
<1>1. LifeOfLabs => NothingAfterUnload
  BY LifeUnloaded DEF LifeOfLabs, NothingAfterUnload, Life!NothingAfterUnload, Life!LifeNoLeak, Life!Gone
<1> QED BY LifeConsistency, <1>1, PTL

\* A callback finds what it uses set up, but in the four places where the code does
\* not see to it; a closed sensor is quiet.
THEOREM LifeReadyWhenUsed == Spec => []ReadyWhenUsed
<1>1. LifeOfLabs => ReadyWhenUsed
  BY LifeReady DEF LifeOfLabs, ReadyWhenUsed, Life!ReadyWhenUsed, Life!LifeSensorFollowsOpen, Described
<1> QED BY LifeConsistency, <1>1, PTL

\* A distance is measured from the rise of the echo to its fall.
THEOREM LifeEchoMeasured == Spec => []EchoMeasured
<1>1. LifeOfLabs => EchoMeasured
  BY LifeEcho DEF LifeOfLabs, EchoMeasured, Life!EchoMeasured, Described
<1> QED BY LifeConsistency, <1>1, PTL
=============================================================================
