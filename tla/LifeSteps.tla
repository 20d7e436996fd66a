----------------------------- MODULE LifeSteps -----------------------------
(***************************************************************************)
(* What a step of ModuleLife changes, for every driver of lab6 to lab11.   *)
(* The tables of calls of init and exit promise an order that every rest   *)
(* of a table keeps (InitOrder, ExitOrder); with it, each step of a        *)
(* context is one of a few effects on what is held, armed and to be done.  *)
(***************************************************************************)
EXTENDS Labs, TLAPS, SequenceTheorems

(***************************************************************************)
(* Calls still to be made: a sequence as the set of its acts               *)
(***************************************************************************)
Act(h) == <<IF h.op = "try" THEN "request" ELSE h.op, h.arg>>
Acts(s) == {Act(s[i]) : i \in 1..Len(s)}
Later(s, i) == {Act(s[j]) : j \in i+1..Len(s)}

\* Only waits are repeated, and every rule <<a, b>> is kept: b comes after a.
Keeps(s, rule) == \A i \in 1..Len(s) : Act(s[i]) = rule[1] => rule[2] \in Later(s, i)
Ordered(s, rules) ==
    /\ \A i \in 1..Len(s) : s[i].op # "wait" => Act(s[i]) \notin Later(s, i)
    /\ \A rule \in rules : Keeps(s, rule)

\* A sequence and what is left of it after a call.
LEMMA HeadAndTail ==
    ASSUME NEW S, NEW s \in Seq(S), s # <<>>
    PROVE  /\ Head(s) \in S /\ Head(s) = s[1] /\ Tail(s) \in Seq(S)
           /\ Len(s) \in Nat \ {0} /\ Len(Tail(s)) = Len(s) - 1
           /\ \A i \in 1..Len(Tail(s)) : Tail(s)[i] = s[i + 1]
BY EmptySeq, HeadTailProperties

LEMMA LaterIsActs ==
    ASSUME NEW S, NEW s \in Seq(S), s # <<>>
    PROVE  /\ Later(s, 1) = Acts(Tail(s))
           /\ \A i \in 1..Len(Tail(s)) : Later(Tail(s), i) = Later(s, i + 1)
           /\ Acts(s) = {Act(Head(s))} \cup Acts(Tail(s))
<1> DEFINE t == Tail(s)
<1>1. /\ Head(s) = s[1] /\ Len(s) \in Nat \ {0} /\ Len(t) = Len(s) - 1
      /\ \A i \in 1..Len(t) : t[i] = s[i + 1]
  BY HeadAndTail
<1>2. Later(s, 1) = Acts(t)
  <2>1. ASSUME NEW j \in 2..Len(s) PROVE Act(s[j]) \in Acts(t)
    <3>1. j - 1 \in 1..Len(t) /\ t[j - 1] = s[j]
      BY <1>1
    <3> QED BY <3>1 DEF Acts
  <2>2. ASSUME NEW i \in 1..Len(t) PROVE Act(t[i]) \in Later(s, 1)
    <3>1. i + 1 \in 1+1..Len(s) /\ t[i] = s[i + 1]
      BY <1>1
    <3> QED BY <3>1 DEF Later
  <2> QED BY <2>1, <2>2 DEF Acts, Later
<1>3. ASSUME NEW i \in 1..Len(t) PROVE Later(t, i) = Later(s, i + 1)
  <2>1. ASSUME NEW j \in i+1..Len(t) PROVE Act(t[j]) \in Later(s, i + 1)
    <3>1. j + 1 \in (i+1)+1..Len(s) /\ t[j] = s[j + 1]
      BY <1>1
    <3> QED BY <3>1 DEF Later
  <2>2. ASSUME NEW j \in (i+1)+1..Len(s) PROVE Act(s[j]) \in Later(t, i)
    <3>1. j - 1 \in i+1..Len(t) /\ t[j - 1] = s[j]
      BY <1>1
    <3> QED BY <3>1 DEF Later
  <2> QED BY <2>1, <2>2 DEF Later
<1>4. Acts(s) = {Act(Head(s))} \cup Later(s, 1)
  <2>1. ASSUME NEW i \in 1..Len(s) PROVE i = 1 \/ i \in 1+1..Len(s)
    BY <1>1
  <2> QED BY <1>1, <2>1 DEF Acts, Later
<1> QED BY <1>2, <1>3, <1>4

LEMMA NoActs == Acts(<<>>) = {}
BY DEF Acts

\* What is left of an ordered sequence is ordered.
LEMMA OrderedTail ==
    ASSUME NEW S, NEW s \in Seq(S), s # <<>>, NEW rules, Ordered(s, rules)
    PROVE  /\ Ordered(Tail(s), rules)
           /\ Head(s).op # "wait" => Act(Head(s)) \notin Acts(Tail(s))
           /\ \A rule \in rules : Act(Head(s)) = rule[1] => rule[2] \in Acts(Tail(s))
<1> DEFINE t == Tail(s)
<1>1. /\ Head(s) = s[1] /\ Len(s) \in Nat \ {0} /\ Len(t) = Len(s) - 1
      /\ \A i \in 1..Len(t) : i + 1 \in 1..Len(s) /\ t[i] = s[i + 1]
  BY HeadAndTail
<1>2. Later(s, 1) = Acts(t) /\ \A i \in 1..Len(t) : Later(t, i) = Later(s, i + 1)
  BY LaterIsActs
<1> HIDE DEF t
<1>3. \A i \in 1..Len(t) : t[i].op # "wait" => Act(t[i]) \notin Later(t, i)
  BY <1>1, <1>2 DEF Ordered
<1>4. ASSUME NEW rule \in rules PROVE Keeps(t, rule)
  BY <1>1, <1>2 DEF Ordered, Keeps
<1>5. 1 \in 1..Len(s)
  BY <1>1
<1> QED BY <1>1, <1>2, <1>3, <1>4, <1>5 DEF Ordered, Keeps, t

\* In an ordered sequence, b is to be done as long as a is.
LEMMA RuleHolds ==
    ASSUME NEW S, NEW s \in Seq(S), NEW rules, Ordered(s, rules), NEW rule \in rules,
           rule[1] \in Acts(s)
    PROVE  rule[2] \in Acts(s)
<1>1. PICK i \in 1..Len(s) : Act(s[i]) = rule[1]
  BY DEF Acts
<1>2. rule[2] \in Later(s, i)
  BY <1>1 DEF Ordered, Keeps
<1>3. Len(s) \in Nat
  BY LenProperties
<1>4. PICK j \in i+1..Len(s) : rule[2] = Act(s[j])
  BY <1>2 DEF Later
<1>5. j \in 1..Len(s)
  BY <1>3, <1>4
<1> QED BY <1>4, <1>5 DEF Acts

(***************************************************************************)
(* What the tables of init and exit promise                                *)
(***************************************************************************)
Tasklets == {"simple_tasklet", "tm_tasklet"}
Resources == {"timer", "LED", "SWITCH", "PIR", "irq", "region", "cdev", "SENSOR1", "tasklet",
              "wq", "thread", "class", "device", "file", "TRIG", "ECHO"}
Asks(A) == {r \in Resources : <<"request", r>> \in A}
Frees(A) == {r \in Resources : <<"free", r>> \in A}
Freed(A) == {r \in Resources : <<"free", r>> \in A \/ (r = "file" /\ <<"free", "device">> \in A)}
Fail == <<"fail", "nothing">>

\* What init acquires; what stays with the module or with the pins.
Needed(d) ==
    CASE d = "simple_timer" -> {"timer"}
      [] d = "ch5" -> {"LED", "SWITCH", "timer"}
      [] d = "ch6" -> {"PIR", "LED", "irq", "timer"}
      [] d = "simple_led" -> {"LED"}
      [] d = "switch_irq" -> {"SWITCH", "irq"}
      [] d = "simple_sensor" -> {"region", "cdev", "SENSOR1", "irq"}
      [] d \in Tasklets -> {"tasklet", "SWITCH", "irq"}
      [] d = "simple_workqueue" -> {"wq", "SWITCH", "irq"}
      [] d = "simple_kthread" -> {"thread"}
      [] d = "simple_sysfs" -> {"region", "cdev", "class", "device", "file"}
      [] OTHER -> {"TRIG", "ECHO", "irq"}
Stay == {"timer", "tasklet", "thread", "TRIG", "ECHO"}

TryIrq(alt) == Life!Try("irq", alt)
IrqBack == {Life!Free("irq"), Life!Wait("isr")}
UndoCalls == {Life!Free("region"), Life!Free("cdev"), Life!Free("class"), Life!Free("device")}
ClassFails == <<Life!Free("cdev"), Life!Free("region"), Life!Do("fail")>>
DeviceFails == <<Life!Free("class"), Life!Free("cdev"), Life!Free("region"), Life!Do("fail")>>
FileFails == <<Life!Free("device"), Life!Free("class"), Life!Free("cdev"), Life!Free("region"),
               Life!Do("fail")>>
Ch6Fails == <<Life!Free("irq"), Life!Wait("isr"), Life!Request("timer")>>
IrqFails == <<Life!Free("irq"), Life!Wait("isr")>>
WqFails == <<Life!Request("SWITCH"), TryIrq(IrqFails)>>
ThreadFails == <<Life!Arm("thread")>>
InitCalls(d) ==
    CASE d = "simple_timer" -> {Life!Request("timer"), Life!Arm("timer")}
      [] d = "ch5" -> {Life!Request("LED"), Life!Request("SWITCH"), Life!Request("timer"),
                       Life!Arm("timer")}
      [] d = "ch6" -> {Life!Request("PIR"), Life!Request("LED"), Life!Request("timer"),
                       TryIrq(Ch6Fails)} \cup IrqBack
      [] d = "simple_led" -> {Life!Request("LED"), Life!Led("on")}
      [] d = "switch_irq" -> {Life!Request("SWITCH"), TryIrq(IrqFails)} \cup IrqBack
      [] d = "simple_sensor" ->
            {Life!Request("region"), Life!Request("cdev"), Life!Request("SENSOR1"),
             TryIrq(IrqFails), Life!Do("disable")} \cup IrqBack
      [] d \in Tasklets ->
            {Life!Request("tasklet"), Life!Request("SWITCH"), TryIrq(IrqFails)} \cup IrqBack
      [] d = "simple_workqueue" ->
            {Life!Try("wq", WqFails), Life!Request("SWITCH"), TryIrq(IrqFails)} \cup IrqBack
      [] d = "simple_kthread" -> {Life!Try("thread", ThreadFails), Life!Arm("thread")}
      [] d = "simple_sysfs" ->
            {Life!Request("region"), Life!Request("cdev"), Life!Try("class", ClassFails),
             Life!Try("device", DeviceFails), Life!Try("file", FileFails), Life!Do("fail")}
              \cup UndoCalls
      [] OTHER ->
            {Life!Request("TRIG"), Life!Request("ECHO"), TryIrq(IrqFails), Life!Do("flag_0"),
             Life!Do("trigger"), Life!Do("flag_1")} \cup IrqBack
ExitCalls(d) ==
    CASE d = "simple_timer" -> {Life!Disarm("timer")}
      [] d = "ch5" -> {Life!Led("off"), Life!Disarm("timer"), Life!Free("SWITCH"),
                       Life!Free("LED")}
      [] d = "ch6" -> {Life!Do("disable"), Life!Led("off"), Life!Free("PIR"), Life!Free("LED"),
                       Life!Disarm("timer")} \cup IrqBack
      [] d = "simple_led" -> {Life!Led("off"), Life!Free("LED")}
      [] d = "switch_irq" -> {Life!Do("disable"), Life!Free("SWITCH")} \cup IrqBack
      [] d = "simple_sensor" ->
            {Life!Free("cdev"), Life!Free("region"), Life!Free("SENSOR1")} \cup IrqBack
      [] d \in Tasklets -> {Life!Wait("tasklet"), Life!Free("SWITCH")} \cup IrqBack
      [] d = "simple_workqueue" ->
            {Life!Free("SWITCH"), Life!Wait("works"), Life!Free("wq")} \cup IrqBack
      [] d = "simple_kthread" ->
            {Life!If("thread", <<Life!Do("stop"), Life!Wait("thread")>>),
             Life!Do("stop"), Life!Wait("thread")}
      [] d = "simple_sysfs" -> UndoCalls
      [] OTHER -> IrqBack

\* What comes after what.
Rule(a, x, b, y) == <<<<a, x>>, <<b, y>>>>
InitRules(d) ==
    CASE d = "simple_timer" -> {Rule("request", "timer", "arm", "timer")}
      [] d = "ch5" -> {Rule("request", "LED", "request", "timer"),
                       Rule("request", "timer", "arm", "timer")}
      [] d = "ch6" -> {Rule("request", "LED", "request", "irq"), Rule("request", "irq", "request", "timer")}
      [] d = "simple_led" -> {Rule("request", "LED", "led", "on")}
      [] d \in Tasklets -> {Rule("request", "tasklet", "request", "irq")}
      [] d = "simple_workqueue" -> {Rule("request", "wq", "request", "irq")}
      [] d = "simple_kthread" -> {Rule("request", "thread", "arm", "thread")}
      [] d = "simple_sensor" -> {Rule("request", "irq", "disable", "nothing"),
                                 Rule("disable", "nothing", "wait", "isr")}
      [] d = "simple_ultra" -> {Rule("request", "irq", "flag_0", "nothing"),
                                Rule("flag_0", "nothing", "trigger", "nothing"),
                                Rule("trigger", "nothing", "flag_1", "nothing")}
      [] OTHER -> {}
ExitRules(d) ==
    CASE d = "ch6" -> {Rule("free", "irq", "wait", "isr"), Rule("wait", "isr", "led", "off"),
                       Rule("led", "off", "free", "LED")}
      [] d = "simple_workqueue" ->
            {Rule("free", "irq", "wait", "isr"), Rule("wait", "isr", "wait", "works"),
             Rule("wait", "works", "free", "wq")}
      [] d \in {"ch5", "simple_led"} -> {Rule("led", "off", "free", "LED")}
      [] d = "simple_kthread" -> {Rule("stop", "nothing", "wait", "thread")}
      [] OTHER -> {Rule("free", "irq", "wait", "isr")}

\* What a failed call h leaves to do, when A would have been done after it: all
\* of A, or else to give back what is held.
AltFits(d, h, A) ==
    IF Fail \in Acts(h.alt)
    THEN /\ Freed(Acts(h.alt)) \ {h.arg} = Needed(d) \ (Asks(A) \cup {h.arg})
         /\ h.arg \notin Frees(Acts(h.alt)) /\ Asks(Acts(h.alt)) = {}
    ELSE Asks(Acts(h.alt)) = Asks(A) /\ Frees(Acts(h.alt)) \subseteq {h.arg} \cap {"irq"}
InitOrder(d, s) ==
    /\ s \in Seq(InitCalls(d))
    /\ Ordered(s, InitRules(d))
    /\ \A i \in 1..Len(s) : s[i].op = "try" => AltFits(d, s[i], Later(s, i))
    /\ \A i \in 1..Len(s) : s[i].op = "fail" => i = Len(s)
    /\ Fail \in Acts(s) => Asks(Acts(s)) = {}
ExitOrder(d, s) ==
    /\ s \in Seq(ExitCalls(d))
    /\ Ordered(s, ExitRules(d))
    /\ \A i \in 1..Len(s) : s[i].op = "if" => i = Len(s)

LEMMA InitOrderTail ==
    ASSUME NEW d, NEW s, InitOrder(d, s), s # <<>>
    PROVE  /\ InitOrder(d, Tail(s))
           /\ Head(s).op = "try" => AltFits(d, Head(s), Acts(Tail(s)))
           /\ Head(s).op = "fail" => Tail(s) = <<>>
<1> DEFINE t == Tail(s)
<1>1. s \in Seq(InitCalls(d)) /\ Ordered(s, InitRules(d))
  BY DEF InitOrder
<1>2. /\ Head(s) = s[1] /\ t \in Seq(InitCalls(d))
      /\ Len(s) \in Nat \ {0} /\ Len(t) = Len(s) - 1
      /\ \A i \in 1..Len(t) : i + 1 \in 1..Len(s) /\ t[i] = s[i + 1]
  BY <1>1, HeadAndTail
<1>3. /\ Later(s, 1) = Acts(t) /\ \A i \in 1..Len(t) : Later(t, i) = Later(s, i + 1)
      /\ Acts(t) \subseteq Acts(s)
  BY <1>1, LaterIsActs
<1>4. Ordered(t, InitRules(d))
  BY <1>1, OrderedTail
<1>5. t = <<>> <=> Len(t) = 0
  BY <1>2, EmptySeq
<1> HIDE DEF t
<1>6. \A i \in 1..Len(t) : t[i].op = "try" => AltFits(d, t[i], Later(t, i))
  BY <1>2, <1>3 DEF InitOrder
<1>7. \A i \in 1..Len(t) : t[i].op = "fail" => i = Len(t)
  BY <1>2 DEF InitOrder
<1>8. Fail \in Acts(t) => Asks(Acts(t)) = {}
  BY <1>3 DEF InitOrder, Asks
<1>9. 1 \in 1..Len(s)
  BY <1>2
<1>10. s[1].op = "try" => AltFits(d, s[1], Later(s, 1))
  BY <1>9 DEF InitOrder
<1>11. s[1].op = "fail" => 1 = Len(s)
  BY <1>9 DEF InitOrder
<1>12. InitOrder(d, t)
  BY <1>2, <1>4, <1>6, <1>7, <1>8 DEF InitOrder
<1>13. s[1].op = "fail" => t = <<>>
  <2>1. ASSUME 1 = Len(s) PROVE Len(t) = 0
    <3>1. Len(t) = Len(s) - 1
      BY <1>2
    <3> QED BY <2>1, <3>1
  <2> QED BY <2>1, <1>5, <1>11, Zenon
<1> QED BY <1>2, <1>3, <1>10, <1>12, <1>13 DEF t

LEMMA ExitOrderTail ==
    ASSUME NEW d, NEW s, ExitOrder(d, s), s # <<>>
    PROVE  ExitOrder(d, Tail(s)) /\ (Head(s).op = "if" => Tail(s) = <<>>)
<1> DEFINE t == Tail(s)
<1>1. s \in Seq(ExitCalls(d)) /\ Ordered(s, ExitRules(d))
  BY DEF ExitOrder
<1>2. /\ Head(s) = s[1] /\ t \in Seq(ExitCalls(d))
      /\ Len(s) \in Nat \ {0} /\ Len(t) = Len(s) - 1
      /\ \A i \in 1..Len(t) : i + 1 \in 1..Len(s) /\ t[i] = s[i + 1]
  BY <1>1, HeadAndTail
<1>3. Ordered(t, ExitRules(d))
  BY <1>1, OrderedTail
<1>4. t = <<>> <=> Len(t) = 0
  BY <1>2, EmptySeq
<1> HIDE DEF t
<1>5. ASSUME NEW i \in 1..Len(t), t[i].op = "if" PROVE i = Len(t)
  <2>1. i + 1 \in 1..Len(s) /\ s[i + 1].op = "if"
    BY <1>2, <1>5
  <2>2. i + 1 = Len(s)
    BY <2>1 DEF ExitOrder
  <2>3. i \in Int /\ Len(t) = Len(s) - 1 /\ Len(s) \in Nat
    BY <1>2
  <2> QED BY <2>2, <2>3
<1>6. s[1].op = "if" => 1 = Len(s)
  BY <1>2 DEF ExitOrder
<1>7. ASSUME 1 = Len(s) PROVE Len(t) = 0
  <2>1. Len(t) = Len(s) - 1
    BY <1>2
  <2> QED BY <1>7, <2>1
<1>8. ExitOrder(d, t)
  BY <1>2, <1>3, <1>5 DEF ExitOrder
<1>9. s[1].op = "if" => t = <<>>
  BY <1>4, <1>6, <1>7, Zenon
<1>10. Head(s) = s[1]
  BY <1>2
<1> QED BY <1>8, <1>9, <1>10 DEF t

(***************************************************************************)
(* Calls and tables written out                                            *)
(***************************************************************************)
LEMMA CallFields ==
    /\ \A op, arg, needs : LET h == Life!Call(op, arg, needs)
                           IN  h.op = op /\ h.arg = arg /\ h.needs = needs
    /\ \A op : LET h == Life!Do(op) IN h.op = op /\ h.arg = "nothing" /\ h.needs = {}
    /\ \A r : LET h == Life!Request(r) IN h.op = "request" /\ h.arg = r /\ h.needs = {}
    /\ \A r : LET h == Life!Free(r) IN h.op = "free" /\ h.arg = r /\ h.needs = {}
    /\ \A r : LET h == Life!Arm(r) IN h.op = "arm" /\ h.arg = r /\ h.needs = {r}
    /\ \A r : LET h == Life!Disarm(r) IN h.op = "disarm" /\ h.arg = r /\ h.needs = {}
    /\ \A r : LET h == Life!Wait(r) IN h.op = "wait" /\ h.arg = r /\ h.needs = {}
    /\ \A v : LET h == Life!Led(v) IN h.op = "led" /\ h.arg = v /\ h.needs = {"LED"}
    /\ \A r, alt : LET h == Life!Try(r, alt)
                   IN  h.op = "try" /\ h.arg = r /\ h.needs = {} /\ h.alt = alt
    /\ \A r, alt : LET h == Life!If(r, alt)
                   IN  h.op = "if" /\ h.arg = r /\ h.needs = {} /\ h.alt = alt
BY DEF Life!Call, Life!Do, Life!Request, Life!Free, Life!Arm, Life!Disarm, Life!Wait, Life!Led,
       Life!Try, Life!If

LEMMA Acts1 == \A a : Acts(<<a>>) = {Act(a)}
BY DEF Acts
LEMMA Acts2 == \A a, b : Acts(<<a, b>>) = {Act(a), Act(b)}
BY DEF Acts
LEMMA Acts3 == \A a, b, c : Acts(<<a, b, c>>) = {Act(a), Act(b), Act(c)}
BY DEF Acts
LEMMA Acts4 == \A a, b, c, d : Acts(<<a, b, c, d>>) = {Act(a), Act(b), Act(c), Act(d)}
BY DEF Acts
LEMMA Acts5 ==
    \A a, b, c, d, e : Acts(<<a, b, c, d, e>>) = {Act(a), Act(b), Act(c), Act(d), Act(e)}
BY DEF Acts

\* s \o t written out.
LEMMA Written ==
    ASSUME NEW S, NEW s \in Seq(S), NEW t \in Seq(S), NEW u \in Seq(S),
           Len(u) = Len(s) + Len(t), \A i \in 1..Len(s) : u[i] = s[i],
           \A i \in 1..Len(t) : u[Len(s) + i] = t[i]
    PROVE  s \o t = u
<1>1. /\ s \o t \in Seq(S) /\ Len(s \o t) = Len(s) + Len(t)
      /\ \A i \in 1..Len(s) + Len(t) :
            (s \o t)[i] = IF i <= Len(s) THEN s[i] ELSE t[i - Len(s)]
  BY ConcatProperties
<1>2. Len(s) \in Nat /\ Len(t) \in Nat
  BY LenProperties
<1>3. ASSUME NEW i \in 1..Len(s) + Len(t) PROVE (s \o t)[i] = u[i]
  <2>1. CASE i <= Len(s)
    BY <1>1, <1>2, <2>1
  <2>2. CASE ~(i <= Len(s))
    <3>1. i - Len(s) \in 1..Len(t) /\ Len(s) + (i - Len(s)) = i
      BY <1>2, <2>2
    <3> QED BY <1>1, <2>2, <3>1
  <2> QED BY <2>1, <2>2
<1> QED BY <1>1, <1>3, SeqEqual

LEMMA Join12 ==
    ASSUME NEW a, NEW b, NEW c
    PROVE  <<a>> \o <<b, c>> = <<a, b, c>>
<1> DEFINE S == {a, b, c}
           x == <<a>>
           y == <<b, c>>
           z == <<a, b, c>>
<1>1. x \in Seq(S) /\ y \in Seq(S) /\ z \in Seq(S)
  OBVIOUS
<1>2. Len(x) = 1 /\ Len(y) = 2 /\ Len(z) = 3
  OBVIOUS
<1>3. \A i \in 1..1 : z[i] = x[i]
  OBVIOUS
<1>4. \A i \in 1..2 : z[1 + i] = y[i]
  OBVIOUS
<1> HIDE DEF S, x, y, z
<1>5. /\ Len(z) = Len(x) + Len(y) /\ \A i \in 1..Len(x) : z[i] = x[i]
      /\ \A i \in 1..Len(y) : z[Len(x) + i] = y[i]
  BY <1>2, <1>3, <1>4
<1>6. x \o y = z
  BY ONLY <1>1, <1>5, Written, Zenon
<1> QED BY <1>6 DEF x, y, z

LEMMA Join21 ==
    ASSUME NEW a, NEW b, NEW c
    PROVE  <<a, b>> \o <<c>> = <<a, b, c>>
<1> DEFINE S == {a, b, c}
           x == <<a, b>>
           y == <<c>>
           z == <<a, b, c>>
<1>1. x \in Seq(S) /\ y \in Seq(S) /\ z \in Seq(S)
  OBVIOUS
<1>2. Len(x) = 2 /\ Len(y) = 1 /\ Len(z) = 3
  OBVIOUS
<1>3. \A i \in 1..2 : z[i] = x[i]
  OBVIOUS
<1>4. \A i \in 1..1 : z[2 + i] = y[i]
  OBVIOUS
<1> HIDE DEF S, x, y, z
<1>5. /\ Len(z) = Len(x) + Len(y) /\ \A i \in 1..Len(x) : z[i] = x[i]
      /\ \A i \in 1..Len(y) : z[Len(x) + i] = y[i]
  BY <1>2, <1>3, <1>4
<1>6. x \o y = z
  BY ONLY <1>1, <1>5, Written, Zenon
<1> QED BY <1>6 DEF x, y, z

LEMMA Join31 ==
    ASSUME NEW a, NEW b, NEW c, NEW d
    PROVE  <<a, b, c>> \o <<d>> = <<a, b, c, d>>
<1> DEFINE S == {a, b, c, d}
           x == <<a, b, c>>
           y == <<d>>
           z == <<a, b, c, d>>
<1>1. x \in Seq(S) /\ y \in Seq(S) /\ z \in Seq(S)
  OBVIOUS
<1>2. Len(x) = 3 /\ Len(y) = 1 /\ Len(z) = 4
  OBVIOUS
<1>3. \A i \in 1..3 : z[i] = x[i]
  OBVIOUS
<1>4. \A i \in 1..1 : z[3 + i] = y[i]
  OBVIOUS
<1> HIDE DEF S, x, y, z
<1>5. /\ Len(z) = Len(x) + Len(y) /\ \A i \in 1..Len(x) : z[i] = x[i]
      /\ \A i \in 1..Len(y) : z[Len(x) + i] = y[i]
  BY <1>2, <1>3, <1>4
<1>6. x \o y = z
  BY ONLY <1>1, <1>5, Written, Zenon
<1> QED BY <1>6 DEF x, y, z

LEMMA Join22 ==
    ASSUME NEW a, NEW b, NEW c, NEW d
    PROVE  <<a, b>> \o <<c, d>> = <<a, b, c, d>>
<1> DEFINE S == {a, b, c, d}
           x == <<a, b>>
           y == <<c, d>>
           z == <<a, b, c, d>>
<1>1. x \in Seq(S) /\ y \in Seq(S) /\ z \in Seq(S)
  OBVIOUS
<1>2. Len(x) = 2 /\ Len(y) = 2 /\ Len(z) = 4
  OBVIOUS
<1>3. \A i \in 1..2 : z[i] = x[i]
  OBVIOUS
<1>4. \A i \in 1..2 : z[2 + i] = y[i]
  OBVIOUS
<1> HIDE DEF S, x, y, z
<1>5. /\ Len(z) = Len(x) + Len(y) /\ \A i \in 1..Len(x) : z[i] = x[i]
      /\ \A i \in 1..Len(y) : z[Len(x) + i] = y[i]
  BY <1>2, <1>3, <1>4
<1>6. x \o y = z
  BY ONLY <1>1, <1>5, Written, Zenon
<1> QED BY <1>6 DEF x, y, z

LEMMA Join41 ==
    ASSUME NEW a, NEW b, NEW c, NEW d, NEW e
    PROVE  <<a, b, c, d>> \o <<e>> = <<a, b, c, d, e>>
<1> DEFINE S == {a, b, c, d, e}
           x == <<a, b, c, d>>
           y == <<e>>
           z == <<a, b, c, d, e>>
<1>1. x \in Seq(S) /\ y \in Seq(S) /\ z \in Seq(S)
  OBVIOUS
<1>2. Len(x) = 4 /\ Len(y) = 1 /\ Len(z) = 5
  OBVIOUS
<1>3. \A i \in 1..4 : z[i] = x[i]
  OBVIOUS
<1>4. \A i \in 1..1 : z[4 + i] = y[i]
  OBVIOUS
<1> HIDE DEF S, x, y, z
<1>5. /\ Len(z) = Len(x) + Len(y) /\ \A i \in 1..Len(x) : z[i] = x[i]
      /\ \A i \in 1..Len(y) : z[Len(x) + i] = y[i]
  BY <1>2, <1>3, <1>4
<1>6. x \o y = z
  BY ONLY <1>1, <1>5, Written, Zenon
<1> QED BY <1>6 DEF x, y, z

LEMMA Join23 ==
    ASSUME NEW a, NEW b, NEW c, NEW d, NEW e
    PROVE  <<a, b>> \o <<c, d, e>> = <<a, b, c, d, e>>
<1> DEFINE S == {a, b, c, d, e}
           x == <<a, b>>
           y == <<c, d, e>>
           z == <<a, b, c, d, e>>
<1>1. x \in Seq(S) /\ y \in Seq(S) /\ z \in Seq(S)
  OBVIOUS
<1>2. Len(x) = 2 /\ Len(y) = 3 /\ Len(z) = 5
  OBVIOUS
<1>3. \A i \in 1..2 : z[i] = x[i]
  OBVIOUS
<1>4. \A i \in 1..3 : z[2 + i] = y[i]
  OBVIOUS
<1> HIDE DEF S, x, y, z
<1>5. /\ Len(z) = Len(x) + Len(y) /\ \A i \in 1..Len(x) : z[i] = x[i]
      /\ \A i \in 1..Len(y) : z[Len(x) + i] = y[i]
  BY <1>2, <1>3, <1>4
<1>6. x \o y = z
  BY ONLY <1>1, <1>5, Written, Zenon
<1> QED BY <1>6 DEF x, y, z

LEMMA Join42 ==
    ASSUME NEW a, NEW b, NEW c, NEW d, NEW e, NEW f
    PROVE  <<a, b, c, d>> \o <<e, f>> = <<a, b, c, d, e, f>>
<1> DEFINE S == {a, b, c, d, e, f}
           x == <<a, b, c, d>>
           y == <<e, f>>
           z == <<a, b, c, d, e, f>>
<1>1. x \in Seq(S) /\ y \in Seq(S) /\ z \in Seq(S)
  OBVIOUS
<1>2. Len(x) = 4 /\ Len(y) = 2 /\ Len(z) = 6
  OBVIOUS
<1>3. \A i \in 1..4 : z[i] = x[i]
  OBVIOUS
<1>4. \A i \in 1..2 : z[4 + i] = y[i]
  OBVIOUS
<1> HIDE DEF S, x, y, z
<1>5. /\ Len(z) = Len(x) + Len(y) /\ \A i \in 1..Len(x) : z[i] = x[i]
      /\ \A i \in 1..Len(y) : z[Len(x) + i] = y[i]
  BY <1>2, <1>3, <1>4
<1>6. x \o y = z
  BY ONLY <1>1, <1>5, Written, Zenon
<1> QED BY <1>6 DEF x, y, z

LEMMA Join44 ==
    ASSUME NEW a, NEW b, NEW c, NEW d, NEW e, NEW f, NEW g, NEW h
    PROVE  <<a, b, c, d>> \o <<e, f, g, h>> = <<a, b, c, d, e, f, g, h>>
<1> DEFINE S == {a, b, c, d, e, f, g, h}
           x == <<a, b, c, d>>
           y == <<e, f, g, h>>
           z == <<a, b, c, d, e, f, g, h>>
<1>1. x \in Seq(S) /\ y \in Seq(S) /\ z \in Seq(S)
  OBVIOUS
<1>2. Len(x) = 4 /\ Len(y) = 4 /\ Len(z) = 8
  OBVIOUS
<1>3. \A i \in 1..4 : z[i] = x[i]
  OBVIOUS
<1>4. \A i \in 1..4 : z[4 + i] = y[i]
  OBVIOUS
<1> HIDE DEF S, x, y, z
<1>5. /\ Len(z) = Len(x) + Len(y) /\ \A i \in 1..Len(x) : z[i] = x[i]
      /\ \A i \in 1..Len(y) : z[Len(x) + i] = y[i]
  BY <1>2, <1>3, <1>4
<1>6. x \o y = z
  BY ONLY <1>1, <1>5, Written, Zenon
<1> QED BY <1>6 DEF x, y, z

LEMMA AltActs ==
    /\ Acts(IrqFails) = {<<"free", "irq">>, <<"wait", "isr">>}
    /\ Acts(Ch6Fails) = {<<"free", "irq">>, <<"wait", "isr">>, <<"request", "timer">>}
    /\ Acts(WqFails) = {<<"request", "SWITCH">>, <<"request", "irq">>}
    /\ Acts(ThreadFails) = {<<"arm", "thread">>}
    /\ Acts(ClassFails) = {<<"free", "cdev">>, <<"free", "region">>, <<"fail", "nothing">>}
    /\ Acts(DeviceFails) = {<<"free", "class">>, <<"free", "cdev">>, <<"free", "region">>,
                            <<"fail", "nothing">>}
    /\ Acts(FileFails) = {<<"free", "device">>, <<"free", "class">>, <<"free", "cdev">>,
                          <<"free", "region">>, <<"fail", "nothing">>}
BY CallFields, Acts1, Acts2, Acts3, Acts4, Acts5
   DEF Act, TryIrq, IrqFails, Ch6Fails, WqFails, ThreadFails, ClassFails, DeviceFails,
       FileFails

\* The table of init of every driver keeps its order.
LEMMA TimerInit == InitOrder("simple_timer", <<Life!Request("timer"), Life!Arm("timer")>>)
<1> DEFINE s == <<Life!Request("timer"), Life!Arm("timer")>>
<1>1. s \in Seq(InitCalls("simple_timer"))
  BY DEF InitCalls, Tasklets, IrqBack, UndoCalls
<1>2. Ordered(s, InitRules("simple_timer"))
  BY CallFields DEF Ordered, Keeps, InitRules, Rule, Later, Act, Tasklets, TryIrq
<1>3. \A i \in 1..Len(s) : s[i].op # "fail" /\ (s[i].op = "try" => i \in {})
  BY CallFields DEF TryIrq
<1>4. Fail \notin Acts(s)
  BY CallFields DEF TryIrq, Fail, Acts, Act, Asks, Resources
<1> HIDE DEF s
<1>5. InitOrder("simple_timer", s)
  BY <1>1, <1>2, <1>3, <1>4 DEF InitOrder
<1> QED BY <1>5 DEF s

LEMMA Ch5Init ==
    InitOrder("ch5", <<Life!Request("LED"), Life!Request("SWITCH"), Life!Request("timer"),
                       Life!Arm("timer")>>)
<1> DEFINE s == <<Life!Request("LED"), Life!Request("SWITCH"), Life!Request("timer"),
                  Life!Arm("timer")>>
<1>1. s \in Seq(InitCalls("ch5"))
  BY DEF InitCalls, Tasklets, IrqBack, UndoCalls
<1>2. Ordered(s, InitRules("ch5"))
  BY CallFields DEF Ordered, Keeps, InitRules, Rule, Later, Act, Tasklets, TryIrq
<1>3. \A i \in 1..Len(s) : s[i].op # "fail" /\ (s[i].op = "try" => i \in {})
  BY CallFields DEF TryIrq
<1>4. Fail \notin Acts(s)
  BY CallFields DEF TryIrq, Fail, Acts, Act, Asks, Resources
<1> HIDE DEF s
<1>5. InitOrder("ch5", s)
  BY <1>1, <1>2, <1>3, <1>4 DEF InitOrder
<1> QED BY <1>5 DEF s

LEMMA Ch6Init ==
    InitOrder("ch6", <<Life!Request("PIR"), Life!Request("LED"), TryIrq(Ch6Fails),
                       Life!Request("timer")>>)
<1> DEFINE s == <<Life!Request("PIR"), Life!Request("LED"), TryIrq(Ch6Fails),
                  Life!Request("timer")>>
<1>1. s \in Seq(InitCalls("ch6"))
  BY DEF InitCalls, Tasklets, IrqBack, UndoCalls
<1>2. Ordered(s, InitRules("ch6"))
  BY CallFields DEF Ordered, Keeps, InitRules, Rule, Later, Act, Tasklets, TryIrq
<1>3. \A i \in 1..Len(s) : s[i].op # "fail" /\ (s[i].op = "try" => i \in {3})
  BY CallFields DEF TryIrq
<1>4. Fail \notin Acts(s)
  BY CallFields DEF TryIrq, Fail, Acts, Act, Asks, Resources
<1>5. AltFits("ch6", s[3], Later(s, 3))
  <2>1. Later(s, 3) = {<<"request", "timer">>}
    BY CallFields DEF Later, Act, TryIrq
  <2>2. s[3].alt = Ch6Fails /\ s[3].arg = "irq"
    BY CallFields DEF TryIrq
  <2> HIDE DEF s
  <2> QED BY <2>1, <2>2, AltActs
         DEF AltFits, Asks, Frees, Freed, Resources, Fail, Needed, Tasklets
<1> HIDE DEF s
<1>6. InitOrder("ch6", s)
  BY <1>1, <1>2, <1>3, <1>4, <1>5 DEF InitOrder
<1> QED BY <1>6 DEF s

LEMMA LedInit == InitOrder("simple_led", <<Life!Request("LED"), Life!Led("on")>>)
<1> DEFINE s == <<Life!Request("LED"), Life!Led("on")>>
<1>1. s \in Seq(InitCalls("simple_led"))
  BY DEF InitCalls, Tasklets, IrqBack, UndoCalls
<1>2. Ordered(s, InitRules("simple_led"))
  BY CallFields DEF Ordered, Keeps, InitRules, Rule, Later, Act, Tasklets, TryIrq
<1>3. \A i \in 1..Len(s) : s[i].op # "fail" /\ (s[i].op = "try" => i \in {})
  BY CallFields DEF TryIrq
<1>4. Fail \notin Acts(s)
  BY CallFields DEF TryIrq, Fail, Acts, Act, Asks, Resources
<1> HIDE DEF s
<1>5. InitOrder("simple_led", s)
  BY <1>1, <1>2, <1>3, <1>4 DEF InitOrder
<1> QED BY <1>5 DEF s

LEMMA SwitchInit == InitOrder("switch_irq", <<Life!Request("SWITCH"), TryIrq(IrqFails)>>)
<1> DEFINE s == <<Life!Request("SWITCH"), TryIrq(IrqFails)>>
<1>1. s \in Seq(InitCalls("switch_irq"))
  BY DEF InitCalls, Tasklets, IrqBack, UndoCalls
<1>2. Ordered(s, InitRules("switch_irq"))
  BY CallFields DEF Ordered, Keeps, InitRules, Rule, Later, Act, Tasklets, TryIrq
<1>3. \A i \in 1..Len(s) : s[i].op # "fail" /\ (s[i].op = "try" => i \in {2})
  BY CallFields DEF TryIrq
<1>4. Fail \notin Acts(s)
  BY CallFields DEF TryIrq, Fail, Acts, Act, Asks, Resources
<1>5. AltFits("switch_irq", s[2], Later(s, 2))
  <2>1. Later(s, 2) = {}
    BY CallFields DEF Later, Act, TryIrq
  <2>2. s[2].alt = IrqFails /\ s[2].arg = "irq"
    BY CallFields DEF TryIrq
  <2> HIDE DEF s
  <2> QED BY <2>1, <2>2, AltActs
         DEF AltFits, Asks, Frees, Freed, Resources, Fail, Needed, Tasklets
<1> HIDE DEF s
<1>6. InitOrder("switch_irq", s)
  BY <1>1, <1>2, <1>3, <1>4, <1>5 DEF InitOrder
<1> QED BY <1>6 DEF s

LEMMA SensorInit ==
    InitOrder("simple_sensor", <<Life!Request("region"), Life!Request("cdev"),
                                 Life!Request("SENSOR1"), TryIrq(IrqFails),
                                 Life!Do("disable"), Life!Wait("isr")>>)
<1> DEFINE s == <<Life!Request("region"), Life!Request("cdev"), Life!Request("SENSOR1"),
                  TryIrq(IrqFails), Life!Do("disable"), Life!Wait("isr")>>
<1>1. s \in Seq(InitCalls("simple_sensor"))
  BY DEF InitCalls, Tasklets, IrqBack, UndoCalls
<1>2. Ordered(s, InitRules("simple_sensor"))
  BY CallFields DEF Ordered, Keeps, InitRules, Rule, Later, Act, Tasklets, TryIrq
<1>3. \A i \in 1..Len(s) : s[i].op # "fail" /\ (s[i].op = "try" => i \in {4})
  BY CallFields DEF TryIrq
<1>4. Fail \notin Acts(s)
  BY CallFields DEF TryIrq, Fail, Acts, Act, Asks, Resources
<1>5. AltFits("simple_sensor", s[4], Later(s, 4))
  <2>1. Later(s, 4) = {<<"disable", "nothing">>, <<"wait", "isr">>}
    BY CallFields DEF Later, Act, TryIrq
  <2>2. s[4].alt = IrqFails /\ s[4].arg = "irq"
    BY CallFields DEF TryIrq
  <2> HIDE DEF s
  <2> QED BY <2>1, <2>2, AltActs
         DEF AltFits, Asks, Frees, Freed, Resources, Fail, Needed, Tasklets
<1> HIDE DEF s
<1>6. InitOrder("simple_sensor", s)
  BY <1>1, <1>2, <1>3, <1>4, <1>5 DEF InitOrder
<1> QED BY <1>6 DEF s

LEMMA TaskletInit ==
    ASSUME NEW d \in Tasklets
    PROVE  InitOrder(d, <<Life!Request("tasklet"), Life!Request("SWITCH"), TryIrq(IrqFails)>>)
<1> DEFINE s == <<Life!Request("tasklet"), Life!Request("SWITCH"), TryIrq(IrqFails)>>
<1>1. s \in Seq(InitCalls(d))
  <2>1. CASE d = "simple_tasklet"
    BY <2>1 DEF InitCalls, Tasklets, IrqBack
  <2>2. CASE d = "tm_tasklet"
    BY <2>2 DEF InitCalls, Tasklets, IrqBack
  <2> QED BY <2>1, <2>2 DEF Tasklets
<1>2. Ordered(s, InitRules(d))
  BY CallFields DEF Ordered, Keeps, InitRules, Rule, Later, Act, Tasklets, TryIrq
<1>3. \A i \in 1..Len(s) : s[i].op # "fail" /\ (s[i].op = "try" => i \in {3})
  BY CallFields DEF TryIrq
<1>4. Fail \notin Acts(s)
  BY CallFields DEF TryIrq, Fail, Acts, Act, Asks, Resources
<1>5. AltFits(d, s[3], Later(s, 3))
  <2>1. Later(s, 3) = {}
    BY CallFields DEF Later, Act, TryIrq
  <2>2. s[3].alt = IrqFails /\ s[3].arg = "irq"
    BY CallFields DEF TryIrq
  <2> HIDE DEF s
  <2> QED BY <2>1, <2>2, AltActs
         DEF AltFits, Asks, Frees, Freed, Resources, Fail, Needed, Tasklets
<1> HIDE DEF s
<1>6. InitOrder(d, s)
  BY <1>1, <1>2, <1>3, <1>4, <1>5 DEF InitOrder
<1> QED BY <1>6 DEF s

LEMMA WorkqueueInit ==
    InitOrder("simple_workqueue", <<Life!Try("wq", WqFails), Life!Request("SWITCH"),
                                    TryIrq(IrqFails)>>)
<1> DEFINE s == <<Life!Try("wq", WqFails), Life!Request("SWITCH"), TryIrq(IrqFails)>>
<1>1. s \in Seq(InitCalls("simple_workqueue"))
  BY DEF InitCalls, Tasklets, IrqBack, UndoCalls
<1>2. Ordered(s, InitRules("simple_workqueue"))
  BY CallFields DEF Ordered, Keeps, InitRules, Rule, Later, Act, Tasklets, TryIrq
<1>3. \A i \in 1..Len(s) : s[i].op # "fail" /\ (s[i].op = "try" => i \in {1, 3})
  BY CallFields DEF TryIrq
<1>4. Fail \notin Acts(s)
  BY CallFields DEF TryIrq, Fail, Acts, Act, Asks, Resources
<1>5. AltFits("simple_workqueue", s[1], Later(s, 1))
  <2>1. Later(s, 1) = {<<"request", "SWITCH">>, <<"request", "irq">>}
    BY CallFields DEF Later, Act, TryIrq
  <2>2. s[1].alt = WqFails /\ s[1].arg = "wq"
    BY CallFields DEF TryIrq
  <2> HIDE DEF s
  <2> QED BY <2>1, <2>2, AltActs
         DEF AltFits, Asks, Frees, Freed, Resources, Fail, Needed, Tasklets
<1>6. AltFits("simple_workqueue", s[3], Later(s, 3))
  <2>1. Later(s, 3) = {}
    BY CallFields DEF Later, Act, TryIrq
  <2>2. s[3].alt = IrqFails /\ s[3].arg = "irq"
    BY CallFields DEF TryIrq
  <2> HIDE DEF s
  <2> QED BY <2>1, <2>2, AltActs
         DEF AltFits, Asks, Frees, Freed, Resources, Fail, Needed, Tasklets
<1> HIDE DEF s
<1>7. InitOrder("simple_workqueue", s)
  BY <1>1, <1>2, <1>3, <1>4, <1>5, <1>6 DEF InitOrder
<1> QED BY <1>7 DEF s

LEMMA KthreadInit ==
    InitOrder("simple_kthread", <<Life!Try("thread", ThreadFails), Life!Arm("thread")>>)
<1> DEFINE s == <<Life!Try("thread", ThreadFails), Life!Arm("thread")>>
<1>1. s \in Seq(InitCalls("simple_kthread"))
  BY DEF InitCalls, Tasklets, IrqBack, UndoCalls
<1>2. Ordered(s, InitRules("simple_kthread"))
  BY CallFields DEF Ordered, Keeps, InitRules, Rule, Later, Act, Tasklets, TryIrq
<1>3. \A i \in 1..Len(s) : s[i].op # "fail" /\ (s[i].op = "try" => i \in {1})
  BY CallFields DEF TryIrq
<1>4. Fail \notin Acts(s)
  BY CallFields DEF TryIrq, Fail, Acts, Act, Asks, Resources
<1>5. AltFits("simple_kthread", s[1], Later(s, 1))
  <2>1. Later(s, 1) = {<<"arm", "thread">>}
    BY CallFields DEF Later, Act, TryIrq
  <2>2. s[1].alt = ThreadFails /\ s[1].arg = "thread"
    BY CallFields DEF TryIrq
  <2> HIDE DEF s
  <2> QED BY <2>1, <2>2, AltActs
         DEF AltFits, Asks, Frees, Freed, Resources, Fail, Needed, Tasklets
<1> HIDE DEF s
<1>6. InitOrder("simple_kthread", s)
  BY <1>1, <1>2, <1>3, <1>4, <1>5 DEF InitOrder
<1> QED BY <1>6 DEF s

LEMMA SysfsInit ==
    InitOrder("simple_sysfs", <<Life!Request("region"), Life!Request("cdev"),
                                Life!Try("class", ClassFails),
                                Life!Try("device", DeviceFails), Life!Try("file", FileFails)>>)
<1> DEFINE s == <<Life!Request("region"), Life!Request("cdev"),
                  Life!Try("class", ClassFails), Life!Try("device", DeviceFails),
                  Life!Try("file", FileFails)>>
<1>1. s \in Seq(InitCalls("simple_sysfs"))
  BY DEF InitCalls, Tasklets, IrqBack, UndoCalls
<1>2. Ordered(s, InitRules("simple_sysfs"))
  BY CallFields DEF Ordered, Keeps, InitRules, Rule, Later, Act, Tasklets, TryIrq
<1>3. \A i \in 1..Len(s) : s[i].op # "fail" /\ (s[i].op = "try" => i \in {3, 4, 5})
  BY CallFields DEF TryIrq
<1>4. Fail \notin Acts(s)
  BY CallFields DEF TryIrq, Fail, Acts, Act, Asks, Resources
<1>5. AltFits("simple_sysfs", s[3], Later(s, 3))
  <2>1. Later(s, 3) = {<<"request", "device">>, <<"request", "file">>}
    BY CallFields DEF Later, Act, TryIrq
  <2>2. s[3].alt = ClassFails /\ s[3].arg = "class"
    BY CallFields DEF TryIrq
  <2> HIDE DEF s
  <2> QED BY <2>1, <2>2, AltActs
         DEF AltFits, Asks, Frees, Freed, Resources, Fail, Needed, Tasklets
<1>6. AltFits("simple_sysfs", s[4], Later(s, 4))
  <2>1. Later(s, 4) = {<<"request", "file">>}
    BY CallFields DEF Later, Act, TryIrq
  <2>2. s[4].alt = DeviceFails /\ s[4].arg = "device"
    BY CallFields DEF TryIrq
  <2> HIDE DEF s
  <2> QED BY <2>1, <2>2, AltActs
         DEF AltFits, Asks, Frees, Freed, Resources, Fail, Needed, Tasklets
<1>7. AltFits("simple_sysfs", s[5], Later(s, 5))
  <2>1. Later(s, 5) = {}
    BY CallFields DEF Later, Act, TryIrq
  <2>2. s[5].alt = FileFails /\ s[5].arg = "file"
    BY CallFields DEF TryIrq
  <2> HIDE DEF s
  <2> QED BY <2>1, <2>2, AltActs
         DEF AltFits, Asks, Frees, Freed, Resources, Fail, Needed, Tasklets
<1> HIDE DEF s
<1>8. InitOrder("simple_sysfs", s)
  BY <1>1, <1>2, <1>3, <1>4, <1>5, <1>6, <1>7 DEF InitOrder
<1> QED BY <1>8 DEF s

LEMMA UltraInit ==
    InitOrder("simple_ultra", <<Life!Request("TRIG"), Life!Request("ECHO"),
                                TryIrq(IrqFails), Life!Do("flag_0"), Life!Do("trigger"),
                                Life!Do("flag_1")>>)
<1> DEFINE s == <<Life!Request("TRIG"), Life!Request("ECHO"), TryIrq(IrqFails),
                  Life!Do("flag_0"), Life!Do("trigger"), Life!Do("flag_1")>>
<1>1. s \in Seq(InitCalls("simple_ultra"))
  BY DEF InitCalls, Tasklets, IrqBack, UndoCalls
<1>2. Ordered(s, InitRules("simple_ultra"))
  BY CallFields DEF Ordered, Keeps, InitRules, Rule, Later, Act, Tasklets, TryIrq
<1>3. \A i \in 1..Len(s) : s[i].op # "fail" /\ (s[i].op = "try" => i \in {3})
  BY CallFields DEF TryIrq
<1>4. Fail \notin Acts(s)
  BY CallFields DEF TryIrq, Fail, Acts, Act, Asks, Resources
<1>5. AltFits("simple_ultra", s[3], Later(s, 3))
  <2>1. Later(s, 3) = {<<"flag_0", "nothing">>, <<"trigger", "nothing">>, <<"flag_1", "nothing">>}
    BY CallFields DEF Later, Act, TryIrq
  <2>2. s[3].alt = IrqFails /\ s[3].arg = "irq"
    BY CallFields DEF TryIrq
  <2> HIDE DEF s
  <2> QED BY <2>1, <2>2, AltActs
         DEF AltFits, Asks, Frees, Freed, Resources, Fail, Needed, Tasklets
<1> HIDE DEF s
<1>6. InitOrder("simple_ultra", s)
  BY <1>1, <1>2, <1>3, <1>4, <1>5 DEF InitOrder
<1> QED BY <1>6 DEF s

\* So does what a failed call leaves to do.
LEMMA Ch6Alt ==
    InitOrder("ch6", <<Life!Free("irq"), Life!Wait("isr"), Life!Request("timer")>>)
<1> DEFINE s == <<Life!Free("irq"), Life!Wait("isr"), Life!Request("timer")>>
<1>1. s \in Seq(InitCalls("ch6"))
  BY DEF InitCalls, Tasklets, IrqBack, UndoCalls
<1>2. Ordered(s, InitRules("ch6"))
  BY CallFields DEF Ordered, Keeps, InitRules, Rule, Later, Act, Tasklets, TryIrq
<1>3. \A i \in 1..Len(s) : s[i].op # "fail" /\ (s[i].op = "try" => i \in {})
  BY CallFields DEF TryIrq
<1>4. Fail \notin Acts(s)
  BY CallFields DEF TryIrq, Fail, Acts, Act, Asks, Resources
<1> HIDE DEF s
<1>5. InitOrder("ch6", s)
  BY <1>1, <1>2, <1>3, <1>4 DEF InitOrder
<1> QED BY <1>5 DEF s

LEMMA SysfsClassAlt ==
    InitOrder("simple_sysfs", <<Life!Free("cdev"), Life!Free("region"), Life!Do("fail")>>)
<1> DEFINE s == <<Life!Free("cdev"), Life!Free("region"), Life!Do("fail")>>
<1>1. s \in Seq(InitCalls("simple_sysfs"))
  BY DEF InitCalls, Tasklets, IrqBack, UndoCalls
<1>2. Ordered(s, InitRules("simple_sysfs"))
  BY CallFields DEF Ordered, Keeps, InitRules, Rule, Later, Act, Tasklets, TryIrq
<1>3. \A i \in 1..Len(s) : s[i].op # "try" /\ (s[i].op = "fail" => i = Len(s))
  BY CallFields
<1>4. Asks(Acts(s)) = {}
  BY CallFields DEF TryIrq, Fail, Acts, Act, Asks, Resources
<1> HIDE DEF s
<1>5. InitOrder("simple_sysfs", s)
  BY <1>1, <1>2, <1>3, <1>4 DEF InitOrder
<1> QED BY <1>5 DEF s

LEMMA SysfsDeviceAlt ==
    InitOrder("simple_sysfs", <<Life!Free("class"), Life!Free("cdev"), Life!Free("region"),
                                Life!Do("fail")>>)
<1> DEFINE s == <<Life!Free("class"), Life!Free("cdev"), Life!Free("region"),
                  Life!Do("fail")>>
<1>1. s \in Seq(InitCalls("simple_sysfs"))
  BY DEF InitCalls, Tasklets, IrqBack, UndoCalls
<1>2. Ordered(s, InitRules("simple_sysfs"))
  BY CallFields DEF Ordered, Keeps, InitRules, Rule, Later, Act, Tasklets, TryIrq
<1>3. \A i \in 1..Len(s) : s[i].op # "try" /\ (s[i].op = "fail" => i = Len(s))
  BY CallFields
<1>4. Asks(Acts(s)) = {}
  BY CallFields DEF TryIrq, Fail, Acts, Act, Asks, Resources
<1> HIDE DEF s
<1>5. InitOrder("simple_sysfs", s)
  BY <1>1, <1>2, <1>3, <1>4 DEF InitOrder
<1> QED BY <1>5 DEF s

LEMMA SysfsFileAlt ==
    InitOrder("simple_sysfs", <<Life!Free("device"), Life!Free("class"), Life!Free("cdev"),
                                Life!Free("region"), Life!Do("fail")>>)
<1> DEFINE s == <<Life!Free("device"), Life!Free("class"), Life!Free("cdev"),
                  Life!Free("region"), Life!Do("fail")>>
<1>1. s \in Seq(InitCalls("simple_sysfs"))
  BY DEF InitCalls, Tasklets, IrqBack, UndoCalls
<1>2. Ordered(s, InitRules("simple_sysfs"))
  BY CallFields DEF Ordered, Keeps, InitRules, Rule, Later, Act, Tasklets, TryIrq
<1>3. \A i \in 1..Len(s) : s[i].op # "try" /\ (s[i].op = "fail" => i = Len(s))
  BY CallFields
<1>4. Asks(Acts(s)) = {}
  BY CallFields DEF TryIrq, Fail, Acts, Act, Asks, Resources
<1> HIDE DEF s
<1>5. InitOrder("simple_sysfs", s)
  BY <1>1, <1>2, <1>3, <1>4 DEF InitOrder
<1> QED BY <1>5 DEF s

LEMMA WorkqueueAlt ==
    InitOrder("simple_workqueue", <<Life!Request("SWITCH"), TryIrq(IrqFails)>>)
<1> DEFINE s == <<Life!Request("SWITCH"), TryIrq(IrqFails)>>
<1>1. s \in Seq(InitCalls("simple_workqueue"))
  BY DEF InitCalls, Tasklets, IrqBack, UndoCalls
<1>2. Ordered(s, InitRules("simple_workqueue"))
  BY CallFields DEF Ordered, Keeps, InitRules, Rule, Later, Act, Tasklets, TryIrq
<1>3. \A i \in 1..Len(s) : s[i].op # "fail" /\ (s[i].op = "try" => i \in {2})
  BY CallFields DEF TryIrq
<1>4. Fail \notin Acts(s)
  BY CallFields DEF TryIrq, Fail, Acts, Act, Asks, Resources
<1>5. AltFits("simple_workqueue", s[2], Later(s, 2))
  <2>1. Later(s, 2) = {}
    BY CallFields DEF Later, Act, TryIrq
  <2>2. s[2].alt = IrqFails /\ s[2].arg = "irq"
    BY CallFields DEF TryIrq
  <2> HIDE DEF s
  <2> QED BY <2>1, <2>2, AltActs
         DEF AltFits, Asks, Frees, Freed, Resources, Fail, Needed, Tasklets
<1> HIDE DEF s
<1>6. InitOrder("simple_workqueue", s)
  BY <1>1, <1>2, <1>3, <1>4, <1>5 DEF InitOrder
<1> QED BY <1>6 DEF s

LEMMA KthreadAlt == InitOrder("simple_kthread", <<Life!Arm("thread")>>)
<1> DEFINE s == <<Life!Arm("thread")>>
<1>1. s \in Seq(InitCalls("simple_kthread"))
  BY DEF InitCalls, Tasklets, IrqBack, UndoCalls
<1>2. Ordered(s, InitRules("simple_kthread"))
  BY CallFields DEF Ordered, Keeps, InitRules, Rule, Later, Act, Tasklets, TryIrq
<1>3. \A i \in 1..Len(s) : s[i].op # "fail" /\ (s[i].op = "try" => i \in {})
  BY CallFields DEF TryIrq
<1>4. Fail \notin Acts(s)
  BY CallFields DEF TryIrq, Fail, Acts, Act, Asks, Resources
<1> HIDE DEF s
<1>5. InitOrder("simple_kthread", s)
  BY <1>1, <1>2, <1>3, <1>4 DEF InitOrder
<1> QED BY <1>5 DEF s

IrqDrivers == {"switch_irq", "simple_sensor", "simple_workqueue", "simple_ultra"} \cup Tasklets
LEMMA IrqAlt ==
    ASSUME NEW d \in IrqDrivers
    PROVE  InitOrder(d, IrqFails)
<1> DEFINE s == <<Life!Free("irq"), Life!Wait("isr")>>
<1>1. s \in Seq(InitCalls(d))
  <2>1. CASE d = "switch_irq"
    BY <2>1 DEF InitCalls, Tasklets, IrqBack
  <2>2. CASE d = "simple_sensor"
    BY <2>2 DEF InitCalls, Tasklets, IrqBack
  <2>3. CASE d = "simple_workqueue"
    BY <2>3 DEF InitCalls, Tasklets, IrqBack
  <2>4. CASE d = "simple_ultra"
    BY <2>4 DEF InitCalls, Tasklets, IrqBack
  <2>5. CASE d = "simple_tasklet"
    BY <2>5 DEF InitCalls, Tasklets, IrqBack
  <2>6. CASE d = "tm_tasklet"
    BY <2>6 DEF InitCalls, Tasklets, IrqBack
  <2> QED BY <2>1, <2>2, <2>3, <2>4, <2>5, <2>6 DEF IrqDrivers, Tasklets
<1>2. s[1].op = "free" /\ s[2].op = "wait" /\ Len(s) = 2
  BY CallFields
<1>3. Act(s[1]) = <<"free", "irq">> /\ Act(s[2]) = <<"wait", "isr">>
  BY CallFields DEF Act
<1>4. Acts(s) = {<<"free", "irq">>, <<"wait", "isr">>} /\ Later(s, 1) = {<<"wait", "isr">>}
  BY <1>3 DEF Acts, Later
<1>5. \A rule \in InitRules(d) : rule[1] \notin {<<"free", "irq">>, <<"wait", "isr">>}
  BY DEF InitRules, IrqDrivers, Tasklets, Rule
<1> HIDE DEF s
<1>6. Ordered(s, InitRules(d))
  BY <1>2, <1>3, <1>4, <1>5 DEF Ordered, Keeps
<1>7. InitOrder(d, s)
  BY <1>1, <1>2, <1>4, <1>6 DEF InitOrder, Fail
<1> QED BY <1>7 DEF s, IrqFails

\* So does what a failed call leaves to do, whatever call of init it is.
LEMMA AltTable ==
    ASSUME NEW d \in DOMAIN Life!Programs, NEW h \in InitCalls(d), h.op = "try"
    PROVE  /\ InitOrder(d, h.alt) /\ h.arg \in Needed(d)
           /\ Fail \in Acts(h.alt) => d = "simple_sysfs" /\ h.arg \in {"class", "device", "file"}
           /\ Fail \notin Acts(h.alt) => h.arg \in {"irq", "wq", "thread"}
<1>1. CASE d \in IrqDrivers /\ h = TryIrq(IrqFails)
  BY <1>1, IrqAlt, AltActs, CallFields DEF TryIrq, Fail, IrqDrivers, Tasklets, Needed
<1>2. CASE d = "ch6" /\ h = TryIrq(Ch6Fails)
  BY <1>2, Ch6Alt, AltActs, CallFields DEF TryIrq, Fail, Ch6Fails, Needed
<1>3. CASE d = "simple_workqueue" /\ h = Life!Try("wq", WqFails)
  BY <1>3, WorkqueueAlt, AltActs, CallFields DEF Fail, WqFails, Needed, Tasklets
<1>4. CASE d = "simple_kthread" /\ h = Life!Try("thread", ThreadFails)
  BY <1>4, KthreadAlt, AltActs, CallFields DEF Fail, ThreadFails, Needed, Tasklets
<1>5. CASE d = "simple_sysfs" /\ h \in {Life!Try("class", ClassFails),
                                        Life!Try("device", DeviceFails),
                                        Life!Try("file", FileFails)}
  BY <1>5, SysfsClassAlt, SysfsDeviceAlt, SysfsFileAlt, AltActs, CallFields
     DEF Fail, ClassFails, DeviceFails, FileFails, Needed, Tasklets
<1>6. \/ d \in IrqDrivers /\ h = TryIrq(IrqFails)
      \/ d = "ch6" /\ h = TryIrq(Ch6Fails)
      \/ d = "simple_workqueue" /\ h = Life!Try("wq", WqFails)
      \/ d = "simple_kthread" /\ h = Life!Try("thread", ThreadFails)
      \/ d = "simple_sysfs" /\ h \in {Life!Try("class", ClassFails),
                                      Life!Try("device", DeviceFails),
                                      Life!Try("file", FileFails)}
  BY CallFields DEF InitCalls, IrqDrivers, Tasklets, IrqBack, UndoCalls, TryIrq, Life!Programs
<1> QED BY <1>1, <1>2, <1>3, <1>4, <1>5, <1>6

(***************************************************************************)
(* The exit tables, and all of the tables together                         *)
(***************************************************************************)
LEMMA TimerExit ==
    ExitOrder("simple_timer", <<Life!Disarm("timer")>>)
<1> DEFINE s == <<Life!Disarm("timer")>>
<1>1. s \in Seq(ExitCalls("simple_timer"))
  BY DEF ExitCalls, Tasklets, IrqBack, UndoCalls
<1>2. Ordered(s, ExitRules("simple_timer"))
  BY CallFields DEF Ordered, Keeps, ExitRules, Rule, Later, Act, Tasklets
<1>3. \A i \in 1..Len(s) : s[i].op # "if"
  BY CallFields
<1> HIDE DEF s
<1>4. ExitOrder("simple_timer", s)
  BY <1>1, <1>2, <1>3 DEF ExitOrder
<1> QED BY <1>4 DEF s

LEMMA Ch5Exit ==
    ExitOrder("ch5", <<Life!Led("off"), Life!Disarm("timer"), Life!Free("SWITCH"),
                       Life!Free("LED")>>)
<1> DEFINE s == <<Life!Led("off"), Life!Disarm("timer"), Life!Free("SWITCH"),
                  Life!Free("LED")>>
<1>1. s \in Seq(ExitCalls("ch5"))
  BY DEF ExitCalls, Tasklets, IrqBack, UndoCalls
<1>2. Ordered(s, ExitRules("ch5"))
  BY CallFields DEF Ordered, Keeps, ExitRules, Rule, Later, Act, Tasklets
<1>3. \A i \in 1..Len(s) : s[i].op # "if"
  BY CallFields
<1> HIDE DEF s
<1>4. ExitOrder("ch5", s)
  BY <1>1, <1>2, <1>3 DEF ExitOrder
<1> QED BY <1>4 DEF s

LEMMA Ch6Exit ==
    ExitOrder("ch6", <<Life!Do("disable"), Life!Wait("isr"), Life!Free("irq"),
                       Life!Wait("isr"), Life!Led("off"), Life!Free("PIR"),
                       Life!Free("LED"), Life!Disarm("timer")>>)
<1> DEFINE s == <<Life!Do("disable"), Life!Wait("isr"), Life!Free("irq"), Life!Wait("isr"),
                  Life!Led("off"), Life!Free("PIR"), Life!Free("LED"), Life!Disarm("timer")>>
<1>1. s \in Seq(ExitCalls("ch6"))
  BY DEF ExitCalls, Tasklets, IrqBack, UndoCalls
<1>2. Ordered(s, ExitRules("ch6"))
  BY CallFields DEF Ordered, Keeps, ExitRules, Rule, Later, Act, Tasklets
<1>3. \A i \in 1..Len(s) : s[i].op # "if"
  BY CallFields
<1> HIDE DEF s
<1>4. ExitOrder("ch6", s)
  BY <1>1, <1>2, <1>3 DEF ExitOrder
<1> QED BY <1>4 DEF s

LEMMA LedExit ==
    ExitOrder("simple_led", <<Life!Led("off"), Life!Free("LED")>>)
<1> DEFINE s == <<Life!Led("off"), Life!Free("LED")>>
<1>1. s \in Seq(ExitCalls("simple_led"))
  BY DEF ExitCalls, Tasklets, IrqBack, UndoCalls
<1>2. Ordered(s, ExitRules("simple_led"))
  BY CallFields DEF Ordered, Keeps, ExitRules, Rule, Later, Act, Tasklets
<1>3. \A i \in 1..Len(s) : s[i].op # "if"
  BY CallFields
<1> HIDE DEF s
<1>4. ExitOrder("simple_led", s)
  BY <1>1, <1>2, <1>3 DEF ExitOrder
<1> QED BY <1>4 DEF s

LEMMA SwitchExit ==
    ExitOrder("switch_irq", <<Life!Do("disable"), Life!Wait("isr"), Life!Free("irq"),
                              Life!Wait("isr"), Life!Free("SWITCH")>>)
<1> DEFINE s == <<Life!Do("disable"), Life!Wait("isr"), Life!Free("irq"), Life!Wait("isr"),
                  Life!Free("SWITCH")>>
<1>1. s \in Seq(ExitCalls("switch_irq"))
  BY DEF ExitCalls, Tasklets, IrqBack, UndoCalls
<1>2. Ordered(s, ExitRules("switch_irq"))
  BY CallFields DEF Ordered, Keeps, ExitRules, Rule, Later, Act, Tasklets
<1>3. \A i \in 1..Len(s) : s[i].op # "if"
  BY CallFields
<1> HIDE DEF s
<1>4. ExitOrder("switch_irq", s)
  BY <1>1, <1>2, <1>3 DEF ExitOrder
<1> QED BY <1>4 DEF s

LEMMA SensorExit ==
    ExitOrder("simple_sensor", <<Life!Free("cdev"), Life!Free("region"), Life!Free("irq"),
                                 Life!Wait("isr"), Life!Free("SENSOR1")>>)
<1> DEFINE s == <<Life!Free("cdev"), Life!Free("region"), Life!Free("irq"),
                  Life!Wait("isr"), Life!Free("SENSOR1")>>
<1>1. s \in Seq(ExitCalls("simple_sensor"))
  BY DEF ExitCalls, Tasklets, IrqBack, UndoCalls
<1>2. Ordered(s, ExitRules("simple_sensor"))
  BY CallFields DEF Ordered, Keeps, ExitRules, Rule, Later, Act, Tasklets
<1>3. \A i \in 1..Len(s) : s[i].op # "if"
  BY CallFields
<1> HIDE DEF s
<1>4. ExitOrder("simple_sensor", s)
  BY <1>1, <1>2, <1>3 DEF ExitOrder
<1> QED BY <1>4 DEF s

LEMMA TaskletExit ==
    ASSUME NEW d \in Tasklets
    PROVE  ExitOrder(d, <<Life!Wait("tasklet"), Life!Free("irq"), Life!Wait("isr"), Life!Free("SWITCH")>>)
<1> DEFINE s == <<Life!Wait("tasklet"), Life!Free("irq"), Life!Wait("isr"),
                  Life!Free("SWITCH")>>
<1>1. s \in Seq(ExitCalls(d))
  <2>1. CASE d = "simple_tasklet"
    BY <2>1 DEF ExitCalls, Tasklets, IrqBack
  <2>2. CASE d = "tm_tasklet"
    BY <2>2 DEF ExitCalls, Tasklets, IrqBack
  <2> QED BY <2>1, <2>2 DEF Tasklets
<1>2. Ordered(s, ExitRules(d))
  BY CallFields DEF Ordered, Keeps, ExitRules, Rule, Later, Act, Tasklets
<1>3. \A i \in 1..Len(s) : s[i].op # "if"
  BY CallFields
<1> HIDE DEF s
<1>4. ExitOrder(d, s)
  BY <1>1, <1>2, <1>3 DEF ExitOrder
<1> QED BY <1>4 DEF s

LEMMA WorkqueueExit ==
    ExitOrder("simple_workqueue", <<Life!Free("irq"), Life!Wait("isr"),
                                    Life!Free("SWITCH"), Life!Wait("works"), Life!Free("wq")>>)
<1> DEFINE s == <<Life!Free("irq"), Life!Wait("isr"), Life!Free("SWITCH"),
                  Life!Wait("works"), Life!Free("wq")>>
<1>1. s \in Seq(ExitCalls("simple_workqueue"))
  BY DEF ExitCalls, Tasklets, IrqBack, UndoCalls
<1>2. Ordered(s, ExitRules("simple_workqueue"))
  BY CallFields DEF Ordered, Keeps, ExitRules, Rule, Later, Act, Tasklets
<1>3. \A i \in 1..Len(s) : s[i].op # "if"
  BY CallFields
<1> HIDE DEF s
<1>4. ExitOrder("simple_workqueue", s)
  BY <1>1, <1>2, <1>3 DEF ExitOrder
<1> QED BY <1>4 DEF s

LEMMA SysfsExit ==
    ExitOrder("simple_sysfs", <<Life!Free("device"), Life!Free("class"), Life!Free("cdev"),
                                Life!Free("region")>>)
<1> DEFINE s == <<Life!Free("device"), Life!Free("class"), Life!Free("cdev"),
                  Life!Free("region")>>
<1>1. s \in Seq(ExitCalls("simple_sysfs"))
  BY DEF ExitCalls, Tasklets, IrqBack, UndoCalls
<1>2. Ordered(s, ExitRules("simple_sysfs"))
  BY CallFields DEF Ordered, Keeps, ExitRules, Rule, Later, Act, Tasklets
<1>3. \A i \in 1..Len(s) : s[i].op # "if"
  BY CallFields
<1> HIDE DEF s
<1>4. ExitOrder("simple_sysfs", s)
  BY <1>1, <1>2, <1>3 DEF ExitOrder
<1> QED BY <1>4 DEF s

LEMMA UltraExit ==
    ExitOrder("simple_ultra", <<Life!Free("irq"), Life!Wait("isr")>>)
<1> DEFINE s == <<Life!Free("irq"), Life!Wait("isr")>>
<1>1. s \in Seq(ExitCalls("simple_ultra"))
  BY DEF ExitCalls, Tasklets, IrqBack, UndoCalls
<1>2. Ordered(s, ExitRules("simple_ultra"))
  BY CallFields DEF Ordered, Keeps, ExitRules, Rule, Later, Act, Tasklets
<1>3. \A i \in 1..Len(s) : s[i].op # "if"
  BY CallFields
<1> HIDE DEF s
<1>4. ExitOrder("simple_ultra", s)
  BY <1>1, <1>2, <1>3 DEF ExitOrder
<1> QED BY <1>4 DEF s

StopCalls == <<Life!Do("stop"), Life!Wait("thread")>>
LEMMA KthreadExit ==
    /\ ExitOrder("simple_kthread", <<Life!If("thread", StopCalls)>>)
    /\ ExitOrder("simple_kthread", StopCalls) /\ ExitOrder("simple_kthread", <<>>)
<1> DEFINE s == <<Life!If("thread", StopCalls)>>
<1>1. /\ s \in Seq(ExitCalls("simple_kthread"))
      /\ StopCalls \in Seq(ExitCalls("simple_kthread"))
      /\ <<>> \in Seq(ExitCalls("simple_kthread"))
  BY DEF ExitCalls, Tasklets, StopCalls
<1>2. Ordered(s, ExitRules("simple_kthread"))
  BY CallFields DEF Ordered, Keeps, ExitRules, Rule, Later, Act, Tasklets
<1>3. Ordered(StopCalls, ExitRules("simple_kthread"))
  BY CallFields DEF Ordered, Keeps, ExitRules, Rule, Later, Act, Tasklets, StopCalls
<1>4. Ordered(<<>>, ExitRules("simple_kthread"))
  BY DEF Ordered, Keeps
<1>5. Len(s) = 1 /\ Len(<<>>) = 0 /\ \A i \in 1..Len(StopCalls) : StopCalls[i].op # "if"
  BY CallFields DEF StopCalls
<1> HIDE DEF s
<1>6. \A i \in 1..Len(s) : i = Len(s)
  BY <1>5
<1>7. ExitOrder("simple_kthread", s) /\ ExitOrder("simple_kthread", StopCalls)
  BY <1>1, <1>2, <1>3, <1>5, <1>6 DEF ExitOrder
<1>8. ExitOrder("simple_kthread", <<>>)
  BY <1>1, <1>4, <1>5 DEF ExitOrder
<1> QED BY <1>7, <1>8 DEF s

\* The tables of ModuleLife, with every call in its place.
LEMMA UndoWritten ==
    /\ Life!Undo(2) \o <<Life!Do("fail")>> = ClassFails
    /\ Life!Undo(1) \o <<Life!Do("fail")>> = DeviceFails
    /\ Life!Undo(0) \o <<Life!Do("fail")>> = FileFails
    /\ Life!Undo(0) = <<Life!Free("device"), Life!Free("class"), Life!Free("cdev"), Life!Free("region")>>
<1> DEFINE all == <<Life!Free("device"), Life!Free("class"), Life!Free("cdev"), Life!Free("region")>>
           U(n) == SubSeq(all, n + 1, 4)
<1>1. all \in Seq(UndoCalls)
  BY DEF UndoCalls
<1>2. /\ all[1] = Life!Free("device") /\ all[2] = Life!Free("class")
      /\ all[3] = Life!Free("cdev") /\ all[4] = Life!Free("region") /\ Len(all) = 4
  OBVIOUS
<1>3. ASSUME NEW n \in 0..2
      PROVE  /\ SubSeq(all, n + 1, 4) \in Seq(UndoCalls) /\ Len(SubSeq(all, n + 1, 4)) = 4 - n
             /\ \A i \in 1..4-n : SubSeq(all, n + 1, 4)[i] = all[n + i]
  <2>1. n + 1 \in Int /\ 4 \in Int /\ \A i \in n+1..4 : all[i] \in UndoCalls
    BY <1>2, SMT DEF UndoCalls
  <2> HIDE DEF all
  <2>2. /\ SubSeq(all, n + 1, 4) \in Seq(UndoCalls)
        /\ Len(SubSeq(all, n + 1, 4)) = IF n + 1 <= 4 THEN 4 - (n + 1) + 1 ELSE 0
        /\ \A i \in 1..4-(n+1)+1 : SubSeq(all, n + 1, 4)[i] = all[(n + 1) + i - 1]
    BY <2>1, SubSeqProperties
  <2> QED BY <2>2
<1>4. U(2) = <<Life!Free("cdev"), Life!Free("region")>>
  <2> DEFINE u == SubSeq(all, 3, 4)
             v == <<Life!Free("cdev"), Life!Free("region")>>
  <2>1. v \in Seq(UndoCalls) /\ Len(v) = 2 /\ v[1] = all[3] /\ v[2] = all[4]
    BY DEF UndoCalls
  <2>2. u \in Seq(UndoCalls) /\ Len(u) = 2 /\ u[1] = all[3] /\ u[2] = all[4]
    BY <1>3
  <2> HIDE DEF u, v, all
  <2>3. \A i \in 1..Len(u) : u[i] = v[i]
    BY <2>1, <2>2
  <2>4. u = v
    BY <2>1, <2>2, <2>3, SeqEqual
  <2> QED BY <2>4 DEF u, v
<1>5. U(1) = <<Life!Free("class"), Life!Free("cdev"), Life!Free("region")>>
  <2> DEFINE u == SubSeq(all, 2, 4)
             v == <<Life!Free("class"), Life!Free("cdev"), Life!Free("region")>>
  <2>1. v \in Seq(UndoCalls) /\ Len(v) = 3 /\ v[1] = all[2] /\ v[2] = all[3] /\ v[3] = all[4]
    BY DEF UndoCalls
  <2>2. u \in Seq(UndoCalls) /\ Len(u) = 3 /\ u[1] = all[2] /\ u[2] = all[3] /\ u[3] = all[4]
    BY <1>3
  <2> HIDE DEF u, v, all
  <2>3. \A i \in 1..Len(u) : u[i] = v[i]
    BY <2>1, <2>2
  <2>4. u = v
    BY <2>1, <2>2, <2>3, SeqEqual
  <2> QED BY <2>4 DEF u, v
<1>6. U(0) = <<Life!Free("device"), Life!Free("class"), Life!Free("cdev"), Life!Free("region")>>
  <2> DEFINE u == SubSeq(all, 1, 4)
             v == <<Life!Free("device"), Life!Free("class"), Life!Free("cdev"), Life!Free("region")>>
  <2>1. v \in Seq(UndoCalls) /\ Len(v) = 4 /\ v[1] = all[1] /\ v[2] = all[2] /\ v[3] = all[3] /\ v[4] = all[4]
    BY DEF UndoCalls
  <2>2. u \in Seq(UndoCalls) /\ Len(u) = 4 /\ u[1] = all[1] /\ u[2] = all[2] /\ u[3] = all[3] /\ u[4] = all[4]
    BY <1>3
  <2> HIDE DEF u, v, all
  <2>3. \A i \in 1..Len(u) : u[i] = v[i]
    BY <2>1, <2>2
  <2>4. u = v
    BY <2>1, <2>2, <2>3, SeqEqual
  <2> QED BY <2>4 DEF u, v
<1> HIDE DEF all
<1>7. Life!Undo(2) = U(2) /\ Life!Undo(1) = U(1) /\ Life!Undo(0) = U(0)
  BY DEF Life!Undo, all
<1> HIDE DEF U
<1>8. U(2) \o <<Life!Do("fail")>> = ClassFails
  BY <1>4, Join21 DEF ClassFails
<1>9. U(1) \o <<Life!Do("fail")>> = DeviceFails
  BY <1>5, Join31 DEF DeviceFails
<1>10. U(0) \o <<Life!Do("fail")>> = FileFails
  BY <1>6, Join41 DEF FileFails, all
<1> QED BY <1>6, <1>7, <1>8, <1>9, <1>10 DEF all

LEMMA TimerTable ==
    /\ Life!SimpleTimer.init = <<Life!Request("timer"), Life!Arm("timer")>>
    /\ Life!SimpleTimer.exit = <<Life!Disarm("timer")>>
BY Join12, Join23, UndoWritten
   DEF Life!SimpleTimer, Life!FreeIrq, Life!DisableIrq, TryIrq, IrqFails, Ch6Fails, WqFails, ThreadFails,
       StopCalls

LEMMA Ch5Table ==
    /\ Life!Ch5.init = <<Life!Request("LED"), Life!Request("SWITCH"),
                         Life!Request("timer"), Life!Arm("timer")>>
    /\ Life!Ch5.exit = <<Life!Led("off"), Life!Disarm("timer"), Life!Free("SWITCH"),
                         Life!Free("LED")>>
BY Join12, Join23, UndoWritten
   DEF Life!Ch5, Life!FreeIrq, Life!DisableIrq, TryIrq, IrqFails, Ch6Fails, WqFails, ThreadFails,
       StopCalls

LEMMA Ch6Table ==
    /\ Life!Ch6.init = <<Life!Request("PIR"), Life!Request("LED"), TryIrq(Ch6Fails),
                         Life!Request("timer")>>
    /\ Life!Ch6.exit = <<Life!Do("disable"), Life!Wait("isr"), Life!Free("irq"),
                         Life!Wait("isr"), Life!Led("off"), Life!Free("PIR"),
                         Life!Free("LED"), Life!Disarm("timer")>>
<1>1. Life!FreeIrq = IrqFails /\ Life!DisableIrq = <<Life!Do("disable"), Life!Wait("isr")>>
  BY DEF Life!FreeIrq, Life!DisableIrq, IrqFails
<1>2. Life!DisableIrq \o Life!FreeIrq =
          <<Life!Do("disable"), Life!Wait("isr"), Life!Free("irq"), Life!Wait("isr")>>
  BY <1>1, Join22 DEF IrqFails
<1>3. Life!FreeIrq \o <<Life!Request("timer")>> = Ch6Fails
  BY <1>1, Join21 DEF IrqFails, Ch6Fails
<1>4. Life!Ch6.init = <<Life!Request("PIR"), Life!Request("LED"), TryIrq(Ch6Fails),
                        Life!Request("timer")>>
  BY <1>1, <1>3, Join31 DEF Life!Ch6, TryIrq, IrqFails
<1>5. Life!Ch6.exit = <<Life!Do("disable"), Life!Wait("isr"), Life!Free("irq"),
                        Life!Wait("isr"), Life!Led("off"), Life!Free("PIR"),
                        Life!Free("LED"), Life!Disarm("timer")>>
  BY <1>2, Join44 DEF Life!Ch6
<1> QED BY <1>4, <1>5

LEMMA LedTable ==
    /\ Life!SimpleLed.init = <<Life!Request("LED"), Life!Led("on")>>
    /\ Life!SimpleLed.exit = <<Life!Led("off"), Life!Free("LED")>>
BY Join12, Join23, UndoWritten
   DEF Life!SimpleLed, Life!FreeIrq, Life!DisableIrq, TryIrq, IrqFails, Ch6Fails, WqFails, ThreadFails,
       StopCalls

LEMMA SwitchTable ==
    /\ Life!SwitchIrq.init = <<Life!Request("SWITCH"), TryIrq(IrqFails)>>
    /\ Life!SwitchIrq.exit = <<Life!Do("disable"), Life!Wait("isr"), Life!Free("irq"),
                               Life!Wait("isr"), Life!Free("SWITCH")>>
<1>1. Life!FreeIrq = IrqFails /\ Life!DisableIrq = <<Life!Do("disable"), Life!Wait("isr")>>
  BY DEF Life!FreeIrq, Life!DisableIrq, IrqFails
<1>2. Life!DisableIrq \o Life!FreeIrq =
          <<Life!Do("disable"), Life!Wait("isr"), Life!Free("irq"), Life!Wait("isr")>>
  BY <1>1, Join22 DEF IrqFails
<1>3. Life!SwitchIrq.init = <<Life!Request("SWITCH"), TryIrq(IrqFails)>>
  BY <1>1 DEF Life!SwitchIrq, TryIrq, IrqFails
<1>4. Life!SwitchIrq.exit = <<Life!Do("disable"), Life!Wait("isr"), Life!Free("irq"),
                              Life!Wait("isr"), Life!Free("SWITCH")>>
  BY <1>2, Join41 DEF Life!SwitchIrq
<1> QED BY <1>3, <1>4

LEMMA SensorTable ==
    /\ Life!SimpleSensor.init = <<Life!Request("region"), Life!Request("cdev"),
                                  Life!Request("SENSOR1"), TryIrq(IrqFails),
                                  Life!Do("disable"), Life!Wait("isr")>>
    /\ Life!SimpleSensor.exit = <<Life!Free("cdev"), Life!Free("region"), Life!Free("irq"),
                                  Life!Wait("isr"), Life!Free("SENSOR1")>>
<1>1. Life!FreeIrq = IrqFails /\ Life!DisableIrq = <<Life!Do("disable"), Life!Wait("isr")>>
  BY DEF Life!FreeIrq, Life!DisableIrq, IrqFails
<1>2. <<Life!Free("cdev"), Life!Free("region")>> \o Life!FreeIrq =
          <<Life!Free("cdev"), Life!Free("region"), Life!Free("irq"), Life!Wait("isr")>>
  BY <1>1, Join22 DEF IrqFails
<1>3. Life!SimpleSensor.init = <<Life!Request("region"), Life!Request("cdev"),
                                 Life!Request("SENSOR1"), TryIrq(IrqFails),
                                 Life!Do("disable"), Life!Wait("isr")>>
  BY <1>1, Join42 DEF Life!SimpleSensor, TryIrq, IrqFails
<1>4. Life!SimpleSensor.exit = <<Life!Free("cdev"), Life!Free("region"), Life!Free("irq"),
                                 Life!Wait("isr"), Life!Free("SENSOR1")>>
  BY <1>2, Join41 DEF Life!SimpleSensor
<1> QED BY <1>3, <1>4

LEMMA TaskletTable ==
    /\ Life!SimpleTasklet.init = <<Life!Request("tasklet"), Life!Request("SWITCH"),
                                   TryIrq(IrqFails)>>
    /\ Life!SimpleTasklet.exit = <<Life!Wait("tasklet"), Life!Free("irq"),
                                   Life!Wait("isr"), Life!Free("SWITCH")>>
<1>1. Life!FreeIrq = IrqFails /\ Life!DisableIrq = <<Life!Do("disable"), Life!Wait("isr")>>
  BY DEF Life!FreeIrq, Life!DisableIrq, IrqFails
<1>2. <<Life!Wait("tasklet")>> \o Life!FreeIrq =
          <<Life!Wait("tasklet"), Life!Free("irq"), Life!Wait("isr")>>
  BY <1>1, Join12 DEF IrqFails
<1>3. Life!SimpleTasklet.init = <<Life!Request("tasklet"), Life!Request("SWITCH"),
                                  TryIrq(IrqFails)>>
  BY <1>1 DEF Life!SimpleTasklet, TryIrq, IrqFails
<1>4. Life!SimpleTasklet.exit = <<Life!Wait("tasklet"), Life!Free("irq"), Life!Wait("isr"),
                                  Life!Free("SWITCH")>>
  BY <1>2, Join31 DEF Life!SimpleTasklet
<1> QED BY <1>3, <1>4

LEMMA WorkqueueTable ==
    /\ Life!SimpleWorkqueue.init = <<Life!Try("wq", WqFails), Life!Request("SWITCH"),
                                     TryIrq(IrqFails)>>
    /\ Life!SimpleWorkqueue.exit = <<Life!Free("irq"), Life!Wait("isr"),
                                     Life!Free("SWITCH"), Life!Wait("works"),
                                     Life!Free("wq")>>
BY Join12, Join23, UndoWritten
   DEF Life!SimpleWorkqueue, Life!FreeIrq, Life!DisableIrq, TryIrq, IrqFails, Ch6Fails, WqFails, ThreadFails,
       StopCalls

LEMMA KthreadTable ==
    /\ Life!SimpleKthread.init = <<Life!Try("thread", ThreadFails), Life!Arm("thread")>>
    /\ Life!SimpleKthread.exit = <<Life!If("thread", StopCalls)>>
BY Join12, Join23, UndoWritten
   DEF Life!SimpleKthread, Life!FreeIrq, Life!DisableIrq, TryIrq, IrqFails, Ch6Fails, WqFails, ThreadFails,
       StopCalls

LEMMA SysfsTable ==
    /\ Life!SimpleSysfs.init = <<Life!Request("region"), Life!Request("cdev"),
                                 Life!Try("class", ClassFails),
                                 Life!Try("device", DeviceFails),
                                 Life!Try("file", FileFails)>>
    /\ Life!SimpleSysfs.exit = <<Life!Free("device"), Life!Free("class"),
                                 Life!Free("cdev"), Life!Free("region")>>
BY Join12, Join23, UndoWritten
   DEF Life!SimpleSysfs, Life!FreeIrq, Life!DisableIrq, TryIrq, IrqFails, Ch6Fails, WqFails, ThreadFails,
       StopCalls

LEMMA UltraTable ==
    /\ Life!SimpleUltra.init = <<Life!Request("TRIG"), Life!Request("ECHO"),
                                 TryIrq(IrqFails), Life!Do("flag_0"), Life!Do("trigger"),
                                 Life!Do("flag_1")>>
    /\ Life!SimpleUltra.exit = <<Life!Free("irq"), Life!Wait("isr")>>
BY Join12, Join23, UndoWritten
   DEF Life!SimpleUltra, Life!FreeIrq, Life!DisableIrq, TryIrq, IrqFails, Ch6Fails, WqFails, ThreadFails,
       StopCalls

LEMMA Acts6 ==
    \A a, b, c, d, e, f :
        Acts(<<a, b, c, d, e, f>>) = {Act(a), Act(b), Act(c), Act(d), Act(e), Act(f)}
BY DEF Acts
LEMMA Acts8 ==
    \A a, b, c, d, e, f, g, h :
        Acts(<<a, b, c, d, e, f, g, h>>) = {Act(a), Act(b), Act(c), Act(d), Act(e), Act(f), Act(g), Act(h)}
BY DEF Acts

\* What driver has which table.
LEMMA DriverNames ==
    DOMAIN Life!Programs =
        {"simple_timer", "ch5", "ch6", "simple_led", "switch_irq", "simple_sensor",
         "simple_tasklet", "tm_tasklet", "simple_workqueue", "simple_kthread", "simple_sysfs",
         "simple_ultra"}
BY DEF Life!Programs

LEMMA DriverTables ==
    /\ Life!Programs["simple_timer"] = Life!SimpleTimer /\ Life!Programs["ch5"] = Life!Ch5
    /\ Life!Programs["ch6"] = Life!Ch6 /\ Life!Programs["simple_led"] = Life!SimpleLed
    /\ Life!Programs["switch_irq"] = Life!SwitchIrq
    /\ Life!Programs["simple_sensor"] = Life!SimpleSensor
    /\ \A d \in Tasklets : Life!Programs[d] = Life!SimpleTasklet
    /\ Life!Programs["simple_workqueue"] = Life!SimpleWorkqueue
    /\ Life!Programs["simple_kthread"] = Life!SimpleKthread
    /\ Life!Programs["simple_sysfs"] = Life!SimpleSysfs
    /\ Life!Programs["simple_ultra"] = Life!SimpleUltra
BY DEF Life!Programs, Tasklets, Life!TmTasklet

\* init, when nothing of it is done, is to acquire all that is needed.
StartsWell(d, s) ==
    /\ InitOrder(d, s) /\ s # <<>>
    /\ Asks(Acts(s)) = Needed(d) /\ Frees(Acts(s)) = {} /\ Fail \notin Acts(s)
LEMMA InitTable ==
    ASSUME NEW d \in DOMAIN Life!Programs
    PROVE  StartsWell(d, Life!Programs[d]["init"])
<1> DEFINE s == Life!Programs[d]["init"]
<1>1. CASE d = "simple_timer"
  <2>1. s = <<Life!Request("timer"), Life!Arm("timer")>>
    BY <1>1, DriverTables, TimerTable
  <2>2. InitOrder(d, s)
    BY <1>1, <2>1, TimerInit
  <2>3. Acts(s) = {<<"request", "timer">>, <<"arm", "timer">>}
    BY <2>1, Acts2, CallFields DEF Act, TryIrq
  <2>4. s # <<>>
    BY <2>1
  <2> HIDE DEF s
  <2>5. StartsWell(d, s)
    BY <1>1, <2>2, <2>3, <2>4 DEF StartsWell, Asks, Frees, Resources, Needed, Tasklets, Fail
  <2> QED BY <2>5 DEF s
<1>2. CASE d = "ch5"
  <2>1. s = <<Life!Request("LED"), Life!Request("SWITCH"), Life!Request("timer"),
              Life!Arm("timer")>>
    BY <1>2, DriverTables, Ch5Table
  <2>2. InitOrder(d, s)
    BY <1>2, <2>1, Ch5Init
  <2>3. Acts(s) = {<<"request", "LED">>, <<"request", "SWITCH">>, <<"request", "timer">>,
                   <<"arm", "timer">>}
    BY <2>1, Acts4, CallFields DEF Act, TryIrq
  <2>4. s # <<>>
    BY <2>1
  <2> HIDE DEF s
  <2>5. StartsWell(d, s)
    BY <1>2, <2>2, <2>3, <2>4 DEF StartsWell, Asks, Frees, Resources, Needed, Tasklets, Fail
  <2> QED BY <2>5 DEF s
<1>3. CASE d = "ch6"
  <2>1. s = <<Life!Request("PIR"), Life!Request("LED"), TryIrq(Ch6Fails),
              Life!Request("timer")>>
    BY <1>3, DriverTables, Ch6Table
  <2>2. InitOrder(d, s)
    BY <1>3, <2>1, Ch6Init
  <2>3. Acts(s) = {<<"request", "PIR">>, <<"request", "LED">>, <<"request", "irq">>,
                   <<"request", "timer">>}
    BY <2>1, Acts4, CallFields DEF Act, TryIrq
  <2>4. s # <<>>
    BY <2>1
  <2> HIDE DEF s
  <2>5. StartsWell(d, s)
    BY <1>3, <2>2, <2>3, <2>4 DEF StartsWell, Asks, Frees, Resources, Needed, Tasklets, Fail
  <2> QED BY <2>5 DEF s
<1>4. CASE d = "simple_led"
  <2>1. s = <<Life!Request("LED"), Life!Led("on")>>
    BY <1>4, DriverTables, LedTable
  <2>2. InitOrder(d, s)
    BY <1>4, <2>1, LedInit
  <2>3. Acts(s) = {<<"request", "LED">>, <<"led", "on">>}
    BY <2>1, Acts2, CallFields DEF Act, TryIrq
  <2>4. s # <<>>
    BY <2>1
  <2> HIDE DEF s
  <2>5. StartsWell(d, s)
    BY <1>4, <2>2, <2>3, <2>4 DEF StartsWell, Asks, Frees, Resources, Needed, Tasklets, Fail
  <2> QED BY <2>5 DEF s
<1>5. CASE d = "switch_irq"
  <2>1. s = <<Life!Request("SWITCH"), TryIrq(IrqFails)>>
    BY <1>5, DriverTables, SwitchTable
  <2>2. InitOrder(d, s)
    BY <1>5, <2>1, SwitchInit
  <2>3. Acts(s) = {<<"request", "SWITCH">>, <<"request", "irq">>}
    BY <2>1, Acts2, CallFields DEF Act, TryIrq
  <2>4. s # <<>>
    BY <2>1
  <2> HIDE DEF s
  <2>5. StartsWell(d, s)
    BY <1>5, <2>2, <2>3, <2>4 DEF StartsWell, Asks, Frees, Resources, Needed, Tasklets, Fail
  <2> QED BY <2>5 DEF s
<1>6. CASE d = "simple_sensor"
  <2>1. s = <<Life!Request("region"), Life!Request("cdev"), Life!Request("SENSOR1"),
              TryIrq(IrqFails), Life!Do("disable"), Life!Wait("isr")>>
    BY <1>6, DriverTables, SensorTable
  <2>2. InitOrder(d, s)
    BY <1>6, <2>1, SensorInit
  <2>3. Acts(s) = {<<"request", "region">>, <<"request", "cdev">>,
                   <<"request", "SENSOR1">>, <<"request", "irq">>,
                   <<"disable", "nothing">>, <<"wait", "isr">>}
    BY <2>1, Acts6, CallFields DEF Act, TryIrq
  <2>4. s # <<>>
    BY <2>1
  <2> HIDE DEF s
  <2>5. StartsWell(d, s)
    BY <1>6, <2>2, <2>3, <2>4 DEF StartsWell, Asks, Frees, Resources, Needed, Tasklets, Fail
  <2> QED BY <2>5 DEF s
<1>7. CASE d \in Tasklets
  <2>1. s = <<Life!Request("tasklet"), Life!Request("SWITCH"), TryIrq(IrqFails)>>
    BY <1>7, DriverTables, TaskletTable
  <2>2. InitOrder(d, s)
    BY <1>7, <2>1, TaskletInit
  <2>3. Acts(s) = {<<"request", "tasklet">>, <<"request", "SWITCH">>, <<"request", "irq">>}
    BY <2>1, Acts3, CallFields DEF Act, TryIrq
  <2>4. s # <<>>
    BY <2>1
  <2> HIDE DEF s
  <2>5. StartsWell(d, s)
    BY <1>7, <2>2, <2>3, <2>4 DEF StartsWell, Asks, Frees, Resources, Needed, Tasklets, Fail
  <2> QED BY <2>5 DEF s
<1>8. CASE d = "simple_workqueue"
  <2>1. s = <<Life!Try("wq", WqFails), Life!Request("SWITCH"), TryIrq(IrqFails)>>
    BY <1>8, DriverTables, WorkqueueTable
  <2>2. InitOrder(d, s)
    BY <1>8, <2>1, WorkqueueInit
  <2>3. Acts(s) = {<<"request", "wq">>, <<"request", "SWITCH">>, <<"request", "irq">>}
    BY <2>1, Acts3, CallFields DEF Act, TryIrq
  <2>4. s # <<>>
    BY <2>1
  <2> HIDE DEF s
  <2>5. StartsWell(d, s)
    BY <1>8, <2>2, <2>3, <2>4 DEF StartsWell, Asks, Frees, Resources, Needed, Tasklets, Fail
  <2> QED BY <2>5 DEF s
<1>9. CASE d = "simple_kthread"
  <2>1. s = <<Life!Try("thread", ThreadFails), Life!Arm("thread")>>
    BY <1>9, DriverTables, KthreadTable
  <2>2. InitOrder(d, s)
    BY <1>9, <2>1, KthreadInit
  <2>3. Acts(s) = {<<"request", "thread">>, <<"arm", "thread">>}
    BY <2>1, Acts2, CallFields DEF Act, TryIrq
  <2>4. s # <<>>
    BY <2>1
  <2> HIDE DEF s
  <2>5. StartsWell(d, s)
    BY <1>9, <2>2, <2>3, <2>4 DEF StartsWell, Asks, Frees, Resources, Needed, Tasklets, Fail
  <2> QED BY <2>5 DEF s
<1>10. CASE d = "simple_sysfs"
  <2>1. s = <<Life!Request("region"), Life!Request("cdev"), Life!Try("class", ClassFails),
              Life!Try("device", DeviceFails), Life!Try("file", FileFails)>>
    BY <1>10, DriverTables, SysfsTable
  <2>2. InitOrder(d, s)
    BY <1>10, <2>1, SysfsInit
  <2>3. Acts(s) = {<<"request", "region">>, <<"request", "cdev">>, <<"request", "class">>,
                   <<"request", "device">>, <<"request", "file">>}
    BY <2>1, Acts5, CallFields DEF Act, TryIrq
  <2>4. s # <<>>
    BY <2>1
  <2> HIDE DEF s
  <2>5. StartsWell(d, s)
    BY <1>10, <2>2, <2>3, <2>4 DEF StartsWell, Asks, Frees, Resources, Needed, Tasklets, Fail
  <2> QED BY <2>5 DEF s
<1>11. CASE d = "simple_ultra"
  <2>1. s = <<Life!Request("TRIG"), Life!Request("ECHO"), TryIrq(IrqFails),
              Life!Do("flag_0"), Life!Do("trigger"), Life!Do("flag_1")>>
    BY <1>11, DriverTables, UltraTable
  <2>2. InitOrder(d, s)
    BY <1>11, <2>1, UltraInit
  <2>3. Acts(s) = {<<"request", "TRIG">>, <<"request", "ECHO">>, <<"request", "irq">>,
                   <<"flag_0", "nothing">>, <<"trigger", "nothing">>,
                   <<"flag_1", "nothing">>}
    BY <2>1, Acts6, CallFields DEF Act, TryIrq
  <2>4. s # <<>>
    BY <2>1
  <2> HIDE DEF s
  <2>5. StartsWell(d, s)
    BY <1>11, <2>2, <2>3, <2>4 DEF StartsWell, Asks, Frees, Resources, Needed, Tasklets, Fail
  <2> QED BY <2>5 DEF s
<1> QED BY <1>1, <1>2, <1>3, <1>4, <1>5, <1>6, <1>7, <1>8, <1>9, <1>10, <1>11, DriverNames
        DEF Tasklets

\* exit, when nothing of it is done, is to give all of it back but what stays, and
\* to stop what may run.
EndsWell(d, s) ==
    /\ ExitOrder(d, s)
    /\ Freed(Acts(s)) = Needed(d) \ Stay
    /\ "timer" \in Needed(d) => <<"disarm", "timer">> \in Acts(s)
    /\ "tasklet" \in Needed(d) => <<"wait", "tasklet">> \in Acts(s)
    /\ "thread" \in Needed(d) => <<"if", "thread">> \in Acts(s)
    /\ d = "simple_workqueue" => <<"wait", "works">> \in Acts(s)
    /\ d = "ch6" => <<"led", "off">> \in Acts(s)
LEMMA ExitTable ==
    ASSUME NEW d \in DOMAIN Life!Programs
    PROVE  EndsWell(d, Life!Programs[d]["exit"])
<1> DEFINE s == Life!Programs[d]["exit"]
<1>1. CASE d = "simple_timer"
  <2>1. s = <<Life!Disarm("timer")>>
    BY <1>1, DriverTables, TimerTable
  <2>2. ExitOrder(d, s)
    BY <1>1, <2>1, TimerExit
  <2>3. Acts(s) = {<<"disarm", "timer">>}
    BY <2>1, Acts1, CallFields DEF Act, TryIrq
  <2> HIDE DEF s
  <2>4. EndsWell(d, s)
    BY <1>1, <2>2, <2>3 DEF EndsWell, Freed, Resources, Needed, Tasklets, Stay
  <2> QED BY <2>4 DEF s
<1>2. CASE d = "ch5"
  <2>1. s = <<Life!Led("off"), Life!Disarm("timer"), Life!Free("SWITCH"), Life!Free("LED")>>
    BY <1>2, DriverTables, Ch5Table
  <2>2. ExitOrder(d, s)
    BY <1>2, <2>1, Ch5Exit
  <2>3. Acts(s) = {<<"led", "off">>, <<"disarm", "timer">>, <<"free", "SWITCH">>,
                   <<"free", "LED">>}
    BY <2>1, Acts4, CallFields DEF Act, TryIrq
  <2> HIDE DEF s
  <2>4. EndsWell(d, s)
    BY <1>2, <2>2, <2>3 DEF EndsWell, Freed, Resources, Needed, Tasklets, Stay
  <2> QED BY <2>4 DEF s
<1>3. CASE d = "ch6"
  <2>1. s = <<Life!Do("disable"), Life!Wait("isr"), Life!Free("irq"), Life!Wait("isr"),
              Life!Led("off"), Life!Free("PIR"), Life!Free("LED"), Life!Disarm("timer")>>
    BY <1>3, DriverTables, Ch6Table
  <2>2. ExitOrder(d, s)
    BY <1>3, <2>1, Ch6Exit
  <2>3. Acts(s) = {<<"disable", "nothing">>, <<"wait", "isr">>, <<"free", "irq">>,
                   <<"wait", "isr">>, <<"led", "off">>, <<"free", "PIR">>,
                   <<"free", "LED">>, <<"disarm", "timer">>}
    BY <2>1, Acts8, CallFields DEF Act, TryIrq
  <2> HIDE DEF s
  <2>4. EndsWell(d, s)
    BY <1>3, <2>2, <2>3 DEF EndsWell, Freed, Resources, Needed, Tasklets, Stay
  <2> QED BY <2>4 DEF s
<1>4. CASE d = "simple_led"
  <2>1. s = <<Life!Led("off"), Life!Free("LED")>>
    BY <1>4, DriverTables, LedTable
  <2>2. ExitOrder(d, s)
    BY <1>4, <2>1, LedExit
  <2>3. Acts(s) = {<<"led", "off">>, <<"free", "LED">>}
    BY <2>1, Acts2, CallFields DEF Act, TryIrq
  <2> HIDE DEF s
  <2>4. EndsWell(d, s)
    BY <1>4, <2>2, <2>3 DEF EndsWell, Freed, Resources, Needed, Tasklets, Stay
  <2> QED BY <2>4 DEF s
<1>5. CASE d = "switch_irq"
  <2>1. s = <<Life!Do("disable"), Life!Wait("isr"), Life!Free("irq"), Life!Wait("isr"),
              Life!Free("SWITCH")>>
    BY <1>5, DriverTables, SwitchTable
  <2>2. ExitOrder(d, s)
    BY <1>5, <2>1, SwitchExit
  <2>3. Acts(s) = {<<"disable", "nothing">>, <<"wait", "isr">>, <<"free", "irq">>,
                   <<"wait", "isr">>, <<"free", "SWITCH">>}
    BY <2>1, Acts5, CallFields DEF Act, TryIrq
  <2> HIDE DEF s
  <2>4. EndsWell(d, s)
    BY <1>5, <2>2, <2>3 DEF EndsWell, Freed, Resources, Needed, Tasklets, Stay
  <2> QED BY <2>4 DEF s
<1>6. CASE d = "simple_sensor"
  <2>1. s = <<Life!Free("cdev"), Life!Free("region"), Life!Free("irq"), Life!Wait("isr"),
              Life!Free("SENSOR1")>>
    BY <1>6, DriverTables, SensorTable
  <2>2. ExitOrder(d, s)
    BY <1>6, <2>1, SensorExit
  <2>3. Acts(s) = {<<"free", "cdev">>, <<"free", "region">>, <<"free", "irq">>,
                   <<"wait", "isr">>, <<"free", "SENSOR1">>}
    BY <2>1, Acts5, CallFields DEF Act, TryIrq
  <2> HIDE DEF s
  <2>4. EndsWell(d, s)
    BY <1>6, <2>2, <2>3 DEF EndsWell, Freed, Resources, Needed, Tasklets, Stay
  <2> QED BY <2>4 DEF s
<1>7. CASE d \in Tasklets
  <2>1. s = <<Life!Wait("tasklet"), Life!Free("irq"), Life!Wait("isr"), Life!Free("SWITCH")>>
    BY <1>7, DriverTables, TaskletTable
  <2>2. ExitOrder(d, s)
    BY <1>7, <2>1, TaskletExit
  <2>3. Acts(s) = {<<"wait", "tasklet">>, <<"free", "irq">>, <<"wait", "isr">>,
                   <<"free", "SWITCH">>}
    BY <2>1, Acts4, CallFields DEF Act, TryIrq
  <2> HIDE DEF s
  <2>4. EndsWell(d, s)
    BY <1>7, <2>2, <2>3 DEF EndsWell, Freed, Resources, Needed, Tasklets, Stay
  <2> QED BY <2>4 DEF s
<1>8. CASE d = "simple_workqueue"
  <2>1. s = <<Life!Free("irq"), Life!Wait("isr"), Life!Free("SWITCH"), Life!Wait("works"),
              Life!Free("wq")>>
    BY <1>8, DriverTables, WorkqueueTable
  <2>2. ExitOrder(d, s)
    BY <1>8, <2>1, WorkqueueExit
  <2>3. Acts(s) = {<<"free", "irq">>, <<"wait", "isr">>, <<"free", "SWITCH">>,
                   <<"wait", "works">>, <<"free", "wq">>}
    BY <2>1, Acts5, CallFields DEF Act, TryIrq
  <2> HIDE DEF s
  <2>4. EndsWell(d, s)
    BY <1>8, <2>2, <2>3 DEF EndsWell, Freed, Resources, Needed, Tasklets, Stay
  <2> QED BY <2>4 DEF s
<1>9. CASE d = "simple_kthread"
  <2>1. s = <<Life!If("thread", StopCalls)>>
    BY <1>9, DriverTables, KthreadTable
  <2>2. ExitOrder(d, s)
    BY <1>9, <2>1, KthreadExit
  <2>3. Acts(s) = {<<"if", "thread">>}
    BY <2>1, Acts1, CallFields DEF Act, TryIrq
  <2> HIDE DEF s
  <2>4. EndsWell(d, s)
    BY <1>9, <2>2, <2>3 DEF EndsWell, Freed, Resources, Needed, Tasklets, Stay
  <2> QED BY <2>4 DEF s
<1>10. CASE d = "simple_sysfs"
  <2>1. s = <<Life!Free("device"), Life!Free("class"), Life!Free("cdev"),
              Life!Free("region")>>
    BY <1>10, DriverTables, SysfsTable
  <2>2. ExitOrder(d, s)
    BY <1>10, <2>1, SysfsExit
  <2>3. Acts(s) = {<<"free", "device">>, <<"free", "class">>, <<"free", "cdev">>,
                   <<"free", "region">>}
    BY <2>1, Acts4, CallFields DEF Act, TryIrq
  <2> HIDE DEF s
  <2>4. EndsWell(d, s)
    BY <1>10, <2>2, <2>3 DEF EndsWell, Freed, Resources, Needed, Tasklets, Stay
  <2> QED BY <2>4 DEF s
<1>11. CASE d = "simple_ultra"
  <2>1. s = <<Life!Free("irq"), Life!Wait("isr")>>
    BY <1>11, DriverTables, UltraTable
  <2>2. ExitOrder(d, s)
    BY <1>11, <2>1, UltraExit
  <2>3. Acts(s) = {<<"free", "irq">>, <<"wait", "isr">>}
    BY <2>1, Acts2, CallFields DEF Act, TryIrq
  <2> HIDE DEF s
  <2>4. EndsWell(d, s)
    BY <1>11, <2>2, <2>3 DEF EndsWell, Freed, Resources, Needed, Tasklets, Stay
  <2> QED BY <2>4 DEF s
<1> QED BY <1>1, <1>2, <1>3, <1>4, <1>5, <1>6, <1>7, <1>8, <1>9, <1>10, <1>11, DriverNames
        DEF Tasklets

(***************************************************************************)
(* The callbacks and the user: what a function that runs has still to do   *)
(***************************************************************************)
QueueCalls == <<Life!Call("queue", "wq", {"wq"})>>
Rests(d, c) ==
    CASE c = "isr" ->
           (CASE d = "ch6" -> {<<Life!Led("off"), Life!Led("on"), Life!Arm("timer")>>,
                               <<Life!Led("on"), Life!Arm("timer")>>, <<Life!Arm("timer")>>}
              [] d = "switch_irq" -> {<<Life!Do("print")>>}
              [] d = "simple_sensor" -> {<<Life!Call("print", "start", {"start"})>>}
              [] d \in Tasklets -> {<<Life!Arm("tasklet")>>}
              [] d = "simple_workqueue" -> {<<Life!If("wq", QueueCalls)>>, QueueCalls}
              [] d = "simple_ultra" -> {<<Life!Do("time"), Life!Do("echo")>>, <<Life!Do("echo")>>}
              [] OTHER -> {})
      [] c = "timer" ->
           (CASE d = "simple_timer" -> {<<Life!Arm("timer")>>}
              [] d = "ch5" -> {<<Life!Do("sample"), Life!Call("show", "LED", {"LED"}), Life!Arm("timer")>>,
                               <<Life!Call("show", "LED", {"LED"}), Life!Arm("timer")>>,
                               <<Life!Arm("timer")>>}
              [] d = "ch6" -> {<<Life!Led("off")>>}
              [] OTHER -> {})
      [] c = "tasklet" -> IF d \in Tasklets THEN {<<Life!Do("print")>>} ELSE {}
      [] c = "thread" -> IF d = "simple_kthread" THEN {<<Life!Do("until_stop")>>} ELSE {}
      [] c = "user" ->
           IF d = "simple_sensor"
           THEN {<<Life!Do("enable"), Life!Request("start")>>, <<Life!Request("start")>>,
                 <<Life!Do("disable"), Life!Wait("isr")>>, <<Life!Wait("isr")>>}
           ELSE {}
      [] OTHER -> IF d = "simple_workqueue"
                  THEN {<<Life!Do("fill"), Life!Do("kfree")>>, <<Life!Do("kfree")>>} ELSE {}

LEMMA ContextNames ==
    /\ Life!Callbacks = {"isr", "timer", "tasklet", "thread"} \cup Works
    /\ Life!Contexts = {"module", "user"} \cup Life!Callbacks
    /\ "module" \notin Life!Callbacks /\ "user" \notin Life!Callbacks
    /\ \A w \in Works : w \notin {"module", "user", "isr", "timer", "tasklet", "thread"}
BY WorksAssumption DEF Life!Callbacks, Life!Contexts

\* What a callback runs, and the user.
LEMMA HandlerTable ==
    /\ Life!Ch6["isr"] = <<Life!Led("off"), Life!Led("on"), Life!Arm("timer")>>
    /\ Life!SwitchIrq["isr"] = <<Life!Do("print")>>
    /\ Life!SimpleSensor["isr"] = <<Life!Call("print", "start", {"start"})>>
    /\ Life!SimpleTasklet["isr"] = <<Life!Arm("tasklet")>>
    /\ Life!SimpleWorkqueue["isr"] = <<Life!If("wq", QueueCalls)>>
    /\ Life!SimpleUltra["isr"] = <<Life!Do("time"), Life!Do("echo")>>
    /\ Life!SimpleTimer["timer"] = <<Life!Arm("timer")>>
    /\ Life!Ch5["timer"] = <<Life!Do("sample"), Life!Call("show", "LED", {"LED"}),
                            Life!Arm("timer")>>
    /\ Life!Ch6["timer"] = <<Life!Led("off")>>
    /\ Life!SimpleTasklet["tasklet"] = <<Life!Do("print")>>
    /\ Life!SimpleKthread["thread"] = <<Life!Do("until_stop")>>
    /\ Life!SimpleWorkqueue["work"] = <<Life!Do("fill"), Life!Do("kfree")>>
    /\ Life!SimpleSensor["open"] = <<Life!Do("enable"), Life!Request("start")>>
    /\ Life!SimpleSensor["release"] = <<Life!Do("disable"), Life!Wait("isr")>>
BY DEF Life!Ch6, Life!SwitchIrq, Life!SimpleSensor, Life!SimpleTasklet, Life!SimpleWorkqueue,
       Life!SimpleUltra, Life!SimpleTimer, Life!Ch5, Life!SimpleKthread, Life!DisableIrq, QueueCalls

\* The same, for every driver that has the context.
LEMMA RestsTable ==
    /\ Rests("ch6", "isr") = {<<Life!Led("off"), Life!Led("on"), Life!Arm("timer")>>,
                              <<Life!Led("on"), Life!Arm("timer")>>, <<Life!Arm("timer")>>}
    /\ Rests("switch_irq", "isr") = {<<Life!Do("print")>>}
    /\ Rests("simple_sensor", "isr") = {<<Life!Call("print", "start", {"start"})>>}
    /\ \A d \in Tasklets : Rests(d, "isr") = {<<Life!Arm("tasklet")>>}
    /\ Rests("simple_workqueue", "isr") = {<<Life!If("wq", QueueCalls)>>, QueueCalls}
    /\ Rests("simple_ultra", "isr") = {<<Life!Do("time"), Life!Do("echo")>>, <<Life!Do("echo")>>}
    /\ Rests("simple_timer", "timer") = {<<Life!Arm("timer")>>}
    /\ Rests("ch5", "timer") =
            {<<Life!Do("sample"), Life!Call("show", "LED", {"LED"}), Life!Arm("timer")>>,
             <<Life!Call("show", "LED", {"LED"}), Life!Arm("timer")>>, <<Life!Arm("timer")>>}
    /\ Rests("ch6", "timer") = {<<Life!Led("off")>>}
    /\ \A d \in Tasklets : Rests(d, "tasklet") = {<<Life!Do("print")>>}
    /\ Rests("simple_kthread", "thread") = {<<Life!Do("until_stop")>>}
    /\ Rests("simple_sensor", "user") =
            {<<Life!Do("enable"), Life!Request("start")>>, <<Life!Request("start")>>,
             <<Life!Do("disable"), Life!Wait("isr")>>, <<Life!Wait("isr")>>}
    /\ \A w \in Works : Rests("simple_workqueue", w) =
            {<<Life!Do("fill"), Life!Do("kfree")>>, <<Life!Do("kfree")>>}
<1>1. \A d \in Tasklets : d \notin {"ch6", "switch_irq", "simple_sensor"}
  BY DEF Tasklets
<1>2. "simple_workqueue" \notin Tasklets /\ "simple_ultra" \notin Tasklets
  BY DEF Tasklets
<1> QED BY <1>1, <1>2, ContextNames DEF Rests

LEMMA RestsDrivers ==
    ASSUME NEW d \in DOMAIN Life!Programs, NEW c, Rests(d, c) # {}
    PROVE  /\ c = "isr" => d \in {"ch6"} \cup IrqDrivers
           /\ c = "timer" => d \in {"simple_timer", "ch5", "ch6"}
           /\ c = "tasklet" => d \in Tasklets
           /\ c = "thread" => d = "simple_kthread"
           /\ c = "user" => d = "simple_sensor"
           /\ c \in Works => d = "simple_workqueue"
BY ContextNames DEF Rests, IrqDrivers, Tasklets

LEMMA NotEmpty == \A a, b, c : <<a>> # <<>> /\ <<a, b>> # <<>> /\ <<a, b, c>> # <<>>
OBVIOUS

LEMMA CodeTable ==
    ASSUME driver \in DOMAIN Life!Programs, NEW cb \in Life!Callbacks, Rests(driver, cb) # {}
    PROVE  Life!CodeOf(cb) \in Rests(driver, cb) /\ Life!CodeOf(cb) # <<>>
<1>1. CASE cb = "isr"
  <2>0. Life!CodeOf(cb) = Life!Programs[driver]["isr"]
    BY <1>1, ContextNames DEF Life!CodeOf, Life!Code
  <2>1. driver \in {"ch6"} \cup IrqDrivers
    BY <1>1, RestsDrivers
  <2>2. CASE driver = "ch6"
    <3>1. Life!CodeOf(cb) = Life!Ch6["isr"]
      BY <2>0, <2>2, DriverTables
    <3>2. Life!CodeOf(cb) = <<Life!Led("off"), Life!Led("on"), Life!Arm("timer")>>
      BY <3>1, HandlerTable
    <3>3. <<Life!Led("off"), Life!Led("on"), Life!Arm("timer")>> \in Rests(driver, cb)
      BY <1>1, <2>2, RestsTable
    <3> QED BY <3>2, <3>3, NotEmpty
  <2>3. CASE driver = "switch_irq"
    <3>1. Life!CodeOf(cb) = Life!SwitchIrq["isr"]
      BY <2>0, <2>3, DriverTables
    <3>2. Life!CodeOf(cb) = <<Life!Do("print")>>
      BY <3>1, HandlerTable
    <3>3. <<Life!Do("print")>> \in Rests(driver, cb)
      BY <1>1, <2>3, RestsTable
    <3> QED BY <3>2, <3>3, NotEmpty
  <2>4. CASE driver = "simple_sensor"
    <3>1. Life!CodeOf(cb) = Life!SimpleSensor["isr"]
      BY <2>0, <2>4, DriverTables
    <3>2. Life!CodeOf(cb) = <<Life!Call("print", "start", {"start"})>>
      BY <3>1, HandlerTable
    <3>3. <<Life!Call("print", "start", {"start"})>> \in Rests(driver, cb)
      BY <1>1, <2>4, RestsTable
    <3> QED BY <3>2, <3>3, NotEmpty
  <2>5. CASE driver \in Tasklets
    <3>1. Life!CodeOf(cb) = Life!SimpleTasklet["isr"]
      BY <2>0, <2>5, DriverTables
    <3>2. Life!CodeOf(cb) = <<Life!Arm("tasklet")>>
      BY <3>1, HandlerTable
    <3>3. Rests(driver, cb) = {<<Life!Arm("tasklet")>>}
      BY <1>1, <2>5, RestsTable
    <3> QED BY <3>2, <3>3, NotEmpty
  <2>6. CASE driver = "simple_workqueue"
    <3>1. Life!CodeOf(cb) = Life!SimpleWorkqueue["isr"]
      BY <2>0, <2>6, DriverTables
    <3>2. Life!CodeOf(cb) = <<Life!If("wq", QueueCalls)>>
      BY <3>1, HandlerTable
    <3>3. <<Life!If("wq", QueueCalls)>> \in Rests(driver, cb)
      BY <1>1, <2>6, RestsTable
    <3> QED BY <3>2, <3>3, NotEmpty
  <2>7. CASE driver = "simple_ultra"
    <3>1. Life!CodeOf(cb) = Life!SimpleUltra["isr"]
      BY <2>0, <2>7, DriverTables
    <3>2. Life!CodeOf(cb) = <<Life!Do("time"), Life!Do("echo")>>
      BY <3>1, HandlerTable
    <3>3. <<Life!Do("time"), Life!Do("echo")>> \in Rests(driver, cb)
      BY <1>1, <2>7, RestsTable
    <3> QED BY <3>2, <3>3, NotEmpty
  <2> QED BY <2>1, <2>2, <2>3, <2>4, <2>5, <2>6, <2>7 DEF IrqDrivers
<1>2. CASE cb = "timer"
  <2>0. Life!CodeOf(cb) = Life!Programs[driver]["timer"]
    BY <1>2, ContextNames DEF Life!CodeOf, Life!Code
  <2>1. driver \in {"simple_timer", "ch5", "ch6"}
    BY <1>2, RestsDrivers
  <2>2. CASE driver = "simple_timer"
    <3>1. Life!CodeOf(cb) = Life!SimpleTimer["timer"]
      BY <2>0, <2>2, DriverTables
    <3>2. Life!CodeOf(cb) = <<Life!Arm("timer")>>
      BY <3>1, HandlerTable
    <3>3. <<Life!Arm("timer")>> \in Rests(driver, cb)
      BY <1>2, <2>2, RestsTable
    <3> QED BY <3>2, <3>3, NotEmpty
  <2>3. CASE driver = "ch5"
    <3>1. Life!CodeOf(cb) = Life!Ch5["timer"]
      BY <2>0, <2>3, DriverTables
    <3>2. Life!CodeOf(cb) = <<Life!Do("sample"), Life!Call("show", "LED", {"LED"}), Life!Arm("timer")>>
      BY <3>1, HandlerTable
    <3>3. <<Life!Do("sample"), Life!Call("show", "LED", {"LED"}), Life!Arm("timer")>> \in Rests(driver, cb)
      BY <1>2, <2>3, RestsTable
    <3> QED BY <3>2, <3>3, NotEmpty
  <2>4. CASE driver = "ch6"
    <3>1. Life!CodeOf(cb) = Life!Ch6["timer"]
      BY <2>0, <2>4, DriverTables
    <3>2. Life!CodeOf(cb) = <<Life!Led("off")>>
      BY <3>1, HandlerTable
    <3>3. <<Life!Led("off")>> \in Rests(driver, cb)
      BY <1>2, <2>4, RestsTable
    <3> QED BY <3>2, <3>3, NotEmpty
  <2> QED BY <2>1, <2>2, <2>3, <2>4
<1>3. CASE cb = "tasklet"
  <2>0. Life!CodeOf(cb) = Life!Programs[driver]["tasklet"]
    BY <1>3, ContextNames DEF Life!CodeOf, Life!Code
  <2>1. driver \in Tasklets
    BY <1>3, RestsDrivers
  <2>2. Life!CodeOf(cb) = Life!SimpleTasklet["tasklet"]
    BY <2>0, <2>1, DriverTables
  <2>3. Life!CodeOf(cb) = <<Life!Do("print")>>
    BY <2>2, HandlerTable
  <2>4. Rests(driver, cb) = {<<Life!Do("print")>>}
    BY <1>3, <2>1, RestsTable
  <2> QED BY <2>3, <2>4, NotEmpty
<1>4. CASE cb = "thread"
  <2>0. Life!CodeOf(cb) = Life!Programs[driver]["thread"]
    BY <1>4, ContextNames DEF Life!CodeOf, Life!Code
  <2>1. driver = "simple_kthread"
    BY <1>4, RestsDrivers
  <2>2. Life!CodeOf(cb) = Life!SimpleKthread["thread"]
    BY <2>0, <2>1, DriverTables
  <2>3. Life!CodeOf(cb) = <<Life!Do("until_stop")>>
    BY <2>2, HandlerTable
  <2>4. <<Life!Do("until_stop")>> \in Rests(driver, cb)
    BY <1>4, <2>1, RestsTable
  <2> QED BY <2>3, <2>4, NotEmpty
<1>5. CASE cb \in Works
  <2>0. Life!CodeOf(cb) = Life!Programs[driver]["work"]
    BY <1>5, ContextNames DEF Life!CodeOf, Life!Code
  <2>1. driver = "simple_workqueue"
    BY <1>5, RestsDrivers
  <2>2. Life!CodeOf(cb) = Life!SimpleWorkqueue["work"]
    BY <2>0, <2>1, DriverTables
  <2>3. Life!CodeOf(cb) = <<Life!Do("fill"), Life!Do("kfree")>>
    BY <2>2, HandlerTable
  <2>4. <<Life!Do("fill"), Life!Do("kfree")>> \in Rests(driver, cb)
    BY <1>5, <2>1, RestsTable
  <2> QED BY <2>3, <2>4, NotEmpty
<1> QED BY <1>1, <1>2, <1>3, <1>4, <1>5, ContextNames

\* Only one driver has a device to open.
LEMMA UserTable ==
    ASSUME driver \in DOMAIN Life!Programs, Life!Has("open")
    PROVE  /\ driver = "simple_sensor"
           /\ Life!Code("open") = <<Life!Do("enable"), Life!Request("start")>>
           /\ Life!Code("release") = <<Life!Do("disable"), Life!Wait("isr")>>
<1>1. /\ "open" \notin DOMAIN Life!SimpleTimer /\ "open" \notin DOMAIN Life!Ch5
      /\ "open" \notin DOMAIN Life!Ch6 /\ "open" \notin DOMAIN Life!SimpleLed
      /\ "open" \notin DOMAIN Life!SwitchIrq /\ "open" \notin DOMAIN Life!SimpleTasklet
      /\ "open" \notin DOMAIN Life!SimpleWorkqueue /\ "open" \notin DOMAIN Life!SimpleKthread
      /\ "open" \notin DOMAIN Life!SimpleSysfs /\ "open" \notin DOMAIN Life!SimpleUltra
  BY DEF Life!SimpleTimer, Life!Ch5, Life!Ch6, Life!SimpleLed, Life!SwitchIrq,
         Life!SimpleTasklet, Life!SimpleWorkqueue, Life!SimpleKthread, Life!SimpleSysfs,
         Life!SimpleUltra
<1>2. driver = "simple_sensor"
  BY <1>1, DriverNames, DriverTables DEF Life!Has, Tasklets
<1> QED BY <1>2, DriverTables, HandlerTable DEF Life!Code

(***************************************************************************)
(* The steps of a context, by the call that it makes                       *)
(***************************************************************************)
\* c has made its call and has calls to make; the other contexts have not moved.
MovesTo(c, seq) ==
    /\ run' = [k \in Life!Contexts |-> run'[k]] /\ run'[c] = seq
    /\ \A k \in Life!Contexts \ {c} : run'[k] = run[k]

LEMMA GoOnMoves ==
    ASSUME NEW c \in Life!Contexts, NEW seq, Life!GoOn(c, seq),
           run = [k \in Life!Contexts |-> run[k]]
    PROVE  MovesTo(c, seq) /\ UNCHANGED <<driver, phase, edges>>
BY DEF Life!GoOn, MovesTo

LEMMA StepOf ==
    ASSUME NEW c, Life!Step(c)
    PROVE  LET op == Head(run[c]).op IN
           /\ Life!Loaded /\ run[c] # <<>>
           /\ op = "request" => Life!Acquire(c)
           /\ op = "try" => Life!Acquire(c) \/ Life!AcquireFails(c)
           /\ op = "free" => Life!Release(c)
           /\ op = "if" => Life!TestPointer(c)
           /\ op = "arm" => Life!Oops(c) \/ Life!ArmCallback(c)
           /\ op = "disarm" => Life!DelTimer(c)
           /\ op = "wait" => Life!WaitIdle(c)
           /\ op \in {"disable", "enable"} => Life!SetDepth(c)
           /\ op = "queue" => Life!Oops(c) \/ Life!QueueWork(c)
           /\ op \in {"fill", "kfree"} => Life!WorkStep(c)
           /\ op = "until_stop" => Life!ThreadStops(c)
           /\ op = "stop" => Life!StopThread(c)
           /\ op = "print" => Life!Report(c)
           /\ op = "fail" => Life!InitFails(c)
           /\ op \in {"led", "sample", "show"} => Life!Pins(c)
           /\ op \in {"flag_0", "flag_1", "trigger", "time", "echo"} => Life!Sonar(c)
BY DEF Life!Step, Life!Acquire, Life!AcquireFails, Life!Release, Life!TestPointer, Life!Oops,
       Life!ArmCallback, Life!DelTimer, Life!WaitIdle, Life!SetDepth, Life!QueueWork, Life!WorkStep,
       Life!ThreadStops, Life!StopThread, Life!Report, Life!InitFails, Life!Pins, Life!Sonar,
       Life!Now, Life!Running

(***************************************************************************)
(* The types                                                               *)
(***************************************************************************)
ToDo == Acts(run["module"])
LifeTypes ==
    /\ driver \in DOMAIN Life!Programs
    /\ phase \in {"init", "up", "exit", "gone", "oops"}
    /\ run = [k \in Life!Contexts |-> run[k]]
    /\ \A k \in Life!Contexts \ {"module"} : run[k] = <<>> \/ run[k] \in Rests(driver, k)
    /\ phase = "init" => InitOrder(driver, run["module"])
    /\ phase = "exit" => ExitOrder(driver, run["module"])
    /\ phase \in {"up", "gone"} => run["module"] = <<>>
    /\ armed \subseteq Life!Callbacks /\ \A k \in armed : Rests(driver, k) # {}
    /\ held \subseteq Needed(driver) \cup {"opened", "start"}
    /\ items \subseteq Works /\ depth \in Nat
    /\ led \in {"on", "off"} /\ button \in [now : {"on", "off"}, read : {"on", "off"}]

(***************************************************************************)
(* What a step of a callback changes                                       *)
(***************************************************************************)
Moves(c) == MovesTo(c, run'[c]) /\ (run'[c] = <<>> \/ run'[c] \in Rests(driver, c))
LEMMA HeadTail ==
    /\ \A a : Head(<<a>>) = a /\ Tail(<<a>>) = <<>>
    /\ \A a, b : Head(<<a, b>>) = a /\ Tail(<<a, b>>) = <<b>>
    /\ \A a, b, c : Head(<<a, b, c>>) = a /\ Tail(<<a, b, c>>) = <<b, c>>
OBVIOUS

\* A step that goes on with what is left of the function.
LEMMA AdvanceMoves ==
    ASSUME LifeTypes, NEW c \in Life!Contexts, Life!Advance(c)
    PROVE  MovesTo(c, Tail(run[c])) /\ UNCHANGED <<driver, phase, edges>>
BY GoOnMoves DEF Life!Advance, LifeTypes

\* The kernel stops, nothing else changes.
Stops ==
    /\ phase' = "oops"
    /\ UNCHANGED <<driver, run, held, failed, misfreed, armed, stopped, raced, depth, edges, items,
                   led, button, sonar>>
LEMMA OopsStops == ASSUME NEW c, Life!Oops(c) PROVE Stops
BY DEF Life!Oops, Stops, Life!resVars, Life!cbVars, Life!devVars

\* Arming: of the timer and the tasklets.
Arms(c, cb) ==
    /\ Moves(c) /\ run'[c] = <<>>
    /\ cb \in held /\ Rests(driver, cb) # {}
    /\ armed' = armed \cup {cb} /\ raced' = raced \cup ({cb} \cap stopped)
    /\ UNCHANGED <<driver, phase, held, failed, misfreed, stopped, depth, edges, items,
                   led, button, sonar>>
LEMMA ArmSteps ==
    ASSUME LifeTypes, NEW c \in Life!Contexts, NEW cb, run[c] = <<Life!Arm(cb)>>,
           Rests(driver, cb) # {}, Life!Step(c)
    PROVE  Stops \/ Arms(c, cb)
<1>1. /\ Head(run[c]).op = "arm" /\ Head(run[c]).arg = cb /\ Head(run[c]).needs = {cb}
      /\ Tail(run[c]) = <<>>
  BY HeadTail, CallFields
<1>2. Life!Oops(c) \/ Life!ArmCallback(c)
  BY <1>1, StepOf
<1>3. ASSUME Life!ArmCallback(c) PROVE Arms(c, cb)
  <2>1. MovesTo(c, <<>>) /\ UNCHANGED <<driver, phase, edges>>
    BY <1>1, <1>3, AdvanceMoves DEF Life!ArmCallback
  <2> QED BY <1>1, <1>3, <2>1
          DEF Life!ArmCallback, Arms, Moves, MovesTo, Life!Arg, Life!Needs, Life!resVars, Life!devVars
<1> QED BY <1>2, <1>3, OopsStops

\* What the callbacks of no device do: nothing but to go on.
Idles(c) ==
    /\ Moves(c)
    /\ UNCHANGED <<driver, phase, held, failed, misfreed, armed, stopped, raced, depth, edges,
                   items, led, button, sonar>>
Lights(c, v) ==
    /\ Moves(c) /\ led' = v
    /\ UNCHANGED <<driver, phase, held, failed, misfreed, armed, stopped, raced, depth, edges,
                   items, button, sonar>>

LEMMA LedSteps ==
    ASSUME LifeTypes, NEW c \in Life!Contexts, NEW v, run[c] # <<>>, Head(run[c]) = Life!Led(v),
           Life!Step(c)
    PROVE  /\ MovesTo(c, Tail(run[c])) /\ led' = v
           /\ UNCHANGED <<driver, phase, held, failed, misfreed, armed, stopped, raced, depth,
                          edges, items, button, sonar>>
<1>1. Head(run[c]).op = "led" /\ Head(run[c]).arg = v
  BY CallFields
<1>2. Life!Pins(c)
  BY <1>1, StepOf
<1>3. Life!Advance(c)
  BY <1>2 DEF Life!Pins
<1>4. MovesTo(c, Tail(run[c])) /\ UNCHANGED <<driver, phase, edges>>
  BY <1>3, AdvanceMoves
<1> QED BY <1>1, <1>2, <1>4 DEF Life!Pins, Life!Now, Life!Arg, Life!resVars, Life!cbVars

LEMMA ReportSteps ==
    ASSUME LifeTypes, NEW c \in Life!Contexts, run[c] # <<>>, Head(run[c]).op \in {"print", "until_stop"},
           Life!Step(c)
    PROVE  /\ MovesTo(c, Tail(run[c]))
           /\ Head(run[c]).op = "until_stop" => "thread" \in stopped
           /\ UNCHANGED <<driver, phase, held, failed, misfreed, armed, stopped, raced, depth,
                          edges, items, led, button, sonar>>
<1>1. \/ Life!Report(c)
      \/ Life!ThreadStops(c)
  BY StepOf
<1>2. Life!Advance(c)
  BY <1>1 DEF Life!Report, Life!ThreadStops
<1>3. MovesTo(c, Tail(run[c])) /\ UNCHANGED <<driver, phase, edges>>
  BY <1>2, AdvanceMoves
<1> QED BY <1>1, <1>3 DEF Life!Report, Life!ThreadStops, Life!Now, Life!resVars, Life!cbVars, Life!devVars

LEMMA TypesAt ==
    ASSUME LifeTypes, NEW c \in Life!Contexts \ {"module"}, run[c] # <<>>
    PROVE  run[c] \in Rests(driver, c) /\ driver \in DOMAIN Life!Programs
BY DEF LifeTypes

\* lab7/ch6: the handler and the timer's function.
LEMMA Ch6IsrSteps ==
    ASSUME LifeTypes, driver = "ch6", Life!Step("isr")
    PROVE  Stops \/ Arms("isr", "timer") \/ \E v \in {"on", "off"} : Lights("isr", v)
<1>1. "isr" \in Life!Contexts \ {"module"} /\ run["isr"] # <<>>
  BY ContextNames, StepOf
<1>2. run["isr"] \in Rests("ch6", "isr")
  BY <1>1, TypesAt
<1>3. CASE run["isr"] = <<Life!Arm("timer")>>
  <2>1. Rests(driver, "timer") # {}
    BY RestsTable
  <2> QED BY <1>1, <1>3, <2>1, ArmSteps
<1>4. ASSUME NEW v \in {"on", "off"}, Head(run["isr"]) = Life!Led(v),
             Tail(run["isr"]) \in Rests("ch6", "isr")
      PROVE  Lights("isr", v)
  BY <1>1, <1>4, LedSteps DEF Lights, Moves, MovesTo
<1>5. CASE run["isr"] = <<Life!Led("off"), Life!Led("on"), Life!Arm("timer")>>
  <2>1. Head(run["isr"]) = Life!Led("off") /\ Tail(run["isr"]) \in Rests("ch6", "isr")
    BY <1>5, HeadTail, RestsTable
  <2> QED BY <1>4, <2>1
<1>6. CASE run["isr"] = <<Life!Led("on"), Life!Arm("timer")>>
  <2>1. Head(run["isr"]) = Life!Led("on") /\ Tail(run["isr"]) \in Rests("ch6", "isr")
    BY <1>6, HeadTail, RestsTable
  <2> QED BY <1>4, <2>1
<1> QED BY <1>2, <1>3, <1>5, <1>6, RestsTable

\* The handlers that report, and those of the tasklets.
LEMMA ReportIsrSteps ==
    ASSUME LifeTypes, driver \in {"switch_irq", "simple_sensor"}, Life!Step("isr")
    PROVE  Idles("isr") /\ run'["isr"] = <<>>
<1>1. "isr" \in Life!Contexts \ {"module"} /\ run["isr"] # <<>>
  BY ContextNames, StepOf
<1>2. run["isr"] \in Rests(driver, "isr")
  BY <1>1, TypesAt
<1> DEFINE says == <<Life!Call("print", "start", {"start"})>>
<1>3. run["isr"] = <<Life!Do("print")>> \/ run["isr"] = says
  <2>1. driver = "switch_irq" => run["isr"] \in {<<Life!Do("print")>>}
    BY <1>2, RestsTable
  <2>2. driver = "simple_sensor" => run["isr"] \in {says}
    BY <1>2, RestsTable
  <2> QED BY <2>1, <2>2
<1>4. Head(run["isr"]).op = "print" /\ Tail(run["isr"]) = <<>>
  <2>1. CASE run["isr"] = <<Life!Do("print")>>
    BY <2>1, HeadTail, CallFields
  <2>2. CASE run["isr"] = says
    BY <2>2, HeadTail, CallFields
  <2> QED BY <1>3, <2>1, <2>2
<1>5. MovesTo("isr", <<>>)
  BY <1>1, <1>4, ReportSteps
<1> QED BY <1>1, <1>4, <1>5, ReportSteps DEF Idles, Moves, MovesTo

LEMMA TaskletIsrSteps ==
    ASSUME LifeTypes, driver \in Tasklets, Life!Step("isr")
    PROVE  Stops \/ Arms("isr", "tasklet")
<1>1. "isr" \in Life!Contexts \ {"module"} /\ run["isr"] # <<>>
  BY ContextNames, StepOf
<1>2. run["isr"] = <<Life!Arm("tasklet")>> /\ Rests(driver, "tasklet") # {}
  BY <1>1, TypesAt, RestsTable
<1> QED BY <1>1, <1>2, ArmSteps

\* lab10: the handler that queues work looks at the queue's pointer first.
Queues(w) ==
    /\ driver = "simple_workqueue" /\ run["isr"] = QueueCalls
    /\ Moves("isr") /\ run'["isr"] = <<>>
    /\ w \in Works \ items /\ items' = items \cup {w} /\ armed' = armed \cup {w}
    /\ UNCHANGED <<driver, phase, held, failed, misfreed, stopped, raced, depth, edges, led,
                   button, sonar>>
LEMMA WorkqueueIsrSteps ==
    ASSUME LifeTypes, driver = "simple_workqueue", Life!Step("isr")
    PROVE  \/ Stops
           \/ Idles("isr") /\ (run'["isr"] = QueueCalls => "wq" \notin failed)
           \/ \E w \in Works : Queues(w)
<1>1. "isr" \in Life!Contexts \ {"module"} /\ run["isr"] # <<>>
  BY ContextNames, StepOf
<1>2. run["isr"] \in {<<Life!If("wq", QueueCalls)>>, QueueCalls}
  BY <1>1, TypesAt, RestsTable
<1>3. CASE run["isr"] = <<Life!If("wq", QueueCalls)>>
  <2>1. /\ Head(run["isr"]).op = "if" /\ Head(run["isr"]).arg = "wq"
        /\ Head(run["isr"]).alt = QueueCalls /\ Tail(run["isr"]) = <<>>
    BY <1>3, HeadTail, CallFields
  <2>2. Life!TestPointer("isr")
    BY <2>1, StepOf
  <2> DEFINE seq == (IF "wq" \in failed THEN <<>> ELSE QueueCalls) \o <<>>
  <2>3. Life!GoOn("isr", seq)
    BY <2>1, <2>2 DEF Life!TestPointer, Life!Arg
  <2>4. seq = IF "wq" \in failed THEN <<>> ELSE QueueCalls
    <3>1. QueueCalls \in Seq({Life!Call("queue", "wq", {"wq"})}) /\ <<>> \in Seq({0})
      BY DEF QueueCalls
    <3> QED BY <3>1, ConcatEmptySeq
  <2> HIDE DEF seq
  <2>5. MovesTo("isr", seq) /\ UNCHANGED <<driver, phase, edges>>
    BY <1>1, <2>3, GoOnMoves DEF LifeTypes
  <2>6. Moves("isr") /\ run'["isr"] = seq
    BY <1>1, <2>4, <2>5, RestsTable DEF Moves, MovesTo
  <2>7. QueueCalls # <<>>
    BY DEF QueueCalls
  <2> QED BY <2>2, <2>4, <2>5, <2>6, <2>7
          DEF Life!TestPointer, Idles, Life!resVars, Life!cbVars, Life!devVars
<1>4. CASE run["isr"] = QueueCalls
  <2>1. Head(run["isr"]).op = "queue" /\ Tail(run["isr"]) = <<>>
    BY <1>4, HeadTail, CallFields DEF QueueCalls
  <2>2. Life!Oops("isr") \/ Life!QueueWork("isr")
    BY <2>1, StepOf
  <2>3. ASSUME Life!QueueWork("isr")
        PROVE  (Idles("isr") /\ run'["isr"] = <<>>) \/ \E w \in Works : Queues(w)
    <3>1. MovesTo("isr", <<>>) /\ UNCHANGED <<driver, phase, edges>>
      BY <1>1, <2>1, <2>3, AdvanceMoves DEF Life!QueueWork
    <3>2. Moves("isr") /\ run'["isr"] = <<>>
      BY <1>1, <3>1 DEF Moves, MovesTo
    <3>3. UNCHANGED <<held, failed, misfreed, stopped, raced, depth, led, button, sonar>>
      BY <2>3 DEF Life!QueueWork, Life!resVars, Life!devVars
    <3>4. \/ \E w \in Works \ items : items' = items \cup {w} /\ armed' = armed \cup {w}
          \/ UNCHANGED <<items, armed>>
      BY <2>3 DEF Life!QueueWork
    <3>5. CASE UNCHANGED <<items, armed>>
      BY <3>1, <3>2, <3>3, <3>5 DEF Idles
    <3>6. ASSUME NEW w \in Works \ items, items' = items \cup {w}, armed' = armed \cup {w}
          PROVE  Queues(w)
      BY <1>4, <3>1, <3>2, <3>3, <3>6 DEF Queues
    <3> QED BY <3>4, <3>5, <3>6
  <2>4. QueueCalls # <<>>
    BY DEF QueueCalls
  <2> QED BY <2>2, <2>3, <2>4, OopsStops
<1> QED BY <1>2, <1>3, <1>4

\* lab9: the handler of the echo.
Listens ==
    /\ Moves("isr")
    /\ UNCHANGED <<driver, phase, held, failed, misfreed, armed, stopped, raced, depth, edges,
                   items, led, button>>
EchoCalls == <<Life!Do("echo")>>
LEMMA UltraIsrSteps ==
    ASSUME LifeTypes, driver = "simple_ultra", Life!Step("isr")
    PROVE  /\ Listens
           /\ \/ run'["isr"] = EchoCalls /\ sonar' = [sonar EXCEPT !.now = sonar.line]
              \/ /\ run["isr"] = EchoCalls /\ run'["isr"] = <<>>
                 /\ \/ Life!EchoStart /\ sonar' = [sonar EXCEPT !.start = sonar.now, !.flag = 2]
                    \/ Life!EchoStop /\ sonar' = [sonar EXCEPT !.stop = sonar.now, !.flag = 3]
                    \/ ~Life!EchoStart /\ ~Life!EchoStop /\ UNCHANGED sonar
<1>1. "isr" \in Life!Contexts \ {"module"} /\ run["isr"] # <<>>
  BY ContextNames, StepOf
<1>2. run["isr"] \in {<<Life!Do("time"), Life!Do("echo")>>, EchoCalls}
  BY <1>1, TypesAt, RestsTable DEF EchoCalls
<1>3. CASE run["isr"] = EchoCalls
  <2>1. Head(run["isr"]).op = "echo" /\ Tail(run["isr"]) = <<>>
    BY <1>3, HeadTail, CallFields DEF EchoCalls
  <2>2. Life!Sonar("isr") /\ Life!Advance("isr")
    BY <2>1, StepOf DEF Life!Sonar
  <2>3. MovesTo("isr", <<>>) /\ UNCHANGED <<driver, phase, edges>>
    BY <1>1, <2>1, <2>2, AdvanceMoves
  <2>4. Moves("isr") /\ run'["isr"] = <<>>
    BY <2>3 DEF Moves, MovesTo
  <2>5. Listens
    BY <2>2, <2>3, <2>4 DEF Life!Sonar, Listens, Life!resVars, Life!cbVars
  <2> QED BY <1>3, <2>1, <2>2, <2>4, <2>5 DEF Life!Sonar, Life!Now
<1>4. CASE run["isr"] = <<Life!Do("time"), Life!Do("echo")>>
  <2>1. Head(run["isr"]).op = "time" /\ Tail(run["isr"]) = EchoCalls
    BY <1>4, HeadTail, CallFields DEF EchoCalls
  <2>2. Life!Sonar("isr") /\ Life!Advance("isr")
    BY <2>1, StepOf DEF Life!Sonar
  <2>3. MovesTo("isr", EchoCalls) /\ UNCHANGED <<driver, phase, edges>>
    BY <1>1, <2>1, <2>2, AdvanceMoves
  <2>4. Moves("isr") /\ run'["isr"] = EchoCalls
    BY <2>3, RestsTable DEF Moves, MovesTo, EchoCalls
  <2>5. Listens
    BY <2>2, <2>3, <2>4 DEF Life!Sonar, Listens, Life!resVars, Life!cbVars
  <2> QED BY <2>1, <2>2, <2>4, <2>5 DEF Life!Sonar, Life!Now
<1> QED BY <1>2, <1>3, <1>4

\* The timers' functions.
Samples ==
    /\ Moves("timer")
    /\ button' = [button EXCEPT !.read = button.now]
    /\ UNCHANGED <<driver, phase, held, failed, misfreed, armed, stopped, raced, depth, edges,
                   items, led, sonar>>
LEMMA TimerSteps ==
    ASSUME LifeTypes, Life!Step("timer")
    PROVE  \/ Stops \/ Arms("timer", "timer")
           \/ driver = "ch5" /\ (Samples \/ Lights("timer", button.read))
           \/ driver = "ch6" /\ Lights("timer", "off")
<1>1. "timer" \in Life!Contexts \ {"module"} /\ run["timer"] # <<>>
  BY ContextNames, StepOf
<1>2. run["timer"] \in Rests(driver, "timer") /\ driver \in {"simple_timer", "ch5", "ch6"}
  BY <1>1, TypesAt, RestsDrivers
<1>3. CASE run["timer"] = <<Life!Arm("timer")>>
  BY <1>1, <1>2, <1>3, ArmSteps
<1>4. CASE driver = "ch6"
  <2>1. run["timer"] = <<Life!Led("off")>>
    BY <1>2, <1>4, RestsTable
  <2>2. Head(run["timer"]) = Life!Led("off") /\ Tail(run["timer"]) = <<>>
    BY <2>1, HeadTail
  <2> QED BY <1>1, <1>4, <2>2, LedSteps DEF Lights, Moves, MovesTo
<1>5. CASE driver = "ch5" /\ run["timer"] # <<Life!Arm("timer")>>
  <2> DEFINE shows == <<Life!Call("show", "LED", {"LED"}), Life!Arm("timer")>>
             samples == <<Life!Do("sample"), Life!Call("show", "LED", {"LED"}), Life!Arm("timer")>>
  <2>1. /\ Rests("ch5", "timer") = {samples, shows, <<Life!Arm("timer")>>}
    BY RestsTable
  <2>2. CASE run["timer"] = samples
    <3>1. Head(run["timer"]).op = "sample" /\ Tail(run["timer"]) = shows
      BY <2>2, HeadTail, CallFields
    <3> HIDE DEF shows, samples
    <3>2. Life!Pins("timer") /\ Life!Advance("timer")
      BY <3>1, StepOf DEF Life!Pins
    <3>3. MovesTo("timer", shows) /\ UNCHANGED <<driver, phase, edges>>
      BY <1>1, <3>1, <3>2, AdvanceMoves
    <3>4. Moves("timer")
      BY <1>5, <2>1, <3>3 DEF Moves, MovesTo
    <3>5. Samples
      BY <3>1, <3>2, <3>3, <3>4
         DEF Samples, Life!Pins, Life!Now, Life!resVars, Life!cbVars
    <3> QED BY <1>5, <3>5
  <2>3. CASE run["timer"] = shows
    <3>1. Head(run["timer"]).op = "show" /\ Tail(run["timer"]) = <<Life!Arm("timer")>>
      BY <2>3, HeadTail, CallFields
    <3> HIDE DEF shows, samples
    <3>2. Life!Pins("timer") /\ Life!Advance("timer")
      BY <3>1, StepOf DEF Life!Pins
    <3>3. MovesTo("timer", <<Life!Arm("timer")>>) /\ UNCHANGED <<driver, phase, edges>>
      BY <1>1, <3>1, <3>2, AdvanceMoves
    <3>4. Moves("timer")
      BY <1>5, <2>1, <3>3 DEF Moves, MovesTo
    <3>5. Lights("timer", button.read)
      BY <3>1, <3>2, <3>3, <3>4
         DEF Lights, Life!Pins, Life!Now, Life!resVars, Life!cbVars
    <3> QED BY <1>5, <3>5
  <2> QED BY <1>2, <1>5, <2>1, <2>2, <2>3
<1>6. CASE driver = "simple_timer"
  BY <1>2, <1>3, <1>6, RestsTable
<1> QED BY <1>2, <1>3, <1>4, <1>5, <1>6

LEMMA TaskletSteps ==
    ASSUME LifeTypes, Life!Step("tasklet")
    PROVE  Idles("tasklet")
<1>1. "tasklet" \in Life!Contexts \ {"module"} /\ run["tasklet"] # <<>>
  BY ContextNames, StepOf
<1>2. run["tasklet"] \in Rests(driver, "tasklet") /\ driver \in Tasklets
  BY <1>1, TypesAt, RestsDrivers
<1>3. run["tasklet"] = <<Life!Do("print")>>
  <2>1. run["tasklet"] \in {<<Life!Do("print")>>}
    BY <1>2, RestsTable
  <2> QED BY <2>1
<1>4. Head(run["tasklet"]).op = "print" /\ Tail(run["tasklet"]) = <<>>
  BY <1>3, HeadTail, CallFields
<1>5. MovesTo("tasklet", <<>>)
  BY <1>1, <1>4, ReportSteps
<1> QED BY <1>1, <1>4, <1>5, ReportSteps DEF Idles, Moves, MovesTo

LEMMA ThreadSteps ==
    ASSUME LifeTypes, Life!Step("thread")
    PROVE  Idles("thread")
<1>1. "thread" \in Life!Contexts \ {"module"} /\ run["thread"] # <<>>
  BY ContextNames, StepOf
<1>2. run["thread"] \in Rests(driver, "thread") /\ driver = "simple_kthread"
  BY <1>1, TypesAt, RestsDrivers
<1>3. run["thread"] = <<Life!Do("until_stop")>>
  <2>1. run["thread"] \in {<<Life!Do("until_stop")>>}
    BY <1>2, RestsTable
  <2> QED BY <2>1
<1>4. Head(run["thread"]).op = "until_stop" /\ Tail(run["thread"]) = <<>>
  BY <1>3, HeadTail, CallFields
<1>5. MovesTo("thread", <<>>)
  BY <1>1, <1>4, ReportSteps
<1> QED BY <1>1, <1>4, <1>5, ReportSteps DEF Idles, Moves, MovesTo

\* A work item is freed by its own function, at its end.
Works1(w) ==
    /\ Moves(w)
    /\ items' = IF run'[w] = <<>> THEN items \ {w} ELSE items
    /\ UNCHANGED <<driver, phase, held, failed, misfreed, armed, stopped, raced, depth, edges,
                   led, button, sonar>>
LEMMA WorkSteps ==
    ASSUME LifeTypes, NEW w \in Works, Life!Step(w)
    PROVE  driver = "simple_workqueue" /\ Works1(w)
<1>1. w \in Life!Contexts \ {"module"} /\ run[w] # <<>>
  BY ContextNames, StepOf
<1>2. run[w] \in Rests(driver, w) /\ driver = "simple_workqueue"
  BY <1>1, TypesAt, RestsDrivers
<1> DEFINE rest == <<Life!Do("kfree")>>
<1>3. run[w] \in {<<Life!Do("fill"), Life!Do("kfree")>>, rest}
  BY <1>2, RestsTable
<1>4. CASE run[w] = rest
  <2>1. Head(run[w]).op = "kfree" /\ Tail(run[w]) = <<>>
    BY <1>4, HeadTail, CallFields
  <2>2. Life!WorkStep(w) /\ Life!Advance(w)
    BY <2>1, StepOf DEF Life!WorkStep
  <2>3. MovesTo(w, <<>>) /\ UNCHANGED <<driver, phase, edges>>
    BY <1>1, <2>1, <2>2, AdvanceMoves
  <2> QED BY <1>2, <2>1, <2>2, <2>3
          DEF Works1, Moves, MovesTo, Life!WorkStep, Life!Now, Life!resVars, Life!cbVars, Life!devVars
<1>5. CASE run[w] = <<Life!Do("fill"), Life!Do("kfree")>>
  <2>1. Head(run[w]).op = "fill" /\ Tail(run[w]) = rest /\ rest # <<>>
    BY <1>5, HeadTail, CallFields
  <2>2. Life!WorkStep(w) /\ Life!Advance(w)
    BY <2>1, StepOf DEF Life!WorkStep
  <2>3. rest \in Rests(driver, w)
    BY <1>2, RestsTable
  <2> HIDE DEF rest
  <2>4. MovesTo(w, rest) /\ UNCHANGED <<driver, phase, edges>>
    BY <1>1, <2>1, <2>2, AdvanceMoves
  <2> QED BY <1>2, <2>1, <2>2, <2>3, <2>4
          DEF Works1, Moves, MovesTo, Life!WorkStep, Life!Now, Life!resVars, Life!cbVars, Life!devVars
<1> QED BY <1>3, <1>4, <1>5

(***************************************************************************)
(* What init and exit do, call by call                                     *)
(***************************************************************************)
LEMMA InitHeads ==
    ASSUME NEW d \in DOMAIN Life!Programs, NEW h \in InitCalls(d)
    PROVE  /\ h.op \in {"request", "try", "free", "arm", "wait", "disable", "led", "fail",
                        "flag_0", "trigger", "flag_1"}
           /\ h.op \in {"request", "try"} => h.arg \in Needed(d) /\ h.arg \in Resources
           /\ h.op = "free" => \/ h.arg = "irq" /\ "irq" \in Needed(d)
                               \/ d = "simple_sysfs" /\ h.arg \in {"region", "cdev", "class", "device"}
           /\ h.op = "arm" => /\ h = Life!Arm(h.arg) /\ h.arg \in Needed(d)
                              /\ \/ h.arg = "timer" /\ d \in {"simple_timer", "ch5"}
                                 \/ h.arg = "thread" /\ d = "simple_kthread"
           /\ h.op = "wait" => h.arg = "isr" /\ "irq" \in Needed(d)
           /\ h.op = "disable" => h.arg = "nothing" /\ d = "simple_sensor"
           /\ h.op = "led" => h = Life!Led("on") /\ d = "simple_led"
           /\ h.op = "fail" => h.arg = "nothing" /\ d = "simple_sysfs"
           /\ h.op \in {"flag_0", "trigger", "flag_1"} => h.arg = "nothing" /\ d = "simple_ultra"
           /\ h.op \notin {"arm", "led"} => h.needs = {}
<1>1. CASE d = "simple_timer"
  BY <1>1, CallFields DEF InitCalls, Needed, Resources, Tasklets
<1>2. CASE d = "ch5"
  BY <1>2, CallFields DEF InitCalls, Needed, Resources, Tasklets
<1>3. CASE d = "ch6"
  BY <1>3, CallFields DEF InitCalls, Needed, Resources, TryIrq, IrqBack
<1>4. CASE d = "simple_led"
  BY <1>4, CallFields DEF InitCalls, Needed, Resources, Tasklets
<1>5. CASE d = "switch_irq"
  BY <1>5, CallFields DEF InitCalls, Needed, Resources, TryIrq, IrqBack
<1>6. CASE d = "simple_sensor"
  BY <1>6, CallFields DEF InitCalls, Needed, Resources, TryIrq, IrqBack
<1>7. CASE d \in Tasklets
  BY <1>7, CallFields DEF InitCalls, Needed, Resources, TryIrq, IrqBack, Tasklets
<1>8. CASE d = "simple_workqueue"
  BY <1>8, CallFields DEF InitCalls, Needed, Resources, TryIrq, IrqBack, Tasklets
<1>9. CASE d = "simple_kthread"
  BY <1>9, CallFields DEF InitCalls, Needed, Resources, Tasklets
<1>10. CASE d = "simple_sysfs"
  BY <1>10, CallFields DEF InitCalls, Needed, Resources, Tasklets, UndoCalls
<1>11. CASE d = "simple_ultra"
  BY <1>11, CallFields DEF InitCalls, Needed, Resources, TryIrq, IrqBack, Tasklets
<1> QED BY <1>1, <1>2, <1>3, <1>4, <1>5, <1>6, <1>7, <1>8, <1>9, <1>10, <1>11, DriverNames
        DEF Tasklets

LEMMA ExitHeads ==
    ASSUME NEW d \in DOMAIN Life!Programs, NEW h \in ExitCalls(d)
    PROVE  /\ h.op \in {"free", "wait", "disarm", "led", "disable", "if", "stop"}
           /\ h.op = "free" => /\ h.arg \in Needed(d) /\ h.arg \in Resources
                               /\ h.arg \notin Stay \cup {"file"}
                               /\ "file" \in Needed(d) => d = "simple_sysfs"
           /\ h.op = "wait" => \/ h.arg = "isr" /\ "irq" \in Needed(d)
                               \/ h.arg = "tasklet" /\ d \in Tasklets
                               \/ h.arg = "works" /\ d = "simple_workqueue"
                               \/ h.arg = "thread" /\ d = "simple_kthread"
           /\ h.op = "disarm" => h.arg = "timer" /\ d \in {"simple_timer", "ch5", "ch6"}
           /\ h.op = "led" => h = Life!Led("off") /\ d \in {"ch5", "ch6", "simple_led"}
           /\ h.op = "disable" => h.arg = "nothing" /\ d \in {"ch6", "switch_irq"}
           /\ h.op = "if" => h.arg = "thread" /\ h.alt = StopCalls /\ d = "simple_kthread"
           /\ h.op = "stop" => h.arg = "nothing" /\ d = "simple_kthread"
           /\ h.op # "led" => h.needs = {}
<1>1. CASE d = "simple_timer"
  BY <1>1, CallFields DEF ExitCalls, Needed, Resources, Stay, Tasklets
<1>2. CASE d = "ch5"
  BY <1>2, CallFields DEF ExitCalls, Needed, Resources, Stay, Tasklets
<1>3. CASE d = "ch6"
  BY <1>3, CallFields DEF ExitCalls, Needed, Resources, IrqBack, Stay
<1>4. CASE d = "simple_led"
  BY <1>4, CallFields DEF ExitCalls, Needed, Resources, Stay, Tasklets
<1>5. CASE d = "switch_irq"
  BY <1>5, CallFields DEF ExitCalls, Needed, Resources, IrqBack, Stay
<1>6. CASE d = "simple_sensor"
  BY <1>6, CallFields DEF ExitCalls, Needed, Resources, IrqBack, Stay
<1>7. CASE d \in Tasklets
  BY <1>7, CallFields DEF ExitCalls, Needed, Resources, IrqBack, Tasklets, Stay
<1>8. CASE d = "simple_workqueue"
  BY <1>8, CallFields DEF ExitCalls, Needed, Resources, IrqBack, Tasklets, Stay
<1>9. CASE d = "simple_kthread"
  BY <1>9, CallFields DEF ExitCalls, Needed, Resources, Tasklets, Stay, StopCalls
<1>10. CASE d = "simple_sysfs"
  BY <1>10, CallFields DEF ExitCalls, Needed, Resources, Tasklets, UndoCalls, Stay
<1>11. CASE d = "simple_ultra"
  BY <1>11, CallFields DEF ExitCalls, Needed, Resources, IrqBack, Tasklets, Stay
<1> QED BY <1>1, <1>2, <1>3, <1>4, <1>5, <1>6, <1>7, <1>8, <1>9, <1>10, <1>11, DriverNames
        DEF Tasklets

\* What the sets of what is asked for and given back lose with a call x.
LEMMA AsksAct ==
    ASSUME NEW r \in Resources, NEW B, <<"request", r>> \notin B
    PROVE  LET A == {<<"request", r>>} \cup B
           IN  /\ Asks(A) = Asks(B) \cup {r} /\ r \notin Asks(B)
               /\ Frees(A) = Frees(B) /\ Freed(A) = Freed(B)
BY DEF Asks, Frees, Freed

LEMMA FreesAct ==
    ASSUME NEW r \in Resources, NEW B, <<"free", r>> \notin B, r # "file"
    PROVE  LET A == {<<"free", r>>} \cup B
           IN  /\ Asks(A) = Asks(B) /\ Frees(A) = Frees(B) \cup {r} /\ r \notin Frees(B)
               /\ Freed(A) = Freed(B) \cup Life!Within(r) /\ r \notin Freed(B)
               /\ r # "device" => Life!Within(r) = {r}
               /\ <<"free", "file">> \notin B => Freed(B) = Freed(A) \ Life!Within(r)
<1>1. CASE r = "device"
  BY <1>1 DEF Asks, Frees, Freed, Life!Within, Resources
<1>2. CASE r # "device"
  BY <1>2 DEF Asks, Frees, Freed, Life!Within, Resources
<1> QED BY <1>1, <1>2

LEMMA OtherAct ==
    ASSUME NEW op, NEW a, op \notin {"request", "free"}, NEW B
    PROVE  LET A == {<<op, a>>} \cup B
           IN  Asks(A) = Asks(B) /\ Frees(A) = Frees(B) /\ Freed(A) = Freed(B)
BY DEF Asks, Frees, Freed

\* The rules of the tables, for what is still to be done.
InitKeeps(d, A) ==
    /\ d \in {"simple_timer", "ch5"} /\ <<"request", "timer">> \in A => <<"arm", "timer">> \in A
    /\ d = "ch5" /\ <<"request", "LED">> \in A => <<"request", "timer">> \in A
    /\ d = "ch6" /\ <<"request", "LED">> \in A => <<"request", "irq">> \in A
    /\ d = "ch6" /\ <<"request", "irq">> \in A => <<"request", "timer">> \in A
    /\ d = "simple_led" /\ <<"request", "LED">> \in A => <<"led", "on">> \in A
    /\ d \in Tasklets /\ <<"request", "tasklet">> \in A => <<"request", "irq">> \in A
    /\ d = "simple_workqueue" /\ <<"request", "wq">> \in A => <<"request", "irq">> \in A
    /\ d = "simple_kthread" /\ <<"request", "thread">> \in A => <<"arm", "thread">> \in A
    /\ d = "simple_sensor" =>
        /\ <<"request", "irq">> \in A => <<"disable", "nothing">> \in A
        /\ <<"disable", "nothing">> \in A => <<"wait", "isr">> \in A
    /\ d = "simple_ultra" =>
        /\ <<"request", "irq">> \in A => <<"flag_0", "nothing">> \in A
        /\ <<"flag_0", "nothing">> \in A => <<"trigger", "nothing">> \in A
        /\ <<"trigger", "nothing">> \in A => <<"flag_1", "nothing">> \in A
ExitKeeps(d, A) ==
    /\ <<"free", "irq">> \in A => <<"wait", "isr">> \in A
    /\ d = "ch6" /\ <<"wait", "isr">> \in A => <<"led", "off">> \in A
    /\ d \in {"ch5", "ch6", "simple_led"} /\ <<"led", "off">> \in A => <<"free", "LED">> \in A
    /\ d = "simple_workqueue" /\ <<"wait", "isr">> \in A => <<"wait", "works">> \in A
    /\ d = "simple_workqueue" /\ <<"wait", "works">> \in A => <<"free", "wq">> \in A
    /\ d = "simple_kthread" /\ <<"stop", "nothing">> \in A => <<"wait", "thread">> \in A

LEMMA RuleFields == \A a, x, b, y : Rule(a, x, b, y)[1] = <<a, x>> /\ Rule(a, x, b, y)[2] = <<b, y>>
BY DEF Rule

LEMMA InitOrderKeeps ==
    ASSUME NEW d, NEW s, InitOrder(d, s)
    PROVE  InitKeeps(d, Acts(s))
<1>1. s \in Seq(InitCalls(d)) /\ Ordered(s, InitRules(d))
  BY DEF InitOrder
<1>2. \A rule \in InitRules(d) : rule[1] \in Acts(s) => rule[2] \in Acts(s)
  BY <1>1, RuleHolds
<1>3. \A a, x, b, y : Rule(a, x, b, y) \in InitRules(d) /\ <<a, x>> \in Acts(s) => <<b, y>> \in Acts(s)
  <2>1. SUFFICES ASSUME NEW a, NEW x, NEW b, NEW y, Rule(a, x, b, y) \in InitRules(d),
                        <<a, x>> \in Acts(s)
                 PROVE  <<b, y>> \in Acts(s)
    OBVIOUS
  <2> DEFINE rule == Rule(a, x, b, y)
  <2>2. rule[1] = <<a, x>> /\ rule[2] = <<b, y>>
    BY RuleFields
  <2> HIDE DEF rule
  <2>3. rule \in InitRules(d)
    BY <2>1 DEF rule
  <2> QED BY <1>2, <2>1, <2>2, <2>3
<1> DEFINE A == Acts(s)
<1> HIDE DEF A
<1>4. CASE d = "simple_timer"
  <2>1. Rule("request", "timer", "arm", "timer") \in InitRules(d)
    BY <1>4 DEF InitRules, Tasklets
  <2> QED BY <1>3, <1>4, <2>1 DEF InitKeeps, A, Tasklets
<1>5. CASE d = "ch5"
  <2>1. /\ Rule("request", "LED", "request", "timer") \in InitRules(d)
        /\ Rule("request", "timer", "arm", "timer") \in InitRules(d)
    BY <1>5 DEF InitRules, Tasklets
  <2> QED BY <1>3, <1>5, <2>1 DEF InitKeeps, A, Tasklets
<1>6. CASE d = "ch6"
  <2>1. /\ Rule("request", "LED", "request", "irq") \in InitRules(d)
        /\ Rule("request", "irq", "request", "timer") \in InitRules(d)
    BY <1>6 DEF InitRules, Tasklets
  <2> QED BY <1>3, <1>6, <2>1 DEF InitKeeps, A, Tasklets
<1>7. CASE d = "simple_led"
  <2>1. Rule("request", "LED", "led", "on") \in InitRules(d)
    BY <1>7 DEF InitRules, Tasklets
  <2> QED BY <1>3, <1>7, <2>1 DEF InitKeeps, A, Tasklets
<1>8. CASE d \in Tasklets
  <2>1. Rule("request", "tasklet", "request", "irq") \in InitRules(d)
    BY <1>8 DEF InitRules, Tasklets
  <2> QED BY <1>3, <1>8, <2>1 DEF InitKeeps, A, Tasklets
<1>9. CASE d = "simple_workqueue"
  <2>1. Rule("request", "wq", "request", "irq") \in InitRules(d)
    BY <1>9 DEF InitRules, Tasklets
  <2> QED BY <1>3, <1>9, <2>1 DEF InitKeeps, A, Tasklets
<1>10. CASE d = "simple_kthread"
  <2>1. Rule("request", "thread", "arm", "thread") \in InitRules(d)
    BY <1>10 DEF InitRules, Tasklets
  <2> QED BY <1>3, <1>10, <2>1 DEF InitKeeps, A, Tasklets
<1>11. CASE d = "simple_sensor"
  <2>1. /\ Rule("request", "irq", "disable", "nothing") \in InitRules(d)
        /\ Rule("disable", "nothing", "wait", "isr") \in InitRules(d)
    BY <1>11 DEF InitRules, Tasklets
  <2> QED BY <1>3, <1>11, <2>1 DEF InitKeeps, A, Tasklets
<1>12. CASE d = "simple_ultra"
  <2>1. /\ Rule("request", "irq", "flag_0", "nothing") \in InitRules(d)
        /\ Rule("flag_0", "nothing", "trigger", "nothing") \in InitRules(d)
        /\ Rule("trigger", "nothing", "flag_1", "nothing") \in InitRules(d)
    BY <1>12 DEF InitRules, Tasklets
  <2> QED BY <1>3, <1>12, <2>1 DEF InitKeeps, A, Tasklets
<1>13. CASE d \notin {"simple_timer", "ch5", "ch6", "simple_led", "simple_workqueue",
                      "simple_kthread", "simple_sensor", "simple_ultra"} \cup Tasklets
  BY <1>13 DEF InitKeeps
<1> QED BY <1>4, <1>5, <1>6, <1>7, <1>8, <1>9, <1>10, <1>11, <1>12, <1>13

LEMMA ExitOrderKeeps ==
    ASSUME NEW d, NEW s, ExitOrder(d, s), d \in DOMAIN Life!Programs
    PROVE  ExitKeeps(d, Acts(s))
<1>1. s \in Seq(ExitCalls(d)) /\ Ordered(s, ExitRules(d))
  BY DEF ExitOrder
<1>2. \A rule \in ExitRules(d) : rule[1] \in Acts(s) => rule[2] \in Acts(s)
  BY <1>1, RuleHolds
<1>3. \A a, x, b, y : Rule(a, x, b, y) \in ExitRules(d) /\ <<a, x>> \in Acts(s) => <<b, y>> \in Acts(s)
  <2>1. SUFFICES ASSUME NEW a, NEW x, NEW b, NEW y, Rule(a, x, b, y) \in ExitRules(d),
                        <<a, x>> \in Acts(s)
                 PROVE  <<b, y>> \in Acts(s)
    OBVIOUS
  <2> DEFINE rule == Rule(a, x, b, y)
  <2>2. rule[1] = <<a, x>> /\ rule[2] = <<b, y>>
    BY RuleFields
  <2> HIDE DEF rule
  <2>3. rule \in ExitRules(d)
    BY <2>1 DEF rule
  <2> QED BY <1>2, <2>1, <2>2, <2>3
<1>4. ASSUME NEW h \in ExitCalls(d), Act(h) = <<"free", "irq">> PROVE "irq" \in Needed(d)
  <2>1. h.op = "free" /\ h.arg = "irq"
    BY <1>4, ExitHeads DEF Act
  <2> QED BY <2>1, ExitHeads
<1>5. <<"free", "irq">> \in Acts(s) => "irq" \in Needed(d)
  <2>1. SUFFICES ASSUME <<"free", "irq">> \in Acts(s) PROVE "irq" \in Needed(d)
    OBVIOUS
  <2>2. PICK i \in 1..Len(s) : Act(s[i]) = <<"free", "irq">>
    BY <2>1 DEF Acts
  <2>3. s[i] \in ExitCalls(d)
    BY <1>1
  <2> QED BY <1>4, <2>2, <2>3
<1>6. CASE d = "ch6"
  <2>1. /\ Rule("free", "irq", "wait", "isr") \in ExitRules(d)
        /\ Rule("wait", "isr", "led", "off") \in ExitRules(d)
        /\ Rule("led", "off", "free", "LED") \in ExitRules(d)
    BY <1>6 DEF ExitRules
  <2> QED BY <1>3, <1>6, <2>1 DEF ExitKeeps
<1>7. CASE d = "simple_workqueue"
  <2>1. /\ Rule("free", "irq", "wait", "isr") \in ExitRules(d)
        /\ Rule("wait", "isr", "wait", "works") \in ExitRules(d)
        /\ Rule("wait", "works", "free", "wq") \in ExitRules(d)
    BY <1>7 DEF ExitRules
  <2> QED BY <1>3, <1>7, <2>1 DEF ExitKeeps
<1>8. CASE d \in {"ch5", "simple_led"}
  <2>1. Rule("led", "off", "free", "LED") \in ExitRules(d)
    BY <1>8 DEF ExitRules
  <2>2. "irq" \notin Needed(d)
    BY <1>8 DEF Needed, Tasklets
  <2> QED BY <1>3, <1>5, <1>8, <2>1, <2>2 DEF ExitKeeps
<1>9. CASE d = "simple_kthread"
  <2>1. Rule("stop", "nothing", "wait", "thread") \in ExitRules(d)
    BY <1>9 DEF ExitRules
  <2>2. "irq" \notin Needed(d)
    BY <1>9 DEF Needed, Tasklets
  <2> QED BY <1>3, <1>5, <1>9, <2>1, <2>2 DEF ExitKeeps
<1>10. CASE d \notin {"ch5", "ch6", "simple_led", "simple_workqueue", "simple_kthread"}
  <2>1. Rule("free", "irq", "wait", "isr") \in ExitRules(d)
    BY <1>10 DEF ExitRules
  <2> QED BY <1>3, <1>10, <2>1 DEF ExitKeeps
<1> QED BY <1>6, <1>7, <1>8, <1>9, <1>10

\* The call x is done: what is left to do.
Goes(x) ==
    /\ MovesTo("module", run'["module"])
    /\ UNCHANGED <<driver, phase, edges>>
    /\ ToDo = {x} \cup ToDo'
    /\ x[1] # "wait" => x \notin ToDo'

LEMMA InitGoes ==
    ASSUME LifeTypes, phase = "init", run["module"] # <<>>, Life!Advance("module")
    PROVE  Goes(Act(Head(run["module"]))) /\ InitOrder(driver, run'["module"])
<1> DEFINE s == run["module"]
<1>1. InitOrder(driver, s)
  BY DEF LifeTypes
<1>2. s \in Seq(InitCalls(driver)) /\ Ordered(s, InitRules(driver))
  BY <1>1 DEF InitOrder
<1>3. MovesTo("module", Tail(s)) /\ UNCHANGED <<driver, phase, edges>>
  BY AdvanceMoves, ContextNames
<1>4. run'["module"] = Tail(s)
  BY <1>3 DEF MovesTo
<1>5. InitOrder(driver, Tail(s))
  BY <1>1, InitOrderTail
<1>6. Acts(s) = {Act(Head(s))} \cup Acts(Tail(s))
  BY <1>2, LaterIsActs
<1>7. Act(Head(s))[1] # "wait" => Act(Head(s)) \notin Acts(Tail(s))
  <2>1. Head(s).op # "wait" => Act(Head(s)) \notin Acts(Tail(s))
    BY <1>2, OrderedTail
  <2>2. Act(Head(s))[1] # "wait" => Head(s).op # "wait"
    BY DEF Act
  <2> QED BY <2>1, <2>2, Zenon
<1> QED BY <1>3, <1>4, <1>5, <1>6, <1>7 DEF Goes, ToDo

LEMMA ExitGoes ==
    ASSUME LifeTypes, phase = "exit", run["module"] # <<>>, Life!Advance("module")
    PROVE  Goes(Act(Head(run["module"]))) /\ ExitOrder(driver, run'["module"])
<1> DEFINE s == run["module"]
<1>1. ExitOrder(driver, s)
  BY DEF LifeTypes
<1>2. s \in Seq(ExitCalls(driver)) /\ Ordered(s, ExitRules(driver))
  BY <1>1 DEF ExitOrder
<1>3. MovesTo("module", Tail(s)) /\ UNCHANGED <<driver, phase, edges>>
  BY AdvanceMoves, ContextNames
<1>4. run'["module"] = Tail(s)
  BY <1>3 DEF MovesTo
<1>5. ExitOrder(driver, Tail(s))
  BY <1>1, ExitOrderTail
<1>6. Acts(s) = {Act(Head(s))} \cup Acts(Tail(s))
  BY <1>2, LaterIsActs
<1>7. Act(Head(s))[1] # "wait" => Act(Head(s)) \notin Acts(Tail(s))
  <2>1. Head(s).op # "wait" => Act(Head(s)) \notin Acts(Tail(s))
    BY <1>2, OrderedTail
  <2>2. Act(Head(s))[1] # "wait" => Head(s).op # "wait"
    BY DEF Act
  <2> QED BY <2>1, <2>2, Zenon
<1> QED BY <1>3, <1>4, <1>5, <1>6, <1>7 DEF Goes, ToDo

(***************************************************************************)
(* What a step of init or exit changes                                     *)
(***************************************************************************)
Gets(r) ==
    /\ Goes(<<"request", r>>) /\ r \in Needed(driver) /\ r \in Resources
    /\ held' = held \cup {r}
    /\ UNCHANGED <<failed, misfreed, armed, stopped, raced, depth, items, led, button, sonar>>

\* A failed call is survived, or else everything is given back.
Survives(r, B) ==
    /\ r \in {"irq", "wq", "thread"} /\ Fail \notin ToDo'
    /\ Asks(ToDo') = Asks(B) /\ Frees(ToDo') \subseteq {r} \cap {"irq"}
GivesUp(r, B) ==
    /\ driver = "simple_sysfs" /\ r \in {"class", "device", "file"} /\ Fail \in ToDo'
    /\ Freed(ToDo') \ {r} = Needed(driver) \ (Asks(B) \cup {r})
    /\ r \notin Frees(ToDo') /\ Asks(ToDo') = {}
Misses(r) ==
    /\ MovesTo("module", run'["module"]) /\ r \in Needed(driver) /\ r \in Resources
    /\ failed' = failed \cup {r}
    /\ \E B : /\ ToDo = {<<"request", r>>} \cup B /\ <<"request", r>> \notin B
              /\ Survives(r, B) \/ GivesUp(r, B)
    /\ UNCHANGED <<driver, phase, edges, held, misfreed, armed, stopped, raced, depth, items, led,
                   button, sonar>>
Gives(r) ==
    /\ Goes(<<"free", r>>) /\ r \in Resources /\ r # "file"
    /\ r \in Needed(driver) /\ r \notin Stay
    /\ held' = held \ Life!Within(r) /\ misfreed' = misfreed \cup ({r} \ held)
    /\ armed' = IF r = "irq" THEN armed \ {"isr"} ELSE armed
    /\ UNCHANGED <<failed, stopped, raced, depth, items, led, button, sonar>>
Hands(cb) ==
    /\ Goes(<<"arm", cb>>) /\ cb \in held /\ Rests(driver, cb) # {}
    /\ cb \in {"timer", "thread"}
    /\ armed' = armed \cup {cb} /\ raced' = raced \cup ({cb} \cap stopped)
    /\ UNCHANGED <<held, failed, misfreed, stopped, depth, items, led, button, sonar>>
AwaitedOf(cb) == IF cb = "works" THEN Works ELSE {cb}
Awaits(cb) ==
    /\ Goes(<<"wait", cb>>) /\ cb \in {"isr", "tasklet", "works", "thread"}
    /\ \A k \in AwaitedOf(cb) : k \notin armed /\ run[k] = <<>>
    /\ stopped' = IF phase = "exit" THEN stopped \cup (AwaitedOf(cb) \ Works) ELSE stopped
    /\ UNCHANGED <<held, failed, misfreed, armed, raced, depth, items, led, button, sonar>>
Disables ==
    /\ Goes(<<"disable", "nothing">>)
    /\ depth' = depth + 1 /\ armed' = armed \ {"isr"}
    /\ UNCHANGED <<held, failed, misfreed, stopped, raced, items, led, button, sonar>>
Shines(v) ==
    /\ Goes(<<"led", v>>) /\ v \in {"on", "off"} /\ led' = v
    /\ UNCHANGED <<held, failed, misfreed, armed, stopped, raced, depth, items, button, sonar>>
Abandons ==
    /\ driver = "simple_sysfs" /\ ToDo = {Fail} /\ MovesTo("module", <<>>)
    /\ phase' = "gone"
    /\ UNCHANGED <<driver, edges, held, failed, misfreed, armed, stopped, raced, depth, items, led,
                   button, sonar>>
Tunes(op) ==
    /\ Goes(<<op, "nothing">>) /\ driver = "simple_ultra"
    /\ \/ op = "flag_0" /\ sonar' = [sonar EXCEPT !.flag = 0]
       \/ op = "flag_1" /\ sonar' = [sonar EXCEPT !.flag = 1]
       \/ op = "trigger" /\ sonar' = [sonar EXCEPT !.line = "triggered"]
    /\ UNCHANGED <<held, failed, misfreed, armed, stopped, raced, depth, items, led, button>>
Disarms ==
    /\ Goes(<<"disarm", "timer">>) /\ driver \in {"simple_timer", "ch5", "ch6"}
    /\ armed' = armed \ {"timer"} /\ stopped' = stopped \cup {"timer"}
    /\ raced' = raced \cup (IF run["timer"] # <<>> THEN {"timer"} ELSE {})
    /\ UNCHANGED <<held, failed, misfreed, depth, items, led, button, sonar>>
\* exit of simple_kthread looks at the pointer first.
Looks ==
    /\ driver = "simple_kthread" /\ ToDo = {<<"if", "thread">>}
    /\ MovesTo("module", run'["module"])
    /\ ToDo' = IF "thread" \in failed THEN {}
               ELSE {<<"stop", "nothing">>, <<"wait", "thread">>}
    /\ UNCHANGED <<driver, phase, edges, held, failed, misfreed, armed, stopped, raced, depth,
                   items, led, button, sonar>>
TellsThread ==
    /\ Goes(<<"stop", "nothing">>) /\ driver = "simple_kthread"
    /\ stopped' = stopped \cup {"thread"}
    /\ UNCHANGED <<held, failed, misfreed, armed, raced, depth, items, led, button, sonar>>

InitEffect ==
    \/ Stops \/ Abandons \/ Disables
    \/ \E r \in Resources : Gets(r) \/ Misses(r) \/ Gives(r)
    \/ \E cb \in {"timer", "thread"} : Hands(cb)
    \/ Awaits("isr") \/ Shines("on")
    \/ \E op \in {"flag_0", "flag_1", "trigger"} : Tunes(op)
LEMMA InitSteps ==
    ASSUME LifeTypes, phase = "init", Life!Step("module")
    PROVE  /\ InitEffect
           /\ phase' = "init" => InitOrder(driver, run'["module"])
<1> DEFINE s == run["module"]
           h == Head(s)
<1>1. s # <<>> /\ "module" \in Life!Contexts
  BY StepOf, ContextNames
<1>2. InitOrder(driver, s) /\ driver \in DOMAIN Life!Programs
  BY DEF LifeTypes
<1>3. s \in Seq(InitCalls(driver)) /\ h \in InitCalls(driver)
  BY <1>1, <1>2, HeadAndTail DEF InitOrder
<1>4. ASSUME Life!Advance("module")
      PROVE  Goes(Act(h)) /\ InitOrder(driver, run'["module"])
  BY <1>1, <1>4, InitGoes
<1>5. Acts(s) = {Act(h)} \cup Acts(Tail(s)) /\ InitOrder(driver, Tail(s))
  BY <1>1, <1>2, <1>3, LaterIsActs, InitOrderTail
<1>6. CASE h.op \in {"request", "try"}
  <2>1. h.arg \in Needed(driver) /\ h.arg \in Resources /\ Act(h) = <<"request", h.arg>>
    BY <1>2, <1>3, <1>6, InitHeads DEF Act
  <2>2. Life!Acquire("module") \/ (h.op = "try" /\ Life!AcquireFails("module"))
    BY <1>6, StepOf
  <2>3. ASSUME Life!Acquire("module")
        PROVE  Gets(h.arg) /\ InitOrder(driver, run'["module"])
    <3>1. Goes(<<"request", h.arg>>) /\ InitOrder(driver, run'["module"])
      BY <1>4, <2>1, <2>3 DEF Life!Acquire
    <3> QED BY <2>1, <2>3, <3>1 DEF Gets, Life!Acquire, Life!Arg, Life!cbVars, Life!devVars
  <2>4. ASSUME h.op = "try", Life!AcquireFails("module")
        PROVE  Misses(h.arg) /\ InitOrder(driver, run'["module"])
    <3>1. Life!GoOn("module", h.alt)
      BY <2>4 DEF Life!AcquireFails
    <3>2. MovesTo("module", h.alt) /\ UNCHANGED <<driver, phase, edges>>
      BY <1>1, <3>1, GoOnMoves DEF LifeTypes
    <3>3. run'["module"] = h.alt
      BY <3>2 DEF MovesTo
    <3>4. AltFits(driver, h, Acts(Tail(s)))
      BY <1>1, <1>2, <2>4, InitOrderTail
    <3>5. /\ InitOrder(driver, h.alt)
          /\ Fail \in Acts(h.alt) => driver = "simple_sysfs" /\ h.arg \in {"class", "device", "file"}
          /\ Fail \notin Acts(h.alt) => h.arg \in {"irq", "wq", "thread"}
      BY <1>2, <1>3, <2>4, AltTable
    <3>6. <<"request", h.arg>> \notin Acts(Tail(s))
      <4>1. Ordered(s, InitRules(driver))
        BY <1>2 DEF InitOrder
      <4> QED BY <1>1, <1>3, <2>1, <2>4, <4>1, OrderedTail
    <3>7. ToDo' = Acts(h.alt)
      BY <3>3 DEF ToDo
    <3>8. Survives(h.arg, Acts(Tail(s))) \/ GivesUp(h.arg, Acts(Tail(s)))
      BY <3>4, <3>5, <3>7 DEF Survives, GivesUp, AltFits
    <3>9. ToDo = {<<"request", h.arg>>} \cup Acts(Tail(s))
      BY <1>5, <2>1 DEF ToDo
    <3>10. UNCHANGED <<held, misfreed, armed, stopped, raced, depth, items, led, button, sonar>>
           /\ failed' = failed \cup {h.arg}
      BY <2>4 DEF Life!AcquireFails, Life!Arg, Life!cbVars, Life!devVars
    <3> QED BY <2>1, <3>2, <3>3, <3>5, <3>6, <3>8, <3>9, <3>10 DEF Misses
  <2> QED BY <2>1, <2>2, <2>3, <2>4 DEF InitEffect
<1>7. CASE h.op = "free"
  <2>1. Life!Release("module")
    BY <1>7, StepOf
  <2>2. /\ Act(h) = <<"free", h.arg>> /\ h.arg \in Resources \ {"file"} /\ h.arg \in Needed(driver)
        /\ h.arg \notin Stay
    BY <1>2, <1>3, <1>7, InitHeads DEF Act, Resources, Needed, Tasklets, Stay
  <2>3. Goes(<<"free", h.arg>>) /\ InitOrder(driver, run'["module"])
    BY <1>4, <2>1, <2>2 DEF Life!Release
  <2>4. Gives(h.arg)
    BY <2>1, <2>2, <2>3 DEF Gives, Life!Release, Life!Arg, Life!devVars
  <2> QED BY <2>2, <2>3, <2>4 DEF InitEffect
<1>8. CASE h.op = "arm"
  <2>1. Life!Oops("module") \/ Life!ArmCallback("module")
    BY <1>8, StepOf
  <2>2. CASE Life!Oops("module")
    BY <2>2, OopsStops DEF InitEffect, Stops
  <2>3. CASE Life!ArmCallback("module")
    <3>1. /\ h = Life!Arm(h.arg) /\ h.arg \in {"timer", "thread"} /\ Act(h) = <<"arm", h.arg>>
          /\ h.arg = "timer" => driver \in {"simple_timer", "ch5"}
          /\ h.arg = "thread" => driver = "simple_kthread"
      BY <1>2, <1>3, <1>8, InitHeads DEF Act
    <3>2. h.needs = {h.arg}
      BY <3>1, CallFields
    <3>3. Rests(driver, h.arg) # {}
      BY <3>1, RestsTable
    <3>4. Goes(<<"arm", h.arg>>) /\ InitOrder(driver, run'["module"])
      BY <1>4, <2>3, <3>1 DEF Life!ArmCallback
    <3>5. Hands(h.arg)
      BY <2>3, <3>1, <3>2, <3>3, <3>4
         DEF Hands, Life!ArmCallback, Life!Arg, Life!Needs, Life!devVars, Life!resVars
    <3> QED BY <3>1, <3>4, <3>5 DEF InitEffect
  <2> QED BY <2>1, <2>2, <2>3
<1>9. CASE h.op = "wait"
  <2>1. Life!WaitIdle("module")
    BY <1>9, StepOf
  <2>2. h.arg = "isr" /\ Act(h) = <<"wait", "isr">>
    BY <1>2, <1>3, <1>9, InitHeads DEF Act
  <2>3. Goes(<<"wait", "isr">>) /\ InitOrder(driver, run'["module"])
    BY <1>4, <2>1, <2>2 DEF Life!WaitIdle
  <2>4. Life!Awaited("module") = {"isr"} /\ AwaitedOf("isr") = {"isr"}
    BY <2>2 DEF Life!Awaited, Life!Arg, AwaitedOf
  <2>5. Awaits("isr")
    BY <2>1, <2>3, <2>4
       DEF Awaits, Life!WaitIdle, Life!Idle, Life!Running, Life!devVars, Life!resVars
  <2> QED BY <2>3, <2>5 DEF InitEffect
<1>10. CASE h.op = "disable"
  <2>1. Life!SetDepth("module") /\ Act(h) = <<"disable", "nothing">>
    BY <1>2, <1>3, <1>10, InitHeads, StepOf DEF Act
  <2>2. Goes(<<"disable", "nothing">>) /\ InitOrder(driver, run'["module"])
    BY <1>4, <2>1 DEF Life!SetDepth
  <2>3. Disables
    BY <1>10, <2>1, <2>2 DEF Disables, Life!SetDepth, Life!Now, Life!devVars, Life!resVars
  <2> QED BY <2>2, <2>3 DEF InitEffect
<1>11. CASE h.op = "led"
  <2>1. Life!Pins("module") /\ Act(h) = <<"led", "on">> /\ h.arg = "on"
    BY <1>2, <1>3, <1>11, InitHeads, StepOf, CallFields DEF Act
  <2>2. Goes(<<"led", "on">>) /\ InitOrder(driver, run'["module"])
    BY <1>4, <2>1 DEF Life!Pins
  <2>3. Shines("on")
    BY <1>11, <2>1, <2>2
       DEF Shines, Life!Pins, Life!Now, Life!Arg, Life!cbVars, Life!resVars
  <2> QED BY <2>2, <2>3 DEF InitEffect
<1>12. CASE h.op = "fail"
  <2>1. Life!InitFails("module") /\ Act(h) = Fail /\ driver = "simple_sysfs"
    BY <1>2, <1>3, <1>12, InitHeads, StepOf DEF Act, Fail
  <2>2. Tail(s) = <<>>
    BY <1>1, <1>2, <1>12, InitOrderTail
  <2>3. ToDo = {Fail}
    BY <1>5, <2>1, <2>2, NoActs DEF ToDo
  <2>4. MovesTo("module", <<>>)
    BY <1>1, <2>1 DEF MovesTo, Life!InitFails, LifeTypes
  <2>5. Abandons
    BY <2>1, <2>3, <2>4
       DEF Abandons, Life!InitFails, Life!cbVars, Life!resVars, Life!devVars
  <2> QED BY <2>5 DEF InitEffect, Abandons
<1>13. CASE h.op \in {"flag_0", "trigger", "flag_1"}
  <2>1. Life!Sonar("module") /\ Act(h) = <<h.op, "nothing">> /\ driver = "simple_ultra"
    BY <1>2, <1>3, <1>13, InitHeads, StepOf DEF Act
  <2>2. Goes(<<h.op, "nothing">>) /\ InitOrder(driver, run'["module"])
    BY <1>4, <2>1 DEF Life!Sonar
  <2>3. Tunes(h.op)
    BY <1>13, <2>1, <2>2 DEF Tunes, Life!Sonar, Life!Now, Life!cbVars, Life!resVars
  <2> QED BY <1>13, <2>2, <2>3 DEF InitEffect
<1> QED BY <1>2, <1>3, <1>6, <1>7, <1>8, <1>9, <1>10, <1>11, <1>12, <1>13, InitHeads

ExitEffect ==
    \/ Disables \/ Shines("off") \/ Disarms \/ Looks \/ TellsThread
    \/ \E r \in Resources : Gives(r)
    \/ \E cb \in {"isr", "tasklet", "works", "thread"} : Awaits(cb)
LEMMA ExitSteps ==
    ASSUME LifeTypes, phase = "exit", Life!Step("module")
    PROVE  ExitEffect /\ phase' = "exit" /\ ExitOrder(driver, run'["module"])
<1> DEFINE s == run["module"]
           h == Head(s)
<1>1. s # <<>> /\ "module" \in Life!Contexts
  BY StepOf, ContextNames
<1>2. ExitOrder(driver, s) /\ driver \in DOMAIN Life!Programs
  BY DEF LifeTypes
<1>3. s \in Seq(ExitCalls(driver)) /\ h \in ExitCalls(driver)
  BY <1>1, <1>2, HeadAndTail DEF ExitOrder
<1>4. ASSUME Life!Advance("module")
      PROVE  Goes(Act(h)) /\ ExitOrder(driver, run'["module"]) /\ phase' = "exit"
  BY <1>1, <1>4, ExitGoes DEF Goes
<1>5. Acts(s) = {Act(h)} \cup Acts(Tail(s))
  BY <1>1, <1>3, LaterIsActs
<1>6. CASE h.op = "free"
  <2>1. Life!Release("module")
    BY <1>6, StepOf
  <2>2. /\ Act(h) = <<"free", h.arg>> /\ h.arg \in Resources \ {"file"} /\ h.arg \in Needed(driver)
        /\ h.arg \notin Stay
    BY <1>2, <1>3, <1>6, ExitHeads DEF Act
  <2>3. Goes(<<"free", h.arg>>) /\ ExitOrder(driver, run'["module"]) /\ phase' = "exit"
    BY <1>4, <2>1, <2>2 DEF Life!Release
  <2>4. Gives(h.arg)
    BY <2>1, <2>2, <2>3 DEF Gives, Life!Release, Life!Arg, Life!devVars
  <2> QED BY <2>2, <2>3, <2>4 DEF ExitEffect
<1>7. CASE h.op = "wait"
  <2>1. Life!WaitIdle("module")
    BY <1>7, StepOf
  <2>2. h.arg \in {"isr", "tasklet", "works", "thread"} /\ Act(h) = <<"wait", h.arg>>
    BY <1>2, <1>3, <1>7, ExitHeads DEF Act
  <2>3. Goes(<<"wait", h.arg>>) /\ ExitOrder(driver, run'["module"]) /\ phase' = "exit"
    BY <1>4, <2>1, <2>2 DEF Life!WaitIdle
  <2>4. Life!Awaited("module") = AwaitedOf(h.arg)
    BY DEF Life!Awaited, Life!Arg, AwaitedOf
  <2>5. Awaits(h.arg)
    BY <2>1, <2>2, <2>3, <2>4
       DEF Awaits, Life!WaitIdle, Life!Idle, Life!Running, Life!devVars, Life!resVars
  <2> QED BY <2>2, <2>3, <2>5 DEF ExitEffect
<1>8. CASE h.op = "disarm"
  <2>1. /\ Life!DelTimer("module") /\ h.arg = "timer" /\ Act(h) = <<"disarm", "timer">>
        /\ driver \in {"simple_timer", "ch5", "ch6"}
    BY <1>2, <1>3, <1>8, ExitHeads, StepOf DEF Act
  <2>2. Goes(<<"disarm", "timer">>) /\ ExitOrder(driver, run'["module"]) /\ phase' = "exit"
    BY <1>4, <2>1 DEF Life!DelTimer
  <2>3. {cb \in {"timer"} : run[cb] # <<>>} = IF run["timer"] # <<>> THEN {"timer"} ELSE {}
    OBVIOUS
  <2>4. Disarms
    BY <2>1, <2>2, <2>3
       DEF Disarms, Life!DelTimer, Life!Arg, Life!Running, Life!devVars, Life!resVars
  <2> QED BY <2>2, <2>4 DEF ExitEffect
<1>9. CASE h.op = "led"
  <2>1. Life!Pins("module") /\ Act(h) = <<"led", "off">> /\ h.arg = "off"
    BY <1>2, <1>3, <1>9, ExitHeads, StepOf, CallFields DEF Act
  <2>2. Goes(<<"led", "off">>) /\ ExitOrder(driver, run'["module"]) /\ phase' = "exit"
    BY <1>4, <2>1 DEF Life!Pins
  <2>3. Shines("off")
    BY <1>9, <2>1, <2>2
       DEF Shines, Life!Pins, Life!Now, Life!Arg, Life!cbVars, Life!resVars
  <2> QED BY <2>2, <2>3 DEF ExitEffect
<1>10. CASE h.op = "disable"
  <2>1. Life!SetDepth("module") /\ Act(h) = <<"disable", "nothing">>
    BY <1>2, <1>3, <1>10, ExitHeads, StepOf DEF Act
  <2>2. Goes(<<"disable", "nothing">>) /\ ExitOrder(driver, run'["module"]) /\ phase' = "exit"
    BY <1>4, <2>1 DEF Life!SetDepth
  <2>3. Disables
    BY <1>10, <2>1, <2>2 DEF Disables, Life!SetDepth, Life!Now, Life!devVars, Life!resVars
  <2> QED BY <2>2, <2>3 DEF ExitEffect
<1>11. CASE h.op = "if"
  <2>1. /\ Life!TestPointer("module") /\ h.arg = "thread" /\ h.alt = StopCalls
        /\ driver = "simple_kthread" /\ Act(h) = <<"if", "thread">>
    BY <1>2, <1>3, <1>11, ExitHeads, StepOf DEF Act
  <2>2. Tail(s) = <<>>
    BY <1>1, <1>2, <1>11, ExitOrderTail
  <2> DEFINE seq == (IF "thread" \in failed THEN <<>> ELSE StopCalls) \o <<>>
  <2>3. Life!GoOn("module", seq)
    BY <2>1, <2>2 DEF Life!TestPointer, Life!Arg
  <2>4. seq = IF "thread" \in failed THEN <<>> ELSE StopCalls
    <3>1. StopCalls \in Seq({Life!Do("stop"), Life!Wait("thread")}) /\ <<>> \in Seq({0})
      BY DEF StopCalls
    <3> QED BY <3>1, ConcatEmptySeq
  <2> HIDE DEF seq
  <2>5. MovesTo("module", seq) /\ UNCHANGED <<driver, phase, edges>>
    BY <1>1, <2>3, GoOnMoves DEF LifeTypes
  <2>6. run'["module"] = seq
    BY <2>5 DEF MovesTo
  <2>7. Acts(StopCalls) = {<<"stop", "nothing">>, <<"wait", "thread">>}
    BY Acts2, CallFields DEF StopCalls, Act
  <2>8. ToDo' = IF "thread" \in failed THEN {} ELSE {<<"stop", "nothing">>, <<"wait", "thread">>}
    BY <2>4, <2>6, <2>7, NoActs DEF ToDo
  <2>9. ToDo = {<<"if", "thread">>}
    BY <1>5, <2>1, <2>2, NoActs DEF ToDo
  <2>10. Looks
    BY <2>1, <2>5, <2>6, <2>8, <2>9
       DEF Looks, Life!TestPointer, Life!cbVars, Life!devVars, Life!resVars
  <2>11. ExitOrder("simple_kthread", seq)
    BY <2>4, KthreadExit
  <2> QED BY <2>1, <2>5, <2>6, <2>10, <2>11 DEF ExitEffect
<1>12. CASE h.op = "stop"
  <2>1. Life!StopThread("module") /\ Act(h) = <<"stop", "nothing">> /\ driver = "simple_kthread"
    BY <1>2, <1>3, <1>12, ExitHeads, StepOf DEF Act
  <2>2. Goes(<<"stop", "nothing">>) /\ ExitOrder(driver, run'["module"]) /\ phase' = "exit"
    BY <1>4, <2>1 DEF Life!StopThread
  <2>3. TellsThread
    BY <2>1, <2>2 DEF TellsThread, Life!StopThread, Life!devVars, Life!resVars
  <2> QED BY <2>2, <2>3 DEF ExitEffect
<1> QED BY <1>2, <1>3, <1>6, <1>7, <1>8, <1>9, <1>10, <1>11, <1>12, ExitHeads

(***************************************************************************)
(* What the user, the kernel and the world change                          *)
(***************************************************************************)
UserCalls == [open |-> <<Life!Do("enable"), Life!Request("start")>>,
              start |-> <<Life!Request("start")>>,
              release |-> <<Life!Do("disable"), Life!Wait("isr")>>,
              wait |-> <<Life!Wait("isr")>>]
Opens ==
    /\ run["user"] = UserCalls.open /\ MovesTo("user", UserCalls.start)
    /\ depth' = IF depth = 0 THEN 0 ELSE depth - 1
    /\ UNCHANGED <<driver, phase, edges, held, failed, misfreed, armed, stopped, raced, items, led,
                   button, sonar>>
Notes ==
    /\ run["user"] = UserCalls.start /\ MovesTo("user", <<>>)
    /\ held' = held \cup {"start"}
    /\ UNCHANGED <<driver, phase, edges, failed, misfreed, armed, stopped, raced, depth, items, led,
                   button, sonar>>
Closes ==
    /\ run["user"] = UserCalls.release /\ MovesTo("user", UserCalls.wait)
    /\ depth' = depth + 1 /\ armed' = armed \ {"isr"}
    /\ UNCHANGED <<driver, phase, edges, held, failed, misfreed, stopped, raced, items, led,
                   button, sonar>>
Quiets ==
    /\ run["user"] = UserCalls.wait /\ MovesTo("user", <<>>)
    /\ "isr" \notin armed /\ run["isr"] = <<>>
    /\ stopped' = IF phase = "exit" THEN stopped \cup {"isr"} ELSE stopped
    /\ UNCHANGED <<driver, phase, edges, held, failed, misfreed, armed, raced, depth, items, led,
                   button, sonar>>
UserEffect == driver = "simple_sensor" /\ (Opens \/ Notes \/ Closes \/ Quiets)

LEMMA UserSteps ==
    ASSUME LifeTypes, Life!Step("user")
    PROVE  UserEffect
<1>1. "user" \in Life!Contexts \ {"module"} /\ run["user"] # <<>>
  BY ContextNames, StepOf
<1>2. run["user"] \in Rests(driver, "user") /\ driver = "simple_sensor"
  BY <1>1, TypesAt, RestsDrivers
<1>3. run["user"] \in {UserCalls.open, UserCalls.start, UserCalls.release, UserCalls.wait}
  BY <1>2, RestsTable DEF UserCalls
<1>4. ASSUME Life!Advance("user")
      PROVE  MovesTo("user", Tail(run["user"])) /\ UNCHANGED <<driver, phase, edges>>
  BY <1>1, <1>4, AdvanceMoves
<1>5. CASE run["user"] = UserCalls.open
  <2>1. Head(run["user"]).op = "enable" /\ Tail(run["user"]) = UserCalls.start
    BY <1>5, HeadTail, CallFields DEF UserCalls
  <2>2. Life!SetDepth("user")
    BY <2>1, StepOf
  <2>3. MovesTo("user", UserCalls.start) /\ UNCHANGED <<driver, phase, edges>>
    BY <1>4, <2>1, <2>2 DEF Life!SetDepth
  <2>4. Opens
    BY <1>5, <2>1, <2>2, <2>3
       DEF Opens, Life!SetDepth, Life!Now, Life!resVars, Life!devVars
  <2> QED BY <1>2, <2>4 DEF UserEffect
<1>6. CASE run["user"] = UserCalls.start
  <2>1. /\ Head(run["user"]).op = "request" /\ Head(run["user"]).arg = "start"
        /\ Tail(run["user"]) = <<>>
    BY <1>6, HeadTail, CallFields DEF UserCalls
  <2>2. Life!Acquire("user")
    BY <2>1, StepOf
  <2>3. MovesTo("user", <<>>) /\ UNCHANGED <<driver, phase, edges>>
    BY <1>4, <2>1, <2>2 DEF Life!Acquire
  <2>4. Notes
    BY <1>6, <2>1, <2>2, <2>3
       DEF Notes, Life!Acquire, Life!Arg, Life!cbVars, Life!devVars
  <2> QED BY <1>2, <2>4 DEF UserEffect
<1>7. CASE run["user"] = UserCalls.release
  <2>1. Head(run["user"]).op = "disable" /\ Tail(run["user"]) = UserCalls.wait
    BY <1>7, HeadTail, CallFields DEF UserCalls
  <2>2. Life!SetDepth("user")
    BY <2>1, StepOf
  <2>3. MovesTo("user", UserCalls.wait) /\ UNCHANGED <<driver, phase, edges>>
    BY <1>4, <2>1, <2>2 DEF Life!SetDepth
  <2>4. Closes
    BY <1>7, <2>1, <2>2, <2>3
       DEF Closes, Life!SetDepth, Life!Now, Life!resVars, Life!devVars
  <2> QED BY <1>2, <2>4 DEF UserEffect
<1>8. CASE run["user"] = UserCalls.wait
  <2>1. /\ Head(run["user"]).op = "wait" /\ Head(run["user"]).arg = "isr"
        /\ Tail(run["user"]) = <<>>
    BY <1>8, HeadTail, CallFields DEF UserCalls
  <2>2. Life!WaitIdle("user")
    BY <2>1, StepOf
  <2>3. MovesTo("user", <<>>) /\ UNCHANGED <<driver, phase, edges>>
    BY <1>4, <2>1, <2>2 DEF Life!WaitIdle
  <2>4. Life!Awaited("user") = {"isr"} /\ {"isr"} \ Works = {"isr"}
    BY <2>1, ContextNames DEF Life!Awaited, Life!Arg
  <2>5. Quiets
    BY <1>8, <2>2, <2>3, <2>4
       DEF Quiets, Life!WaitIdle, Life!Idle, Life!Running, Life!resVars, Life!devVars
  <2> QED BY <1>2, <2>5 DEF UserEffect
<1> QED BY <1>3, <1>5, <1>6, <1>7, <1>8

Starts(cb) ==
    /\ cb \in armed /\ run[cb] = <<>> /\ run'[cb] # <<>>
    /\ Moves(cb) /\ armed' = armed \ {cb}
    /\ cb = "isr" => run'["isr"] # QueueCalls /\ run'["isr"] # EchoCalls
    /\ UNCHANGED <<driver, phase, edges, held, failed, misfreed, stopped, raced, depth, items, led,
                   button, sonar>>
LEMMA StartSteps ==
    ASSUME LifeTypes, NEW cb \in Life!Callbacks, Life!Start(cb)
    PROVE  Starts(cb)
<1>1. cb \in armed /\ run[cb] = <<>> /\ Rests(driver, cb) # {} /\ driver \in DOMAIN Life!Programs
  BY DEF Life!Start, Life!Running, LifeTypes
<1>2. Life!CodeOf(cb) \in Rests(driver, cb) /\ Life!CodeOf(cb) # <<>>
  BY <1>1, CodeTable
<1>3. cb \in Life!Contexts
  BY ContextNames
<1>4. MovesTo(cb, Life!CodeOf(cb))
  BY <1>3 DEF MovesTo, Life!Start, LifeTypes
<1>5. run'[cb] = Life!CodeOf(cb) /\ Moves(cb)
  BY <1>2, <1>4 DEF Moves, MovesTo
<1>6. ASSUME cb = "isr" PROVE Life!CodeOf(cb) # QueueCalls /\ Life!CodeOf(cb) # EchoCalls
  <2>1. Life!CodeOf(cb) = Life!Programs[driver]["isr"]
    BY <1>6, ContextNames DEF Life!CodeOf, Life!Code
  <2>2. driver \in {"ch6"} \cup IrqDrivers
    BY <1>1, <1>6, RestsDrivers
  <2>3. Head(QueueCalls).op = "queue" /\ Head(EchoCalls).op = "echo"
    BY HeadTail, CallFields DEF QueueCalls, EchoCalls
  <2>4. CASE driver = "simple_workqueue"
    <3>1. Life!CodeOf(cb) = <<Life!If("wq", QueueCalls)>>
      BY <2>1, <2>4, DriverTables, HandlerTable
    <3>2. Head(Life!CodeOf(cb)).op = "if"
      BY <3>1, HeadTail, CallFields
    <3> QED BY <2>3, <3>2
  <2>5. CASE driver = "simple_ultra"
    <3>1. Life!CodeOf(cb) = <<Life!Do("time"), Life!Do("echo")>>
      BY <2>1, <2>5, DriverTables, HandlerTable
    <3>2. Head(Life!CodeOf(cb)).op = "time"
      BY <3>1, HeadTail, CallFields
    <3> QED BY <2>3, <3>2
  <2>6. CASE driver \in {"switch_irq", "simple_sensor"}
    <3>1. \/ Life!CodeOf(cb) = <<Life!Do("print")>>
          \/ Life!CodeOf(cb) = <<Life!Call("print", "start", {"start"})>>
      BY <2>1, <2>6, DriverTables, HandlerTable
    <3>2. Head(Life!CodeOf(cb)).op = "print"
      BY <3>1, HeadTail, CallFields
    <3> QED BY <2>3, <3>2
  <2>7. CASE driver \in Tasklets
    <3>1. Life!CodeOf(cb) = <<Life!Arm("tasklet")>>
      BY <2>1, <2>7, DriverTables, HandlerTable
    <3>2. Head(Life!CodeOf(cb)).op = "arm"
      BY <3>1, HeadTail, CallFields
    <3> QED BY <2>3, <3>2
  <2>8. CASE driver = "ch6"
    <3>1. Life!CodeOf(cb) = <<Life!Led("off"), Life!Led("on"), Life!Arm("timer")>>
      BY <2>1, <2>8, DriverTables, HandlerTable
    <3>2. Head(Life!CodeOf(cb)).op = "led"
      BY <3>1, HeadTail, CallFields
    <3> QED BY <2>3, <3>2
  <2> QED BY <2>2, <2>4, <2>5, <2>6, <2>7, <2>8 DEF IrqDrivers
<1> QED BY <1>1, <1>2, <1>5, <1>6
        DEF Starts, Life!Start, Life!resVars, Life!devVars

Edges ==
    /\ driver # "simple_ultra" /\ "irq" \in held /\ depth = 0
    /\ armed' = armed \cup {"isr"}
    /\ UNCHANGED <<driver, phase, run, held, failed, misfreed, stopped, raced, depth, items, led,
                   button, sonar>>
Echoes ==
    /\ \/ sonar.line = "triggered" /\ sonar' = [sonar EXCEPT !.line = "high"]
       \/ sonar.line = "high" /\ sonar' = [sonar EXCEPT !.line = "low"]
    /\ armed' = IF "irq" \in held /\ depth = 0 THEN armed \cup {"isr"} ELSE armed
    /\ UNCHANGED <<driver, phase, run, held, failed, misfreed, stopped, raced, depth, items, led,
                   button>>
Presses ==
    /\ button' \in [now : {"on", "off"}, read : {"on", "off"}]
    /\ UNCHANGED <<driver, phase, run, held, failed, misfreed, armed, stopped, raced, depth, items,
                   led, sonar>>
Begins ==
    /\ phase = "init" /\ run["module"] = <<>> /\ phase' = "up"
    /\ UNCHANGED <<driver, run, held, failed, misfreed, armed, stopped, raced, depth, items, led,
                   button, sonar>>
Leaves ==
    /\ phase = "exit" /\ run["module"] = <<>> /\ phase' = "gone"
    /\ UNCHANGED <<driver, run, held, failed, misfreed, armed, stopped, raced, depth, items, led,
                   button, sonar>>
Unloads ==
    /\ phase = "up" /\ run["user"] = <<>> /\ "opened" \notin held /\ phase' = "exit"
    /\ MovesTo("module", run'["module"]) /\ EndsWell(driver, run'["module"])
    /\ UNCHANGED <<driver, held, failed, misfreed, armed, stopped, raced, depth, items, led,
                   button, sonar>>
Uses ==
    /\ driver = "simple_sensor" /\ phase = "up" /\ run["user"] = <<>>
    /\ \/ /\ "opened" \notin held /\ held' = held \cup {"opened"}
          /\ MovesTo("user", UserCalls.open)
       \/ /\ "opened" \in held /\ held' = held \ {"opened"}
          /\ MovesTo("user", UserCalls.release)
    /\ UNCHANGED <<driver, phase, failed, misfreed, armed, stopped, raced, depth, items, led,
                   button, sonar>>

\* What a callback changes.
CallbackEffect(c) ==
    \/ Stops
    \/ c \in {"isr", "timer"} /\ \E cb \in {"timer", "tasklet"} : Arms(c, cb)
    \/ /\ (driver = "ch5" /\ c = "timer") \/ (driver = "ch6" /\ c \in {"isr", "timer"})
       /\ \E v \in {"on", "off"} : Lights(c, v) /\ (driver = "ch6" /\ c = "timer" => v = "off")
    \/ /\ c \in {"isr", "tasklet", "thread"} /\ Idles(c)
       /\ driver = "simple_ultra" => c # "isr"
       /\ c = "isr" /\ driver = "simple_workqueue" /\ run'["isr"] = QueueCalls => "wq" \notin failed
    \/ c = "isr" /\ \E w \in Works : Queues(w)
    \/ /\ c = "isr" /\ driver = "simple_ultra" /\ Listens
       /\ \/ run'["isr"] = EchoCalls /\ sonar' = [sonar EXCEPT !.now = sonar.line]
          \/ /\ run["isr"] = EchoCalls /\ run'["isr"] = <<>>
             /\ \/ Life!EchoStart /\ sonar' = [sonar EXCEPT !.start = sonar.now, !.flag = 2]
                \/ Life!EchoStop /\ sonar' = [sonar EXCEPT !.stop = sonar.now, !.flag = 3]
                \/ ~Life!EchoStart /\ ~Life!EchoStop /\ UNCHANGED sonar
    \/ c = "timer" /\ driver = "ch5" /\ Samples
    \/ c \in Works /\ driver = "simple_workqueue" /\ Works1(c)

LEMMA CallbackSteps ==
    ASSUME LifeTypes, NEW c \in Life!Callbacks, Life!Step(c)
    PROVE  CallbackEffect(c) /\ run[c] # <<>>
<1>1. run[c] # <<>>
  BY StepOf
<1>2. CASE c = "isr"
  <2>0. Life!Step("isr") /\ (CallbackEffect("isr") => CallbackEffect(c))
    BY <1>2
  <2>1. run["isr"] \in Rests(driver, "isr")
    BY <1>1, <1>2, ContextNames, TypesAt
  <2>2. driver \in {"ch6"} \cup IrqDrivers
    BY <2>1, RestsDrivers DEF LifeTypes
  <2>3. CASE driver = "ch6"
    <3>1. CallbackEffect("isr")
      BY <2>0, <2>3, Ch6IsrSteps DEF CallbackEffect, Tasklets
    <3> QED BY <1>1, <2>0, <3>1
  <2>4. CASE driver \in {"switch_irq", "simple_sensor"}
    <3>1. CallbackEffect("isr")
      BY <2>0, <2>4, ReportIsrSteps DEF CallbackEffect, Tasklets
    <3> QED BY <1>1, <2>0, <3>1
  <2>5. CASE driver \in Tasklets
    <3>1. CallbackEffect("isr")
      BY <2>0, <2>5, TaskletIsrSteps DEF CallbackEffect, Tasklets
    <3> QED BY <1>1, <2>0, <3>1
  <2>6. CASE driver = "simple_workqueue"
    <3>1. CallbackEffect("isr")
      BY <2>0, <2>6, WorkqueueIsrSteps DEF CallbackEffect, Tasklets
    <3> QED BY <1>1, <2>0, <3>1
  <2>7. CASE driver = "simple_ultra"
    <3>1. CallbackEffect("isr")
      BY <2>0, <2>7, UltraIsrSteps DEF CallbackEffect, Tasklets
    <3> QED BY <1>1, <2>0, <3>1
  <2> QED BY <1>1, <2>2, <2>3, <2>4, <2>5, <2>6, <2>7 DEF IrqDrivers
<1>3. CASE c = "timer"
  <2>1. CASE driver = "ch5" /\ Lights("timer", button.read)
    <3>1. button.read \in {"on", "off"}
      BY DEF LifeTypes
    <3> QED BY <1>1, <1>3, <2>1, <3>1 DEF CallbackEffect
  <2> QED BY <1>1, <1>3, <2>1, TimerSteps DEF CallbackEffect
<1>4. CASE c = "tasklet"
  BY <1>1, <1>4, TaskletSteps DEF CallbackEffect
<1>5. CASE c = "thread"
  BY <1>1, <1>5, ThreadSteps DEF CallbackEffect
<1>6. CASE c \in Works
  BY <1>1, <1>6, WorkSteps DEF CallbackEffect
<1> QED BY <1>2, <1>3, <1>4, <1>5, <1>6, ContextNames

\* Every step, by what it changes.
WorldEffect == Edges \/ Echoes \/ Presses \/ Begins \/ Leaves \/ Unloads \/ Uses
LifeEffect ==
    /\ phase \in {"init", "up", "exit"}
    /\ \/ phase = "init" /\ InitEffect /\ (phase' = "init" => InitOrder(driver, run'["module"]))
       \/ phase = "exit" /\ ExitEffect /\ phase' = "exit" /\ ExitOrder(driver, run'["module"])
       \/ UserEffect
       \/ \E c \in Life!Callbacks : run[c] # <<>> /\ CallbackEffect(c)
       \/ \E cb \in Life!Callbacks : Starts(cb)
       \/ WorldEffect
LEMMA LifeCases ==
    ASSUME LifeTypes, Life!LifeNext
    PROVE  LifeEffect
<1>1. ASSUME NEW c \in Life!Contexts, Life!Step(c) PROVE LifeEffect
  <2>1. phase \in {"init", "up", "exit"} /\ run[c] # <<>>
    BY <1>1, StepOf DEF LifeTypes, Life!Loaded
  <2>2. CASE c = "module"
    <3>1. phase \in {"init", "exit"}
      BY <2>1, <2>2 DEF LifeTypes
    <3> QED BY <1>1, <2>2, <3>1, InitSteps, ExitSteps DEF LifeEffect
  <2>3. CASE c = "user"
    BY <1>1, <2>1, <2>3, UserSteps DEF LifeEffect
  <2>4. CASE c \in Life!Callbacks
    BY <1>1, <2>1, <2>4, CallbackSteps DEF LifeEffect
  <2> QED BY <2>2, <2>3, <2>4, ContextNames
<1>2. ASSUME NEW cb \in Life!Callbacks, Life!Start(cb) PROVE LifeEffect
  <2>1. phase \in {"init", "up", "exit"}
    BY <1>2 DEF LifeTypes, Life!Start, Life!Loaded
  <2> QED BY <1>2, <2>1, StartSteps DEF LifeEffect
<1>3. CASE Life!Edge
  <2>1. phase \in {"init", "up", "exit"} /\ "irq" \in held /\ depth = 0
    BY <1>3 DEF LifeTypes, Life!Edge, Life!LineIsOn, Life!Loaded
  <2>2. Edges
    BY <1>3, <2>1 DEF Edges, Life!Edge, Life!LineIsOn, Life!Latched, Life!resVars, Life!devVars
  <2> QED BY <2>1, <2>2 DEF LifeEffect, WorldEffect
<1>4. CASE Life!Echo
  <2>1. phase \in {"init", "up", "exit"} /\ Life!Loaded
    BY <1>4 DEF LifeTypes, Life!Echo, Life!Loaded
  <2>2. armed' = IF "irq" \in held /\ depth = 0 THEN armed \cup {"isr"} ELSE armed
    BY <1>4, <2>1 DEF Life!Echo, Life!LineIsOn, Life!Latched
  <2>3. Echoes
    BY <1>4, <2>2 DEF Echoes, Life!Echo, Life!resVars
  <2> QED BY <2>1, <2>3 DEF LifeEffect, WorldEffect
<1>5. CASE Life!Press
  <2>1. phase \in {"init", "up", "exit"}
    BY <1>5 DEF LifeTypes, Life!Press, Life!Loaded
  <2>2. button' \in [now : {"on", "off"}, read : {"on", "off"}]
    BY <1>5 DEF Life!Press, LifeTypes
  <2>3. Presses
    BY <1>5, <2>2 DEF Presses, Life!Press, Life!resVars, Life!cbVars
  <2> QED BY <2>1, <2>3 DEF LifeEffect, WorldEffect
<1>6. CASE Life!InitReturns
  BY <1>6 DEF LifeEffect, WorldEffect, Begins, Life!InitReturns, Life!Running, Life!resVars, Life!cbVars,
              Life!devVars
<1>7. CASE Life!ExitReturns
  BY <1>7 DEF LifeEffect, WorldEffect, Leaves, Life!ExitReturns, Life!Running, Life!resVars, Life!cbVars,
              Life!devVars
<1>8. CASE Life!Unload
  <2>1. MovesTo("module", Life!Programs[driver]["exit"])
    BY <1>8, ContextNames DEF MovesTo, Life!Unload, Life!Code, LifeTypes
  <2>2. EndsWell(driver, Life!Programs[driver]["exit"])
    BY ExitTable DEF LifeTypes
  <2>3. run'["module"] = Life!Programs[driver]["exit"]
    BY <2>1 DEF MovesTo
  <2>4. Unloads
    BY <1>8, <2>1, <2>2, <2>3
       DEF Unloads, Life!Unload, Life!Closed, Life!Running, Life!resVars, Life!cbVars, Life!devVars
  <2> QED BY <1>8, <2>4 DEF LifeEffect, WorldEffect, Life!Unload
<1>9. CASE Life!Use
  <2>1. /\ driver = "simple_sensor" /\ Life!Code("open") = UserCalls.open
        /\ Life!Code("release") = UserCalls.release
    BY <1>9, UserTable DEF Life!Use, LifeTypes, UserCalls
  <2>2. phase = "up" /\ run["user"] = <<>> /\ (Life!Closed <=> "opened" \notin held)
    BY <1>9 DEF Life!Use, Life!Running, Life!Closed
  <2>3. MovesTo("user", IF Life!Closed THEN UserCalls.open ELSE UserCalls.release)
    BY <1>9, <2>1, ContextNames DEF MovesTo, Life!Use, LifeTypes
  <2>4. Uses
    BY <1>9, <2>1, <2>2, <2>3 DEF Uses, Life!Use, Life!cbVars, Life!devVars
  <2> QED BY <2>2, <2>4 DEF LifeEffect, WorldEffect
<1> QED BY <1>1, <1>2, <1>3, <1>4, <1>5, <1>6, <1>7, <1>8, <1>9
        DEF Life!LifeNext, Life!Runs, Life!Returns
==============================================================================
