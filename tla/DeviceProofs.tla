----------------------------- MODULE DeviceProofs -----------------------------
(***************************************************************************)
(* The invariants of Device that relate the light, the configuration and the *)
(* timers hold for every set of messages, every number of channels and time  *)
(* tasks and every delay.  Each message runs through all the stages of       *)
(* user_json_deal_cb, so the lemmas follow the stages: what a stage keeps of *)
(* the engine's record, what the message as a whole does to the record, to   *)
(* user_config and to the timers, and then one step per action of Device.    *)
(***************************************************************************)
EXTENDS Device, TLAPS

-----------------------------------------------------------------------------
(***************************************************************************)
(* The LED engine, as far as these invariants look at it.                   *)
(***************************************************************************)
Shaped(l) ==
    /\ {"on", "now", "saved", "h", "timer", "led_init_flag", "pins"} \subseteq DOMAIN l
    /\ l.on \in {0, 1}
    /\ l.h \in 0 .. HUE_MAX

SamePins(k, l) == k.led_init_flag = l.led_init_flag /\ k.pins = l.pins

SameTarget(k, l) == k.on = l.on /\ k.now = l.now /\ k.saved = l.saved

LEMMA SetTempKeeps ==
  ASSUME NEW l, Shaped(l), NEW val
  PROVE  LET k == user_led_set_temp(l, val)
         IN  Shaped(k) /\ SamePins(k, l) /\ SameTarget(k, l) /\ k.h = l.h
  BY DEF user_led_set_temp, Shaped, SamePins, SameTarget

LEMMA FadeTickKeeps ==
  ASSUME NEW l, Shaped(l)
  PROVE  LET k == FadeTick(l)
         IN  Shaped(k) /\ SamePins(k, l) /\ SameTarget(k, l) /\ k.h = l.h
<1> DEFINE step == (l.step + 1) % U8
           shown == user_led_set_temp(l, FadeFrame(l, step))
           last == user_led_set_temp(shown, l.now)
<1>1. Shaped(shown) /\ SamePins(shown, l) /\ SameTarget(shown, l) /\ shown.h = l.h
  BY SetTempKeeps
<1>2. Shaped(last) /\ SamePins(last, l) /\ SameTarget(last, l) /\ last.h = l.h
  BY <1>1, SetTempKeeps DEF SamePins, SameTarget
<1>3. \/ FadeTick(l) = [last EXCEPT !.step = 0, !.timer = "idle"]
      \/ FadeTick(l) = [shown EXCEPT !.step = step]
  BY DEF FadeTick
<1> HIDE DEF step, shown, last
<1>4. QED
  BY <1>1, <1>2, <1>3 DEF Shaped, SamePins, SameTarget

\* user_led_set aims the light at val and remembers it unless it is black.
LEMMA SetSwitches ==
  ASSUME NEW l, Shaped(l), NEW val, NEW is_gradient
  PROVE  LET k == user_led_set(l, val, is_gradient)
         IN  /\ Shaped(k) /\ SamePins(k, l) /\ k.h = l.h
             /\ k.on = IF val = Black THEN 0 ELSE 1
             /\ k.now = val
             /\ k.saved = IF val = Black THEN l.saved ELSE val
<1> DEFINE target == SetTarget(l, val)
           from == [target EXCEPT !.old = l.real]
<1>1. /\ Shaped(target) /\ SamePins(target, l) /\ target.h = l.h
      /\ target.on = IF val = Black THEN 0 ELSE 1
      /\ target.now = val
      /\ target.saved = IF val = Black THEN l.saved ELSE val
  BY DEF SetTarget, Shaped, SamePins
<1> HIDE DEF target
<1>2. /\ Shaped(from) /\ SamePins(from, target)
      /\ SameTarget(from, target) /\ from.h = target.h
  BY <1>1 DEF Shaped, SamePins, SameTarget
<1> HIDE DEF from
<1>3. CASE is_gradient = 1
  <2>1. user_led_set(l, val, is_gradient) = [FadeTick(from) EXCEPT !.timer = "fade"]
    BY <1>3 DEF user_led_set, SetGradient, from, target
  <2>2. /\ Shaped(FadeTick(from)) /\ SamePins(FadeTick(from), from)
        /\ SameTarget(FadeTick(from), from) /\ FadeTick(from).h = from.h
    BY <1>2, FadeTickKeeps
  <2>3. QED
    BY <1>1, <1>2, <2>1, <2>2 DEF Shaped, SamePins, SameTarget
<1>4. CASE is_gradient # 1
  <2>1. user_led_set(l, val, is_gradient) = user_led_set_temp(target, val)
    BY <1>4 DEF user_led_set, SetAtOnce, target
  <2>2. QED
    BY <1>1, <2>1, SetTempKeeps DEF SamePins, SameTarget
<1>5. QED
  BY <1>3, <1>4

\* A tick never switches the lamp off: the wheel shows no black.
LEMMA TickKeepsOn ==
  ASSUME NEW l, Shaped(l)
  PROVE  LET k == user_led_timer_func(l)
         IN  Shaped(k) /\ SamePins(k, l) /\ (l.on = 1 => k.on = 1)
<1>1. CASE l.timer = "wheel"
  <2> DEFINE shown == user_led_set(l, HueColour[l.h], 0)
             h == IF l.h + HUE_STEP > HUE_MAX
                  THEN (l.h + HUE_STEP) % HUE_MAX ELSE l.h + HUE_STEP
  <2>1. user_led_timer_func(l) = [shown EXCEPT !.h = h]
    BY <1>1 DEF user_led_timer_func, WheelTick
  <2>2. HueColour[l.h] # Black
    BY EngineAssumption DEF Shaped
  <2>3. Shaped(shown) /\ SamePins(shown, l) /\ shown.on = 1
    BY <2>2, SetSwitches
  <2>4. h \in 0 .. HUE_MAX
    BY EngineAssumption DEF Shaped
  <2> HIDE DEF shown, h
  <2>5. QED
    BY <2>1, <2>3, <2>4 DEF Shaped, SamePins
<1>2. CASE l.timer # "wheel"
  BY <1>2, FadeTickKeeps DEF user_led_timer_func, SameTarget
<1>3. QED
  BY <1>1, <1>2

LEMMA PowerOnPins ==
  ASSUME NEW pins, NEW behindTable, NEW softap
  PROVE  LET k == PowerOn(pins, behindTable, softap)
         IN  Shaped(k) /\ (k.led_init_flag => k.pins = pins)
<1> DEFINE l == user_led_gpio_config(StaticState, pins, behindTable)
<1>1. Shaped(StaticState) /\ ~StaticState.led_init_flag
  BY EngineAssumption DEF StaticState, Shaped
<1>2. Shaped(l) /\ (l.led_init_flag => l.pins = pins)
  BY <1>1 DEF user_led_gpio_config, Shaped
<1> HIDE DEF l
<1>3. CASE softap
  BY <1>2, <1>3 DEF PowerOn, user_led_mode_wificonfig, Shaped, l
<1>4. CASE ~softap
  BY <1>2, <1>4, SetSwitches DEF PowerOn, SamePins, l
<1>5. QED
  BY <1>3, <1>4

-----------------------------------------------------------------------------
(***************************************************************************)
(* One message.                                                            *)
(***************************************************************************)

\* The pins change in the first stage only, and only when they are accepted;
\* only a light command can switch the lamp off.
LEMMA MessageLight ==
  ASSUME NEW l, Shaped(l), NEW m, NEW behindTable
  PROVE  LET k == LedAfter(l, m, behindTable)
         IN  /\ Shaped(k)
             /\ ~IsLightCommand(m) /\ l.on = 1 => k.on = 1
             /\ IF GpioAccepted(m, behindTable)
                THEN k.pins = Uint8(m.gpio) ELSE SamePins(k, l)
<1> DEFINE l1 == GpioStage(l, m, behindTable)
           l2 == HslStage(l1, m)
           l3 == RgbStage(l2, m)
           l4 == OnStage(l3, m)
<1>1. /\ Shaped(l1) /\ (l.on = 1 => l1.on = 1)
      /\ IF GpioAccepted(m, behindTable)
         THEN l1.pins = Uint8(m.gpio) ELSE SamePins(l1, l)
  <2>1. CASE GpioAccepted(m, behindTable)
    <3> DEFINE k == user_led_gpio_config(l, Uint8(m.gpio), behindTable)
    <3>1. Shaped(k) /\ k.pins = Uint8(m.gpio)
      BY <2>1 DEF GpioAccepted, user_led_gpio_config, Shaped
    <3>2. l1 = user_led_set(k, Green, 0)
      BY <2>1 DEF GpioStage
    <3> HIDE DEF k, l1
    <3>3. Green # Black
      BY UserJsonAssumption
    <3>4. QED
      BY <2>1, <3>1, <3>2, <3>3, SetSwitches DEF SamePins
  <2>2. CASE ~GpioAccepted(m, behindTable)
    BY <2>2 DEF GpioStage, SamePins
  <2>3. QED
    BY <2>1, <2>2
<1> HIDE DEF l1
<1>2. /\ Shaped(l2) /\ SamePins(l2, l1)
      /\ ~IsLightCommand(m) => l2 = l1
  BY <1>1, SetSwitches DEF HslStage, SamePins, IsLightCommand, Present
<1> HIDE DEF l2
<1>3. /\ Shaped(l3) /\ SamePins(l3, l2)
      /\ ~IsLightCommand(m) => l3 = l2
  BY <1>2, SetSwitches DEF RgbStage, SamePins, IsLightCommand, Present
<1> HIDE DEF l3
<1>4. /\ Shaped(l4) /\ SamePins(l4, l3)
      /\ ~IsLightCommand(m) => l4 = l3
  <2>1. \/ l4 = l3
        \/ l4 = user_led_set(l3, Black, GradientOf(m))
        \/ l4 = user_led_set(l3, l3.saved, GradientOf(m))
    BY DEF OnStage
  <2>2. ~IsLightCommand(m) => l4 = l3
    BY DEF OnStage, IsLightCommand, Present
  <2> HIDE DEF l4
  <2>3. QED
    BY <1>3, <2>1, <2>2, SetSwitches DEF SamePins
<1> HIDE DEF l4
<1>5. LedAfter(l, m, behindTable) = l4
  BY DEF LedAfter, l1, l2, l3, l4
<1>6. QED
  BY <1>1, <1>2, <1>3, <1>4, <1>5 DEF SamePins

\* user_config with its nested arrays, as far as these invariants look at it.
IsFcn(f) == f = [x \in DOMAIN f |-> f[x]]

ConfigFields == {"version", "gpio", "auto_off", "setting", "task"}

Kept(c) ==
    /\ IsFcn(c) /\ DOMAIN c = ConfigFields
    /\ IsFcn(c.setting) /\ IsFcn(c.task)
    /\ c.auto_off \in Nat

LEMMA NothingNew ==
  ASSUME NEW f, NEW new, DOMAIN new = {}, IsFcn(f)
  PROVE  Updated(f, new) = f
  BY DEF Updated, IsFcn

LEMMA UpdatedIsFcn == ASSUME NEW f, NEW new PROVE IsFcn(Updated(f, new))
  BY DEF Updated, IsFcn

\* A message that does not set update_user_config_flag leaves every part of
\* user_config alone but auto_off.
LEMMA MessageConfig ==
  ASSUME NEW c, Kept(c), NEW m, WellFormed(m), NEW behindTable
  PROVE  LET d == CfgAfter(c, m, behindTable)
         IN  /\ Kept(d) /\ d.version = c.version
             /\ d.gpio = IF GpioAccepted(m, behindTable) THEN Uint8(m.gpio) ELSE c.gpio
             /\ ~UpdatesConfig(m, behindTable) => Flagged(d) = Flagged(c)
<1> DEFINE gpio == IF GpioAccepted(m, behindTable) THEN Uint8(m.gpio) ELSE c.gpio
           auto_off == IF Has(m, "auto_off") THEN m.auto_off % U16 ELSE c.auto_off
           setting == Updated(c.setting, SettingsIn(m))
           task == Updated(c.task, TasksIn(m))
           d == CfgAfter(c, m, behindTable)
<1>1. d = [c EXCEPT !.gpio = gpio, !.auto_off = auto_off,
                    !.setting = setting, !.task = task]
  BY DEF CfgAfter
<1>2. auto_off \in Nat
  <2>1. CASE Has(m, "auto_off")
    <3>1. m.auto_off \in Int /\ U16 \in Nat \ {0}
      BY <2>1, UserJsonAssumption DEF WellFormed
    <3>2. QED
      BY <2>1, <3>1
  <2>2. CASE ~Has(m, "auto_off")
    BY <2>2 DEF Kept
  <2>3. QED
    BY <2>1, <2>2
<1>3. IsFcn(setting) /\ IsFcn(task)
  BY UpdatedIsFcn
<1>4. ASSUME ~UpdatesConfig(m, behindTable)
      PROVE  gpio = c.gpio /\ setting = c.setting /\ task = c.task
  BY <1>4, NothingNew DEF UpdatesConfig, Kept
<1> HIDE DEF gpio, auto_off, setting, task, d
<1>5. /\ IsFcn(d) /\ DOMAIN d = ConfigFields
      /\ d.gpio = gpio /\ d.setting = setting /\ d.task = task
      /\ d.auto_off = auto_off /\ d.version = c.version
  BY <1>1 DEF Kept, ConfigFields, IsFcn
<1>6. ASSUME gpio = c.gpio, setting = c.setting, task = c.task
      PROVE  Flagged(d) = Flagged(c)
  <2>1. /\ Flagged(d) = [x \in ConfigFields |-> IF x = "auto_off" THEN 0 ELSE d[x]]
        /\ Flagged(c) = [x \in ConfigFields |-> IF x = "auto_off" THEN 0 ELSE c[x]]
    BY <1>5 DEF Flagged, Kept, ConfigFields
  <2>2. \A x \in ConfigFields : x # "auto_off" => d[x] = c[x]
    BY <1>5, <1>6 DEF ConfigFields
  <2>3. QED
    BY <2>1, <2>2
<1>7. QED
  BY <1>2, <1>3, <1>4, <1>5, <1>6 DEF Kept, gpio, d

-----------------------------------------------------------------------------
(***************************************************************************)
(* The second delivery of a message.  What the stages up to "on" do to the   *)
(* target is one setting of the light, or none; after it "on" makes of the   *)
(* remembered colour what it made of it the first time.                     *)
(***************************************************************************)

\* The stages of "gpio", "hsl" and "rgb": either none of them sets the light,
\* or the last colour set is the target and the last lit one is remembered,
\* whatever the light was before.
LEMMA ColourStages ==
  ASSUME NEW m, NEW behindTable
  PROVE  \/ \A l : Shaped(l) =>
                LET k == RgbStage(HslStage(GpioStage(l, m, behindTable), m), m)
                IN  Shaped(k) /\ SameTarget(k, l)
         \/ \E now, saved, keeps : \A l : Shaped(l) =>
                LET k == RgbStage(HslStage(GpioStage(l, m, behindTable), m), m)
                IN  /\ Shaped(k)
                    /\ k.now = now /\ k.on = (IF now = Black THEN 0 ELSE 1)
                    /\ k.saved = (IF keeps THEN l.saved ELSE saved)
<1> DEFINE gpio == GpioAccepted(m, behindTable)
           A(l) == GpioStage(l, m, behindTable)
           B(l) == HslStage(l, m)
           C(l) == RgbStage(l, m)
           hsl == HSL2RGB[m.hsl]
           rgb == Uint8(m.rgb)
           now == IF Has(m, "rgb") THEN rgb ELSE IF Has(m, "hsl") THEN hsl ELSE Green
           saved == IF Has(m, "rgb") /\ rgb # Black THEN rgb
                    ELSE IF Has(m, "hsl") /\ hsl # Black THEN hsl ELSE Green
           keeps == /\ ~gpio
                    /\ ~(Has(m, "rgb") /\ rgb # Black)
                    /\ ~(Has(m, "hsl") /\ hsl # Black)
           sets == gpio \/ Has(m, "hsl") \/ Has(m, "rgb")
<1>1. Green # Black
  BY UserJsonAssumption
<1>2. ASSUME NEW l, Shaped(l)
      PROVE  /\ Shaped(A(l))
             /\ IF gpio
                THEN A(l).on = 1 /\ A(l).now = Green /\ A(l).saved = Green
                ELSE SameTarget(A(l), l)
  <2>1. CASE gpio
    <3> DEFINE k == user_led_gpio_config(l, Uint8(m.gpio), behindTable)
    <3>1. Shaped(k)
      BY <1>2 DEF user_led_gpio_config, Shaped
    <3>2. A(l) = user_led_set(k, Green, 0)
      BY <2>1 DEF GpioStage
    <3> HIDE DEF k, A
    <3>3. QED
      BY <1>1, <2>1, <3>1, <3>2, SetSwitches
  <2>2. CASE ~gpio
    BY <1>2, <2>2 DEF GpioStage, SameTarget
  <2>3. QED
    BY <2>1, <2>2
<1>3. ASSUME NEW l, Shaped(l)
      PROVE  /\ Shaped(B(l))
             /\ IF Has(m, "hsl")
                THEN /\ B(l).on = (IF hsl = Black THEN 0 ELSE 1) /\ B(l).now = hsl
                     /\ B(l).saved = (IF hsl = Black THEN l.saved ELSE hsl)
                ELSE SameTarget(B(l), l)
  BY <1>3, SetSwitches DEF HslStage, SameTarget
<1>4. ASSUME NEW l, Shaped(l)
      PROVE  /\ Shaped(C(l))
             /\ IF Has(m, "rgb")
                THEN /\ C(l).on = (IF rgb = Black THEN 0 ELSE 1) /\ C(l).now = rgb
                     /\ C(l).saved = (IF rgb = Black THEN l.saved ELSE rgb)
                ELSE SameTarget(C(l), l)
  BY <1>4, SetSwitches DEF RgbStage, SameTarget
<1>5. ASSUME NEW l, Shaped(l)
      PROVE  /\ Shaped(C(B(A(l))))
             /\ ~sets => SameTarget(C(B(A(l))), l)
             /\ sets => /\ C(B(A(l))).now = now
                        /\ C(B(A(l))).on = (IF now = Black THEN 0 ELSE 1)
                        /\ C(B(A(l))).saved = (IF keeps THEN l.saved ELSE saved)
  <2> HIDE DEF A, B, C, gpio, hsl, rgb
  <2>1. Shaped(A(l)) /\ Shaped(B(A(l))) /\ Shaped(C(B(A(l))))
    BY <1>2, <1>3, <1>4, <1>5
  <2> DEFINE a == A(l)
             b == B(a)
             c == C(b)
  <2>2. IF gpio THEN a.on = 1 /\ a.now = Green /\ a.saved = Green ELSE SameTarget(a, l)
    BY <1>2, <1>5
  <2>3. IF Has(m, "hsl")
        THEN /\ b.on = (IF hsl = Black THEN 0 ELSE 1) /\ b.now = hsl
             /\ b.saved = (IF hsl = Black THEN a.saved ELSE hsl)
        ELSE SameTarget(b, a)
    BY <1>3, <2>1
  <2>4. IF Has(m, "rgb")
        THEN /\ c.on = (IF rgb = Black THEN 0 ELSE 1) /\ c.now = rgb
             /\ c.saved = (IF rgb = Black THEN b.saved ELSE rgb)
        ELSE SameTarget(c, b)
    BY <1>4, <2>1
  <2> HIDE DEF a, b, c
  <2>5. /\ ~sets => SameTarget(c, l)
        /\ sets => /\ c.now = now
                   /\ c.on = (IF now = Black THEN 0 ELSE 1)
                   /\ c.saved = (IF keeps THEN l.saved ELSE saved)
    BY <1>1, <2>2, <2>3, <2>4 DEF SameTarget
  <2>6. QED
    BY <2>1, <2>5 DEF a, b, c
<1>6. CASE ~sets
  BY <1>5, <1>6
<1>7. CASE sets
  <2> HIDE DEF now, saved, keeps
  <2>1. \A l : Shaped(l) =>
            /\ Shaped(C(B(A(l))))
            /\ C(B(A(l))).now = now /\ C(B(A(l))).on = (IF now = Black THEN 0 ELSE 1)
            /\ C(B(A(l))).saved = (IF keeps THEN l.saved ELSE saved)
    BY <1>5, <1>7
  <2>2. QED
    BY <2>1
<1>8. QED
  BY <1>6, <1>7

\* The stage of "on" looks at nothing but the target.
LEMMA OnTwice ==
  ASSUME NEW l, Shaped(l), NEW m, ~(Has(m, "on") /\ m.on = -1)
  PROVE  LET k == OnStage(l, m)
         IN  /\ Shaped(k) /\ k.saved = l.saved
             /\ \A j : Shaped(j) /\ SameTarget(j, k) => SameTarget(OnStage(j, m), k)
             /\ \A j : Shaped(j) /\ SameTarget(j, l) => SameTarget(OnStage(j, m), k)
  BY SetSwitches DEF OnStage, SameTarget

LEMMA LightTwice ==
  ASSUME NEW l, Shaped(l), NEW m, NEW behindTable, ~(Has(m, "on") /\ m.on = -1)
  PROVE  LET l1 == LedAfter(l, m, behindTable)
         IN  SameTarget(LedAfter(l1, m, behindTable), l1)
<1> DEFINE F(k) == RgbStage(HslStage(GpioStage(k, m, behindTable), m), m)
           l1 == LedAfter(l, m, behindTable)
<1>1. l1 = OnStage(F(l), m) /\ LedAfter(l1, m, behindTable) = OnStage(F(l1), m)
  BY DEF LedAfter
<1>2. CASE \A k : Shaped(k) => Shaped(F(k)) /\ SameTarget(F(k), k)
  <2> HIDE DEF F, l1
  <2>1. Shaped(F(l))
    BY <1>2
  <2>2. Shaped(l1)
    BY <1>1, <2>1, OnTwice
  <2>3. Shaped(F(l1)) /\ SameTarget(F(l1), l1)
    BY <1>2, <2>2
  <2>4. SameTarget(OnStage(F(l1), m), l1)
    BY <1>1, <2>1, <2>3, OnTwice
  <2>5. QED
    BY <1>1, <2>4 DEF l1
<1>3. ASSUME NEW now, NEW saved, NEW keeps,
             \A k : Shaped(k) =>
                /\ Shaped(F(k))
                /\ F(k).now = now /\ F(k).on = (IF now = Black THEN 0 ELSE 1)
                /\ F(k).saved = (IF keeps THEN k.saved ELSE saved)
      PROVE  SameTarget(LedAfter(l1, m, behindTable), l1)
  <2> HIDE DEF F, l1
  <2>1. Shaped(F(l))
    BY <1>3
  <2>2. Shaped(l1) /\ l1.saved = F(l).saved
    BY <1>1, <2>1, OnTwice
  <2>3. Shaped(F(l1)) /\ SameTarget(F(l1), F(l))
    BY <1>3, <2>2 DEF SameTarget
  <2>4. SameTarget(OnStage(F(l1), m), OnStage(F(l), m))
    BY <2>1, <2>3, OnTwice
  <2>5. QED
    BY <1>1, <2>4
<1>4. QED
  BY <1>2, <1>3, ColourStages

LEMMA UpdatedTwice ==
  ASSUME NEW f, NEW new
  PROVE  Updated(Updated(f, new), new) = Updated(f, new)
  BY DEF Updated

LEMMA ConfigTwice ==
  ASSUME NEW c, Kept(c), NEW m, WellFormed(m), NEW behindTable
  PROVE  LET d == CfgAfter(c, m, behindTable)
         IN  CfgAfter(d, m, behindTable) = d
<1> DEFINE gpio(e) == IF GpioAccepted(m, behindTable) THEN Uint8(m.gpio) ELSE e.gpio
           auto_off(e) == IF Has(m, "auto_off") THEN m.auto_off % U16 ELSE e.auto_off
           setting(e) == Updated(e.setting, SettingsIn(m))
           task(e) == Updated(e.task, TasksIn(m))
           d == CfgAfter(c, m, behindTable)
<1>1. ASSUME NEW e
      PROVE  CfgAfter(e, m, behindTable)
                = [e EXCEPT !.gpio = gpio(e), !.auto_off = auto_off(e),
                            !.setting = setting(e), !.task = task(e)]
  BY DEF CfgAfter
<1>2. Kept(d)
  BY MessageConfig
<1>3. /\ d.gpio = gpio(c) /\ d.auto_off = auto_off(c)
      /\ d.setting = setting(c) /\ d.task = task(c)
  <2>1. d = [c EXCEPT !.gpio = gpio(c), !.auto_off = auto_off(c),
                      !.setting = setting(c), !.task = task(c)]
    BY <1>1
  <2> HIDE DEF gpio, auto_off, setting, task, d
  <2>2. QED
    BY <2>1 DEF Kept, ConfigFields
<1>4. gpio(d) = d.gpio /\ auto_off(d) = d.auto_off
  BY <1>3
<1>5. setting(d) = d.setting /\ task(d) = d.task
  BY <1>3, UpdatedTwice
<1>6. CfgAfter(d, m, behindTable)
        = [d EXCEPT !.gpio = d.gpio, !.auto_off = d.auto_off,
                    !.setting = d.setting, !.task = d.task]
  BY <1>1, <1>4, <1>5
<1> HIDE DEF d
<1>7. [d EXCEPT !.gpio = d.gpio, !.auto_off = d.auto_off,
                !.setting = d.setting, !.task = d.task] = d
  BY <1>2 DEF Kept, IsFcn, ConfigFields
<1>8. QED
  BY <1>6, <1>7 DEF d

\* A second delivery of the same message finds everything as it leaves it.
LEMMA MessageTwice ==
  ASSUME Shaped(led), Kept(cfg), \A m \in Messages : WellFormed(m)
  PROVE  DuplicateHarmless
<1> SUFFICES ASSUME NEW m \in Messages, NEW behindTable \in BOOLEAN,
                    ~(Has(m, "on") /\ m.on = -1)
             PROVE  LET l1 == LedAfter(led, m, behindTable)
                        l2 == LedAfter(l1, m, behindTable)
                        c1 == CfgAfter(cfg, m, behindTable)
                        c2 == CfgAfter(c1, m, behindTable)
                    IN  /\ <<l2.on, l2.now, l2.saved, l2.pins>>
                             = <<l1.on, l1.now, l1.saved, l1.pins>>
                        /\ c2 = c1
                        /\ AutoOffAfter(timer, l2, c2, m) = AutoOffAfter(timer, l1, c1, m)
  BY DEF DuplicateHarmless
<1> DEFINE l1 == LedAfter(led, m, behindTable)
           l2 == LedAfter(l1, m, behindTable)
           c1 == CfgAfter(cfg, m, behindTable)
           c2 == CfgAfter(c1, m, behindTable)
<1>1. SameTarget(l2, l1)
  BY LightTwice
<1>2. Shaped(l1) /\ (GpioAccepted(m, behindTable) => l1.pins = Uint8(m.gpio))
  BY MessageLight
<1>3. IF GpioAccepted(m, behindTable) THEN l2.pins = Uint8(m.gpio) ELSE SamePins(l2, l1)
  BY <1>2, MessageLight
<1>4. c2 = c1
  BY ConfigTwice
<1> HIDE DEF l1, l2, c1, c2
<1>5. l2.pins = l1.pins
  BY <1>2, <1>3 DEF SamePins
<1>6. AutoOffAfter(timer, l2, c2, m) = AutoOffAfter(timer, l1, c1, m)
  BY <1>1, <1>4 DEF SameTarget, AutoOffAfter
<1>7. QED
  BY <1>1, <1>4, <1>5, <1>6 DEF SameTarget, l1, l2, c1, c2

-----------------------------------------------------------------------------
(***************************************************************************)
(* The invariant.                                                          *)
(***************************************************************************)
Countdowns == [autoOff : Nat \union {Off}, save : Nat \union {Off},
               reboot : Nat \union {Off}]

DeviceInv ==
    /\ Shaped(led) /\ Kept(cfg) /\ Kept(flash)
    /\ timer \in Countdowns
    /\ UnsavedIsScheduled /\ AutoOffOnlyWhenOn /\ PwmDrivesConfig

LEMMA DefaultKept == Kept(DefaultConfig) /\ Kept(ErasedConfig)
  BY DeviceAssumption, UserJsonAssumption
     DEF Config, Kept, IsFcn, ConfigFields, ErasedConfig

LEMMA MessageTimers ==
  ASSUME NEW t \in Countdowns, NEW l, NEW c, NEW m, WellFormed(m),
         c.auto_off \in Nat, NEW behindTable, NEW mqttConnected
  PROVE  TimersAfter(t, l, c, m, behindTable, mqttConnected) \in Countdowns
<1>1. /\ {SECOND, SAVE_DELAY, RESTART_DELAY, SETTING_DELAY} \subseteq Nat
  BY UserJsonAssumption
<1>2. AutoOffAfter(t, l, c, m) \in Nat \union {Off}
  <2>1. Has(m, "auto_off_once") /\ m.auto_off_once > 0 => m.auto_off_once * SECOND \in Nat
    BY <1>1 DEF WellFormed
  <2>2. c.auto_off * SECOND \in Nat
    BY <1>1
  <2>3. t.autoOff \in Nat \union {Off}
    BY DEF Countdowns
  <2>4. QED
    BY <2>1, <2>2, <2>3 DEF AutoOffAfter
<1>3. /\ SaveAfter(t, m, behindTable) \in Nat \union {Off}
      /\ RebootAfter(t, m, mqttConnected) \in Nat \union {Off}
  BY <1>1 DEF SaveAfter, RebootAfter, Countdowns
<1>4. QED
  BY <1>2, <1>3 DEF TimersAfter, Countdowns

LEMMA DeviceInvHandle ==
  ASSUME DeviceInv, NEW m, WellFormed(m), NEW behindTable, NEW mqttConnected,
         Handle(m, behindTable, mqttConnected)
  PROVE  DeviceInv'
<1>1. /\ led' = LedAfter(led, m, behindTable)
      /\ cfg' = CfgAfter(cfg, m, behindTable)
      /\ timer' = TimersAfter(timer, led', cfg', m, behindTable, mqttConnected)
      /\ flash' = flash
  BY DEF Handle
<1>2. /\ Shaped(led) /\ Kept(cfg) /\ Kept(flash) /\ timer \in Countdowns
  BY DEF DeviceInv
<1>3. /\ Shaped(led')
      /\ ~IsLightCommand(m) /\ led.on = 1 => led'.on = 1
      /\ IF GpioAccepted(m, behindTable)
         THEN led'.pins = Uint8(m.gpio) ELSE SamePins(led', led)
  BY <1>1, <1>2, MessageLight
<1>4. /\ Kept(cfg')
      /\ cfg'.gpio = IF GpioAccepted(m, behindTable) THEN Uint8(m.gpio) ELSE cfg.gpio
      /\ ~UpdatesConfig(m, behindTable) => Flagged(cfg') = Flagged(cfg)
  BY <1>1, <1>2, MessageConfig
<1>5. timer' \in Countdowns
  BY <1>1, <1>2, <1>4, MessageTimers DEF Kept
<1>6. UnsavedIsScheduled'
  <2>1. timer'.save = IF UpdatesConfig(m, behindTable) THEN SAVE_DELAY ELSE timer.save
    BY <1>1 DEF TimersAfter, SaveAfter
  <2>2. SAVE_DELAY # Off
    BY UserJsonAssumption
  <2>3. QED
    BY <1>1, <1>4, <2>1, <2>2 DEF DeviceInv, UnsavedIsScheduled
<1>7. AutoOffOnlyWhenOn'
  <2>1. timer'.autoOff = AutoOffAfter(timer, led', cfg', m)
    BY <1>1 DEF TimersAfter
  <2>2. led'.on \in {0, 1}
    BY <1>3 DEF Shaped
  <2>3. CASE IsLightCommand(m)
    BY <2>1, <2>2, <2>3 DEF AutoOffAfter, AutoOffOnlyWhenOn
  <2>4. CASE ~IsLightCommand(m)
    BY <1>3, <2>1, <2>4 DEF AutoOffAfter, AutoOffOnlyWhenOn, DeviceInv
  <2>5. QED
    BY <2>3, <2>4
<1>8. PwmDrivesConfig'
  BY <1>3, <1>4 DEF DeviceInv, PwmDrivesConfig, SamePins
<1>9. QED
  BY <1>1, <1>2, <1>3, <1>4, <1>5, <1>6, <1>7, <1>8 DEF DeviceInv

LEMMA DeviceInvBoot ==
  ASSUME NEW content, Kept(content), Boot(content)
  PROVE  DeviceInv'
<1>1. Kept(BootConfig(content))
  BY DefaultKept DEF BootConfig
<1>2. cfg' = BootConfig(content) /\ flash' = BootConfig(content) /\ timer' = NoTimer
  BY DEF Boot
<1>3. Shaped(led') /\ (led'.led_init_flag => led'.pins = cfg'.gpio)
  BY PowerOnPins DEF Boot
<1>4. timer' \in Countdowns /\ timer'.autoOff = Off
  BY <1>2 DEF NoTimer, Countdowns
<1>5. QED
  BY <1>1, <1>2, <1>3, <1>4
     DEF DeviceInv, UnsavedIsScheduled, AutoOffOnlyWhenOn, PwmDrivesConfig

LEMMA DeviceInvInit == Init => DeviceInv
<1> SUFFICES ASSUME Init PROVE DeviceInv
  OBVIOUS
<1>1. Shaped(led) /\ (led.led_init_flag => led.pins = cfg.gpio)
  BY PowerOnPins DEF Init
<1>2. timer \in Countdowns /\ timer.autoOff = Off
  BY DEF Init, NoTimer, Countdowns
<1>3. QED
  BY <1>1, <1>2, DefaultKept
     DEF Init, DeviceInv, UnsavedIsScheduled, AutoOffOnlyWhenOn, PwmDrivesConfig

\* The auto-off message is a light command that names the switch only.
LEMMA DeviceInvAutoOff ==
  ASSUME DeviceInv, AutoOffFires
  PROVE  DeviceInv'
<1>1. CASE led.on # 0
  <2>1. WellFormed(AutoOffMessage)
    BY DEF WellFormed, Has, AutoOffMessage
  <2>2. Handle(AutoOffMessage, FALSE, FALSE)
    BY <1>1 DEF AutoOffFires
  <2>3. QED
    BY <2>1, <2>2, DeviceInvHandle
<1>2. CASE led.on = 0
  <2>1. timer' = [timer EXCEPT !.autoOff = Off] /\ UNCHANGED <<led, cfg, flash>>
    BY <1>2 DEF AutoOffFires
  <2>2. timer' \in Countdowns /\ timer'.autoOff = Off /\ timer'.save = timer.save
    BY <2>1 DEF DeviceInv, Countdowns
  <2>3. QED
    BY <2>1, <2>2
       DEF DeviceInv, UnsavedIsScheduled, AutoOffOnlyWhenOn, PwmDrivesConfig
<1>3. QED
  BY <1>1, <1>2

\* A countdown that runs is still running a tick later.
LEMMA DeviceInvElapse ==
  ASSUME DeviceInv, Elapse
  PROVE  DeviceInv'
<1>1. /\ timer \in Countdowns /\ Off \notin Nat
      /\ DOMAIN timer = {"autoOff", "save", "reboot"}
  BY UserJsonAssumption DEF DeviceInv, Countdowns
<1>2. /\ timer' = [t \in DOMAIN timer |-> IF timer[t] = Off THEN Off ELSE timer[t] - 1]
      /\ \A t \in DOMAIN timer : timer[t] # 0
      /\ UNCHANGED <<led, cfg, flash>>
  BY DEF Elapse
<1>3. \A t \in DOMAIN timer : /\ timer'[t] \in Nat \union {Off}
                              /\ timer'[t] = Off <=> timer[t] = Off
  <2> TAKE t \in DOMAIN timer
  <2>1. timer[t] \in Nat \union {Off} /\ timer[t] # 0
    BY <1>1, <1>2 DEF Countdowns
  <2>2. CASE timer[t] = Off
    BY <1>2, <2>2
  <2>3. CASE timer[t] # Off
    <3>1. timer'[t] = timer[t] - 1 /\ timer[t] \in Nat
      BY <1>2, <2>1, <2>3
    <3>2. timer'[t] \in Nat
      BY <2>1, <3>1
    <3>3. QED
      BY <1>1, <2>3, <3>2
  <2>4. QED
    BY <2>2, <2>3
<1>4. timer' \in Countdowns
  <2>1. timer' = [autoOff |-> timer'.autoOff, save |-> timer'.save,
                  reboot |-> timer'.reboot]
    BY <1>1, <1>2
  <2>2. /\ timer'.autoOff \in Nat \union {Off} /\ timer'.save \in Nat \union {Off}
        /\ timer'.reboot \in Nat \union {Off}
    BY <1>1, <1>3
  <2>3. QED
    BY <2>1, <2>2 DEF Countdowns
<1>5. /\ timer'.save = Off <=> timer.save = Off
      /\ timer'.autoOff = Off <=> timer.autoOff = Off
  BY <1>1, <1>3
<1>6. QED
  BY <1>2, <1>4, <1>5
     DEF DeviceInv, UnsavedIsScheduled, AutoOffOnlyWhenOn, PwmDrivesConfig

LEMMA DeviceInvNext == DeviceInv /\ [Next]_vars => DeviceInv'
<1> SUFFICES ASSUME DeviceInv, [Next]_vars
             PROVE  DeviceInv'
  OBVIOUS
<1>1. CASE IgnoreMessage \/ UNCHANGED vars
  <2>1. UNCHANGED <<led, cfg, flash, timer>>
    BY <1>1 DEF IgnoreMessage, vars
  <2>2. QED
    BY <2>1 DEF DeviceInv, UnsavedIsScheduled, AutoOffOnlyWhenOn, PwmDrivesConfig
<1>2. CASE HandleMessage
  BY <1>2, DeviceInvHandle, DeviceAssumption DEF HandleMessage
<1>3. CASE CrashOnMessage \/ RebootFires \/ PowerCut
  <2>1. Boot(flash) /\ Kept(flash)
    BY <1>3 DEF CrashOnMessage, RebootFires, PowerCut, DeviceInv
  <2>2. QED
    BY <2>1, DeviceInvBoot
<1>4. CASE SaveTorn
  BY <1>4, DeviceInvBoot, DefaultKept DEF SaveTorn
<1>5. CASE LedTick
  <2>1. /\ led' = user_led_timer_func(led) /\ UNCHANGED <<cfg, flash, timer>>
        /\ Shaped(led)
    BY <1>5 DEF LedTick, DeviceInv
  <2>2. Shaped(led') /\ SamePins(led', led) /\ (led.on = 1 => led'.on = 1)
    BY <2>1, TickKeepsOn
  <2>3. QED
    BY <2>1, <2>2 DEF DeviceInv, UnsavedIsScheduled, AutoOffOnlyWhenOn,
                      PwmDrivesConfig, SamePins
<1>6. CASE AutoOffFires
  BY <1>6, DeviceInvAutoOff
<1>7. CASE SaveFires
  <2>1. flash' = cfg /\ timer' = [timer EXCEPT !.save = Off] /\ UNCHANGED <<led, cfg>>
    BY <1>7 DEF SaveFires
  <2>2. timer' \in Countdowns /\ timer'.autoOff = timer.autoOff
    BY <2>1 DEF DeviceInv, Countdowns
  <2>3. QED
    BY <2>1, <2>2 DEF DeviceInv, UnsavedIsScheduled, AutoOffOnlyWhenOn, PwmDrivesConfig
<1>8. CASE Elapse
  BY <1>8, DeviceInvElapse
<1>9. QED
  BY <1>1, <1>2, <1>3, <1>4, <1>5, <1>6, <1>7, <1>8 DEF Next

-----------------------------------------------------------------------------
\* Whatever is in effect and flagged but not yet in flash has a save pending,
\* for every message and every delay (user_json.c:139-157, 412-420).
THEOREM UnsavedStaysScheduled == Spec => []UnsavedIsScheduled
<1>1. DeviceInv => UnsavedIsScheduled
  BY DEF DeviceInv
<1>2. QED
  BY DeviceInvInit, DeviceInvNext, <1>1, PTL DEF Spec

\* The auto-off timer never runs for a lamp that is off (user_json.c:240-262).
THEOREM AutoOffFollowsSwitch == Spec => []AutoOffOnlyWhenOn
<1>1. DeviceInv => AutoOffOnlyWhenOn
  BY DEF DeviceInv
<1>2. QED
  BY DeviceInvInit, DeviceInvNext, <1>1, PTL DEF Spec

\* The PWM drives the pins that user_config names, refused pin settings and
\* restarts included (user_json.c:132-157).
THEOREM PwmFollowsConfig == Spec => []PwmDrivesConfig
<1>1. DeviceInv => PwmDrivesConfig
  BY DEF DeviceInv
<1>2. QED
  BY DeviceInvInit, DeviceInvNext, <1>1, PTL DEF Spec

\* MQTT may deliver a message twice: but for the toggle, the second delivery
\* changes neither the target of the light, nor the remembered colour, nor the
\* pins, nor the configuration, nor what the auto-off timer is set to, for
\* every message and in every state (user_mqtt.c:52, 57; user_json.c:85-262).
THEOREM DuplicatesHarmless == Spec => []DuplicateHarmless
<1>1. DeviceInv => DuplicateHarmless
  BY MessageTwice, DeviceAssumption DEF DeviceInv
<1>2. QED
  BY DeviceInvInit, DeviceInvNext, <1>1, PTL DEF Spec

-----------------------------------------------------------------------------
(***************************************************************************)
(* The abstract store.  A start takes flash as it finds it only when its     *)
(* version is the one this firmware writes, so that has to be known of       *)
(* everything that is ever in effect or saved.                              *)
(***************************************************************************)
Versioned == cfg.version = USER_CONFIG_VERSION /\ flash.version = USER_CONFIG_VERSION

\* What flash held and the defaults are restored as they are, and an erased
\* sector gives the defaults.
LEMMA Restored ==
    /\ DefaultConfig.version = USER_CONFIG_VERSION
    /\ BootConfig(ErasedConfig) = DefaultConfig
    /\ Versioned => BootConfig(flash) = flash
<1>1. DefaultConfig.version = USER_CONFIG_VERSION
  BY DeviceAssumption DEF Config
<1>2. ErasedConfig.version = 255
  BY DeviceAssumption DEF Config, ErasedConfig
<1>3. QED
  BY <1>1, <1>2 DEF BootConfig, Versioned, USER_CONFIG_VERSION

LEMMA VersionedNext == DeviceInv /\ Versioned /\ [Next]_vars => Versioned'
<1> SUFFICES ASSUME DeviceInv, Versioned, [Next]_vars PROVE Versioned'
  OBVIOUS
<1>1. CASE \E content : Boot(content)
  <2>1. PICK content : Boot(content)
    BY <1>1
  <2>2. BootConfig(content).version = USER_CONFIG_VERSION
    BY Restored DEF BootConfig
  <2>3. QED
    BY <2>1, <2>2 DEF Boot, Versioned
<1>2. ASSUME NEW m, WellFormed(m), NEW behindTable, NEW mqttConnected,
             Handle(m, behindTable, mqttConnected)
      PROVE  Versioned'
  BY <1>2, MessageConfig DEF Handle, Versioned, DeviceInv
<1>3. WellFormed(AutoOffMessage)
  BY DEF WellFormed, Has, AutoOffMessage
<1>4. CASE UNCHANGED <<cfg, flash>>
  BY <1>4 DEF Versioned
<1>5. CASE HandleMessage
  BY <1>2, <1>5, DeviceAssumption DEF HandleMessage
<1>6. CASE AutoOffFires
  BY <1>2, <1>3, <1>4, <1>6 DEF AutoOffFires
<1>7. CASE SaveFires
  BY <1>7 DEF SaveFires, Versioned
<1>8. CASE CrashOnMessage \/ SaveTorn \/ RebootFires \/ PowerCut
  BY <1>1, <1>8 DEF CrashOnMessage, SaveTorn, RebootFires, PowerCut
<1>9. CASE IgnoreMessage \/ LedTick \/ Elapse \/ UNCHANGED vars
  BY <1>4, <1>9 DEF IgnoreMessage, LedTick, Elapse, vars
<1>10. QED
  BY <1>5, <1>6, <1>7, <1>8, <1>9 DEF Next

LEMMA BootRestarts ==
  ASSUME Versioned, Boot(flash)
  PROVE  Store!Restart
<1>1. cfg' = flash /\ flash' = flash /\ timer'.save = Off
  BY Restored DEF Boot, NoTimer
<1>2. QED
  BY <1>1 DEF Store!Restart, Flagged

LEMMA BootTears ==
  ASSUME Boot(ErasedConfig), timer.save # Off
  PROVE  Store!Tear
<1>1. cfg' = DefaultConfig /\ flash' = DefaultConfig /\ timer'.save = Off
  BY Restored DEF Boot, NoTimer
<1>2. QED
  BY <1>1 DEF Store!Tear, Flagged

\* A message that sets update_user_config_flag is a change; any other leaves
\* what is saved of the configuration, and the save timer, alone.
LEMMA HandleChanges ==
  ASSUME DeviceInv, NEW m, WellFormed(m), NEW behindTable, NEW mqttConnected,
         Handle(m, behindTable, mqttConnected)
  PROVE  Store!Change \/ UNCHANGED Store!vars
<1>1. /\ flash' = flash /\ cfg' = CfgAfter(cfg, m, behindTable)
      /\ timer'.save = IF UpdatesConfig(m, behindTable) THEN SAVE_DELAY ELSE timer.save
  BY DEF Handle, TimersAfter, SaveAfter
<1>2. Flagged(flash)' = Flagged(flash)
  BY <1>1 DEF Flagged
<1>3. CASE UpdatesConfig(m, behindTable)
  <2>1. timer'.save # Off
    BY <1>1, <1>3, UserJsonAssumption
  <2>2. QED
    BY <1>2, <2>1 DEF Store!Change
<1>4. CASE ~UpdatesConfig(m, behindTable)
  <2>1. Flagged(cfg') = Flagged(cfg)
    BY <1>1, <1>4, MessageConfig DEF DeviceInv
  <2>2. Flagged(cfg)' = Flagged(cfg)
    BY <2>1 DEF Flagged
  <2>3. timer'.save = timer.save
    BY <1>1, <1>4
  <2>4. QED
    BY <1>2, <2>2, <2>3 DEF Store!vars
<1>5. QED
  BY <1>3, <1>4

LEMMA NextStores ==
  DeviceInv /\ Versioned /\ [Next]_vars => [Store!Next]_(Store!vars)
<1> SUFFICES ASSUME DeviceInv, Versioned, [Next]_vars
             PROVE  [Store!Next]_(Store!vars)
  OBVIOUS
<1>1. CASE UNCHANGED <<cfg, flash>> /\ (timer'.save = Off <=> timer.save = Off)
  <2>1. Flagged(cfg)' = Flagged(cfg) /\ Flagged(flash)' = Flagged(flash)
    BY <1>1 DEF Flagged
  <2>2. QED
    BY <1>1, <2>1 DEF Store!vars
<1>2. CASE HandleMessage
  BY <1>2, HandleChanges, DeviceAssumption DEF HandleMessage, Store!Next
<1>3. CASE CrashOnMessage \/ RebootFires \/ PowerCut
  BY <1>3, BootRestarts DEF CrashOnMessage, RebootFires, PowerCut, Store!Next
<1>4. CASE SaveTorn
  <2>1. timer.save # Off
    BY <1>4, UserJsonAssumption DEF SaveTorn
  <2>2. QED
    BY <1>4, <2>1, BootTears DEF SaveTorn, Store!Next
<1>5. CASE AutoOffFires
  <2>1. CASE led.on # 0
    <3>1. WellFormed(AutoOffMessage)
      BY DEF WellFormed, Has, AutoOffMessage
    <3>2. QED
      BY <1>5, <2>1, <3>1, HandleChanges DEF AutoOffFires, Store!Next
  <2>2. CASE led.on = 0
    <3>1. /\ timer' = [timer EXCEPT !.autoOff = Off]
          /\ UNCHANGED <<cfg, flash>>
      BY <1>5, <2>2 DEF AutoOffFires
    <3>2. timer'.save = timer.save
      BY <3>1 DEF DeviceInv, Countdowns
    <3>3. QED
      BY <1>1, <3>1, <3>2
  <2>3. QED
    BY <2>1, <2>2
<1>6. CASE SaveFires
  <2>1. /\ timer.save = 0 /\ flash' = cfg /\ cfg' = cfg
        /\ timer' = [timer EXCEPT !.save = Off]
    BY <1>6 DEF SaveFires
  <2>2. timer.save # Off /\ timer'.save = Off
    BY <2>1, UserJsonAssumption DEF DeviceInv, Countdowns
  <2>3. Flagged(cfg)' = Flagged(cfg) /\ Flagged(flash)' = Flagged(cfg)
    BY <2>1 DEF Flagged
  <2>4. QED
    BY <2>2, <2>3 DEF Store!Next, Store!Save
<1>7. CASE Elapse
  <2>1. /\ timer.save \in Nat \union {Off} /\ "save" \in DOMAIN timer
        /\ Off \notin Nat
    BY UserJsonAssumption DEF DeviceInv, Countdowns
  <2>2. /\ UNCHANGED <<cfg, flash>> /\ timer.save # 0
        /\ timer'.save = IF timer.save = Off THEN Off ELSE timer.save - 1
    BY <1>7, <2>1 DEF Elapse
  <2>3. timer.save # Off => timer.save - 1 \in Nat
    BY <2>1, <2>2
  <2>4. QED
    BY <1>1, <2>1, <2>2, <2>3
<1>8. CASE IgnoreMessage \/ LedTick \/ UNCHANGED vars
  <2>1. UNCHANGED <<cfg, flash, timer>>
    BY <1>8 DEF IgnoreMessage, LedTick, vars
  <2>2. QED
    BY <1>1, <2>1
<1>9. QED
  BY <1>2, <1>3, <1>4, <1>5, <1>6, <1>7, <1>8 DEF Next

\* Every behaviour of the device is one of the abstract store, for every set of
\* messages and every delay: what is due is stored as it is in effect or lost
\* to a start, and a start restores what was stored (user_setting.c:36-87,
\* user_json.c:139-157, 412-420).  That a save comes in the end is left to TLC.
THEOREM DeviceRefinesStore == Spec => Store!SafeSpec
<1>1. Init => Store!Init
  <2> SUFFICES ASSUME Init PROVE Store!Init
    OBVIOUS
  <2>1. cfg = DefaultConfig /\ flash = DefaultConfig /\ timer.save = Off
    BY DEF Init, NoTimer
  <2>2. QED
    BY <2>1 DEF Store!Init
<1>2. Init => Versioned
  BY Restored DEF Init, Versioned
<1>3. QED
  BY <1>1, <1>2, DeviceInvInit, DeviceInvNext, VersionedNext, NextStores, PTL
     DEF Spec, Store!SafeSpec

=============================================================================
