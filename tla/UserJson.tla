------------------------------- MODULE UserJson -------------------------------
(***************************************************************************)
(* user_json_deal_cb of src/app/user/user_json.c: what one message does to   *)
(* the LED engine, to user_config in RAM and to the timers, stage by stage   *)
(* in the order of the code.                                                *)
(*                                                                         *)
(* A message is a record.  Its fields are the JSON items that are present   *)
(* and well formed; "bad" is the set of the names of those that are present *)
(* but of the wrong type or size, "via" the channel it came by and "mac"     *)
(* whom it names.  A duration is counted in ticks of a common unit.         *)
(***************************************************************************)
EXTENDS LedEngine

CONSTANTS
    Green,              \* (0,51,0,0), shown when new pins are accepted
    HSL2RGB,            \* HSL2RGB[hsl]: the colour of each hsl that is sent
    U16,                \* the number of values of a uint16_t
    TIME_TASK_NUM,      \* time tasks in user_config (5)
    Off,                \* the value of a countdown that is disarmed
    SECOND,             \* ticks per second
    SAVE_DELAY,         \* ticks of 800 ms
    RESTART_DELAY,      \* ticks of 2000 ms
    SETTING_DELAY       \* ticks of 1000 ms

ASSUME UserJsonAssumption ==
    /\ Green \in Colour \ {Black}
    /\ \A hsl \in DOMAIN HSL2RGB : HSL2RGB[hsl] \in Colour
    /\ U16 \in Nat \ {0}
    /\ TIME_TASK_NUM \in Nat
    /\ Off \notin Nat
    /\ {SECOND, SAVE_DELAY, RESTART_DELAY, SETTING_DELAY} \subseteq Nat \ {0}

MqttFields == {"mqtt_uri", "mqtt_port", "mqtt_user", "mqtt_password"}

WifiFields == {"wifi_ssid", "wifi_password"}

SettingFields == {"name"} \cup MqttFields

Has(m, item) == item \in DOMAIN m

Present(m, item) == Has(m, item) \/ item \in m.bad

\* Storing ints into the uint8_t parameters and fields of the four channels.
Uint8(v) == [ch \in Channels |-> v[ch] % U8]

\* Storing an int into an int8_t.
Int8(i) == ((i + 128) % 256) - 128

-----------------------------------------------------------------------------
(***************************************************************************)
(* Which messages are handled.                                              *)
(***************************************************************************)

\* The numbers of a message are read as ints (valueint).
WellFormed(m) ==
    \A item \in {"auto_off", "auto_off_once"} : Has(m, item) => m[item] \in Int

IsReport(m) == Has(m, "cmd") /\ m.cmd = "device report"

\* Another lamp's message is dropped, unless it came by HTTP or TCP.
IsForeign(m) == m.mac = "other" /\ m.via \notin {"http", "tcp"}

\* The reply of a setting reads the ssid and the password as soon as one of
\* the two is there: with the other missing it follows a null pointer.
FollowsNull(m) ==
    /\ Has(m, "setting")
    /\ \E f, g \in WifiFields : f \in DOMAIN m.setting /\ g \notin DOMAIN m.setting

-----------------------------------------------------------------------------
(***************************************************************************)
(* The stages that change the light.                                        *)
(***************************************************************************)

AllDifferent(pins) == \A c, d \in Channels : pins[c] = pins[d] => c = d

GpioAccepted(m, behindTable) ==
    /\ Has(m, "gpio")
    /\ AllDifferent(Uint8(m.gpio))
    /\ user_led_gpio_ok(Uint8(m.gpio), behindTable)

GradientOf(m) == IF Has(m, "gradient") /\ m.gradient = 1 THEN 1 ELSE 0

GpioStage(l, m, behindTable) ==
    IF GpioAccepted(m, behindTable)
    THEN user_led_set(user_led_gpio_config(l, Uint8(m.gpio), behindTable), Green, 0)
    ELSE l

HslStage(l, m) ==
    IF Has(m, "hsl") THEN user_led_set(l, HSL2RGB[m.hsl], GradientOf(m)) ELSE l

RgbStage(l, m) ==
    IF Has(m, "rgb") THEN user_led_set(l, Uint8(m.rgb), GradientOf(m)) ELSE l

\* Mutant: "on":1 toggles.
OnStageToggling(l, m) ==
    CASE Has(m, "on") /\ (m.on = 0 \/ l.on = 1) ->
            user_led_set(l, Black, GradientOf(m))
      [] Has(m, "on") /\ m.on # 0 /\ l.on = 0 ->
            user_led_set(l, l.saved, GradientOf(m))
      [] OTHER -> l

\* "on" is 0, -1 (toggle) or positive.
OnStage(l, m) ==
    CASE Has(m, "on") /\ (m.on = 0 \/ (m.on = -1 /\ l.on = 1)) ->
            user_led_set(l, Black, GradientOf(m))
      [] Has(m, "on") /\ (m.on > 0 \/ (m.on = -1 /\ l.on = 0)) ->
            user_led_set(l, l.saved, GradientOf(m))
      [] OTHER -> l

LedAfter(l, m, behindTable) ==
    OnStage(RgbStage(HslStage(GpioStage(l, m, behindTable), m), m), m)

-----------------------------------------------------------------------------
(***************************************************************************)
(* The stages that change user_config.                                      *)
(***************************************************************************)

SettingsIn(m) ==
    IF Has(m, "setting")
    THEN [f \in DOMAIN m.setting \cap SettingFields |-> m.setting[f]]
    ELSE << >>

\* user_time_task_config_t.
Task ==
    [hour     : -128 .. 127,
     minute   : -128 .. 127,
     repeat   : 0 .. 255,    \* bit 7: once; bits 0 to 6: Monday to Sunday
     on       : -128 .. 127,
     colour   : Colour,
     gradient : {0, 1}]

\* json_task_analysis: a complete task_x replaces task x.
TasksIn(m) ==
    IF Has(m, "task")
    THEN [x \in DOMAIN m.task \cap 0 .. (TIME_TASK_NUM - 1) |->
            [hour     |-> Int8(m.task[x].hour),
             minute   |-> Int8(m.task[x].minute),
             repeat   |-> m.task[x].repeat % 256,
             on       |-> Int8(m.task[x].on),
             colour   |-> Uint8(m.task[x].colour),
             gradient |-> IF m.task[x].gradient = 1 THEN 1 ELSE 0]]
    ELSE << >>

Updated(f, new) == [x \in DOMAIN f |-> IF x \in DOMAIN new THEN new[x] ELSE f[x]]

\* Mutant: a refused pin setting is not taken back.
CfgKeepingPins(c, m, behindTable) ==
    [c EXCEPT
        !.gpio     = IF Has(m, "gpio") THEN Uint8(m.gpio) ELSE @,
        !.auto_off = IF Has(m, "auto_off") THEN m.auto_off % U16 ELSE @,
        !.setting  = Updated(@, SettingsIn(m)),
        !.task     = Updated(@, TasksIn(m))]

CfgAfter(c, m, behindTable) ==
    [c EXCEPT
        !.gpio     = IF GpioAccepted(m, behindTable) THEN Uint8(m.gpio) ELSE @,
        !.auto_off = IF Has(m, "auto_off") THEN m.auto_off % U16 ELSE @,
        !.setting  = Updated(@, SettingsIn(m)),
        !.task     = Updated(@, TasksIn(m))]

\* Mutant: time tasks do not set the flag.
UpdatesConfigWithoutTasks(m, behindTable) ==
    GpioAccepted(m, behindTable) \/ DOMAIN SettingsIn(m) # {}

\* update_user_config_flag: auto_off does not set it.
UpdatesConfig(m, behindTable) ==
    \/ GpioAccepted(m, behindTable)
    \/ DOMAIN SettingsIn(m) # {}
    \/ DOMAIN TasksIn(m) # {}

-----------------------------------------------------------------------------
(***************************************************************************)
(* The stages that change the timers: auto-off, the delayed save and the     *)
(* delayed restart.  l and c are the light and the configuration after the  *)
(* stages above.                                                            *)
(***************************************************************************)

IsLightCommand(m) == \E item \in {"hsl", "rgb", "on"} : Present(m, item)

\* Mutant: the timer is armed for a lamp that was switched off, too.
AutoOffAlways(t, l, c, m) ==
    CASE ~IsLightCommand(m) -> t.autoOff
      [] IsLightCommand(m) /\ Present(m, "auto_off_once") ->
            IF Has(m, "auto_off_once") /\ m.auto_off_once > 0
            THEN m.auto_off_once * SECOND
            ELSE Off
      [] OTHER -> IF c.auto_off > 0 THEN c.auto_off * SECOND ELSE Off

AutoOffAfter(t, l, c, m) ==
    CASE ~IsLightCommand(m) -> t.autoOff
      [] IsLightCommand(m) /\ l.on = 0 -> Off
      [] IsLightCommand(m) /\ l.on # 0 /\ Present(m, "auto_off_once") ->
            IF Has(m, "auto_off_once") /\ m.auto_off_once > 0
            THEN m.auto_off_once * SECOND
            ELSE Off
      [] OTHER -> IF c.auto_off > 0 THEN c.auto_off * SECOND ELSE Off

\* Mutant: a message that changes nothing disarms a save that is pending.
SaveDisarmed(t, m, behindTable) ==
    IF UpdatesConfig(m, behindTable) THEN SAVE_DELAY ELSE Off

SaveAfter(t, m, behindTable) ==
    IF UpdatesConfig(m, behindTable) THEN SAVE_DELAY ELSE t.save

\* zlib_reboot_delay: for the restart command and, later in the handler, for a
\* complete set of MQTT settings that arrives while MQTT is not connected.
RebootAfter(t, m, mqttConnected) ==
    IF MqttFields \subseteq DOMAIN SettingsIn(m) /\ ~mqttConnected
    THEN SETTING_DELAY
    ELSE IF Has(m, "cmd") /\ m.cmd = "restart"
    THEN RESTART_DELAY
    ELSE t.reboot

TimersAfter(t, l, c, m, behindTable, mqttConnected) ==
    [autoOff |-> AutoOffAfter(t, l, c, m),
     save    |-> SaveAfter(t, m, behindTable),
     reboot  |-> RebootAfter(t, m, mqttConnected)]

=============================================================================
