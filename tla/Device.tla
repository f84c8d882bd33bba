-------------------------------- MODULE Device --------------------------------
(***************************************************************************)
(* The lamp as its users see it: messages, the LED engine, the auto-off      *)
(* timer, the configuration in RAM and in flash, delayed saves, delayed      *)
(* restarts and power failures (user_json.c, user_led.c, user_setting.c and *)
(* user_init).  Callbacks run to completion in any order; countdowns that    *)
(* are due hold time back, so a callback may be late only in the sense that *)
(* other callbacks due at the same tick, or a message, run first.           *)
(***************************************************************************)
EXTENDS UserJson

CONSTANTS
    Messages,           \* the messages that may arrive
    DefaultConfig,      \* user_config as user_setting_init restores it
    BootModes,          \* may the lamp start in access-point mode?
    MaxMessages         \* bound: the messages that arrive altogether

USER_CONFIG_VERSION == 2

\* user_config_t, with the strings' contents left out.
Config ==
    [version  : {USER_CONFIG_VERSION},
     gpio     : [Channels -> Level],
     auto_off : 0 .. (U16 - 1),
     setting  : [SettingFields -> STRING],
     task     : [0 .. (TIME_TASK_NUM - 1) -> Task]]

ASSUME DeviceAssumption ==
    /\ BootModes \subseteq BOOLEAN
    /\ MaxMessages \in Nat
    /\ DefaultConfig \in Config
    /\ \A m \in Messages : WellFormed(m)

VARIABLES
    led,                \* the LED engine
    cfg,                \* user_config
    flash,              \* the sector at SETTING_SAVE_ADDR
    gradient,           \* the static variable of user_json_deal_cb
    timer,              \* countdowns: autoOff, save and reboot
    sent                \* messages that have arrived

vars == <<led, cfg, flash, gradient, timer, sent>>

\* A sector that was erased and not written has no valid version byte.
ErasedConfig == [DefaultConfig EXCEPT !.version = 255]

NoTimer == [autoOff |-> Off, save |-> Off, reboot |-> Off]

-----------------------------------------------------------------------------
(***************************************************************************)
(* user_init, with `content' in the flash sector.                           *)
(***************************************************************************)

BootConfig(content) ==
    IF content.version = USER_CONFIG_VERSION THEN content ELSE DefaultConfig

Boot(content) ==
    /\ cfg' = BootConfig(content)
    /\ flash' = BootConfig(content)
    /\ \E behindTable \in BOOLEAN, softap \in BootModes :
           led' = PowerOn(cfg'.gpio, behindTable, softap)
    /\ gradient' = 0
    /\ timer' = NoTimer

Init ==
    /\ cfg = DefaultConfig
    /\ flash = DefaultConfig
    /\ \E behindTable \in BOOLEAN, softap \in BootModes :
           led = PowerOn(cfg.gpio, behindTable, softap)
    /\ gradient = 0
    /\ timer = NoTimer
    /\ sent = 0

-----------------------------------------------------------------------------
(***************************************************************************)
(* Messages.                                                               *)
(***************************************************************************)

Handle(m, behindTable, mqttConnected) ==
    /\ led' = LedAfter(led, m, behindTable)
    /\ cfg' = CfgAfter(cfg, m, behindTable)
    /\ timer' = TimersAfter(timer, led', cfg', m, behindTable, mqttConnected)
    /\ gradient' = GradientOf(m)
    /\ UNCHANGED flash

Arrives(m) == m \in Messages /\ sent < MaxMessages /\ sent' = sent + 1

\* The static gradient is reset before the message is even looked at.
IgnoreMessage ==
    \E m \in Messages :
        /\ IsReport(m) \/ IsForeign(m)
        /\ Arrives(m)
        /\ gradient' = 0
        /\ UNCHANGED <<led, cfg, flash, timer>>

HandleMessage ==
    \E m \in Messages, behindTable, mqttConnected \in BOOLEAN :
        /\ ~IsReport(m) /\ ~IsForeign(m) /\ ~FollowsNull(m)
        /\ Arrives(m)
        /\ Handle(m, behindTable, mqttConnected)

\* The null pointer is followed before the reply is sent and the save timer is
\* armed: the processor traps and the lamp starts again.
CrashOnMessage ==
    \E m \in Messages :
        /\ ~IsReport(m) /\ ~IsForeign(m) /\ FollowsNull(m)
        /\ Arrives(m)
        /\ Boot(flash)

-----------------------------------------------------------------------------
(***************************************************************************)
(* Timers.                                                                 *)
(***************************************************************************)

LedTick ==
    /\ led.timer # "idle"
    /\ led' = user_led_timer_func(led)
    /\ UNCHANGED <<cfg, flash, gradient, timer, sent>>

\* Mutant: the timer's message switches the lamp on.
AutoOnMessage ==
    [bad |-> {}, via |-> "mqtt", mac |-> "mine", on |-> 1, gradient |-> gradient]

\* The message that _json_timer_auto_off_fun builds; it names this lamp.
AutoOffMessage ==
    [bad |-> {}, via |-> "mqtt", mac |-> "mine", on |-> 0, gradient |-> gradient]

\* _json_timer_auto_off_fun; nothing in its message depends on the pin table
\* or on MQTT.
AutoOffFires ==
    /\ timer.autoOff = 0
    /\ IF led.on # 0
       THEN Handle(AutoOffMessage, FALSE, FALSE)
       ELSE timer' = [timer EXCEPT !.autoOff = Off]
            /\ UNCHANGED <<led, cfg, flash, gradient>>
    /\ UNCHANGED sent

\* _json_timer_fun: zlib_setting_save_flash.
SaveFires ==
    /\ timer.save = 0
    /\ flash' = cfg
    /\ timer' = [timer EXCEPT !.save = Off]
    /\ UNCHANGED <<led, cfg, gradient, sent>>

\* Power fails between the erase and the write of the save.
SaveTorn == timer.save = 0 /\ Boot(ErasedConfig) /\ UNCHANGED sent

\* The restart that zlib_reboot_delay scheduled.
RebootFires == timer.reboot = 0 /\ Boot(flash) /\ UNCHANGED sent

\* Power fails, or an update restarts the lamp.
PowerCut == Boot(flash) /\ UNCHANGED sent

Elapse ==
    /\ \A t \in DOMAIN timer : timer[t] # 0
    /\ \E t \in DOMAIN timer : timer[t] # Off
    /\ timer' = [t \in DOMAIN timer |->
                    IF timer[t] = Off THEN Off ELSE timer[t] - 1]
    /\ UNCHANGED <<led, cfg, flash, gradient, sent>>

-----------------------------------------------------------------------------

Next ==
    \/ IgnoreMessage
    \/ HandleMessage
    \/ CrashOnMessage
    \/ LedTick
    \/ AutoOffFires
    \/ SaveFires
    \/ SaveTorn
    \/ RebootFires
    \/ PowerCut
    \/ Elapse

\* Time goes on and the SDK runs the timers that are due.
Fairness ==
    /\ WF_vars(LedTick)
    /\ WF_vars(AutoOffFires)
    /\ WF_vars(SaveFires)
    /\ WF_vars(RebootFires)
    /\ WF_vars(Elapse)

Spec == Init /\ [][Next]_vars /\ Fairness

-----------------------------------------------------------------------------
(***************************************************************************)
(* Properties.                                                             *)
(***************************************************************************)

\* The part of user_config whose changes set update_user_config_flag.
Flagged(c) == [c EXCEPT !.auto_off = 0]

\* Whatever is in effect and not yet in flash is going to be: no callback,
\* failed pin setting or restart leaves a difference behind without a save
\* pending (user_json.c:139-157, 412-420).
UnsavedIsScheduled == Flagged(cfg) # Flagged(flash) => timer.save # Off

\* The auto-off timer runs only while the lamp is on, whatever switched it off
\* and whatever was set to run it (user_json.c:240-262).
AutoOffOnlyWhenOn == timer.autoOff # Off => led.on = 1

\* The PWM drives the pins that user_config names, also after a refused pin
\* setting has been taken back and after a restart (user_json.c:132-157).
PwmDrivesConfig == led.led_init_flag => led.pins = cfg.gpio

\* MQTT delivers with QoS 1, so a message may come twice: apart from the toggle
\* the second delivery changes neither the target of the light, nor the
\* remembered colour, nor the configuration, nor whether auto-off runs.
DuplicateHarmless ==
    \A m \in Messages, behindTable \in BOOLEAN :
        ~(Has(m, "on") /\ m.on = -1) =>
            LET l1 == LedAfter(led, m, behindTable)
                l2 == LedAfter(l1, m, behindTable)
                c1 == CfgAfter(cfg, m, behindTable)
                c2 == CfgAfter(c1, m, behindTable)
            IN  /\ <<l2.on, l2.now, l2.saved, l2.pins>> = <<l1.on, l1.now, l1.saved, l1.pins>>
                /\ c2 = c1
                /\ AutoOffAfter(timer, l2, c2, m) = AutoOffAfter(timer, l1, c1, m)

Store == INSTANCE Store WITH
    Default <- Flagged(DefaultConfig),
    Records <- FALSE,
    config  <- Flagged(cfg),
    stored  <- Flagged(flash),
    due     <- timer.save # Off

\* The device implements the abstract store: only a save changes flash, and to
\* what is in effect; nothing is accepted without a save to come; a start
\* restores what flash holds, whatever trap, restart or power failure caused it
\* (user_setting.c:36-87, user_json.c:139-157, 412-420).
ImplementsStore == Store!Spec

\* Once messages stop arriving, flash holds what is in effect, for good.
EventuallySaved == <>[](Flagged(cfg) = Flagged(flash))

\* A running auto-off timer ends: the lamp switches itself off unless a message
\* or a restart stops the timer first.
AutoOffComes == timer.autoOff # Off ~> timer.autoOff = Off

\* user_config.h:53 calls user_config_t the structure of the parameters the
\* user saves, and auto_off is one of them: with no save pending, a power
\* failure would restore the configuration in effect.
EverythingIsSaved == timer.save = Off => cfg = flash

\* user_json.c:31 promises that data to be kept is saved after a delay: a
\* restart that the lamp itself schedules does not forget an accepted change.
RestartKeepsChanges ==
    [][ RebootFires /\ timer.save # 0 => Flagged(cfg') = Flagged(cfg) ]_vars

\* user_config.h:64 calls auto_off the time after which the lamp switches off
\* "after each time it is switched on".
SwitchedOnIsTimed ==
    [][ led.on = 0 /\ led'.on = 1 /\ cfg'.auto_off > 0 => timer'.autoOff # Off ]_vars

=============================================================================
