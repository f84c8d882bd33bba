----------------------------- MODULE UserRtcProofs -----------------------------
(***************************************************************************)
(* The device with its clock and its time tasks: the invariants of Device    *)
(* still hold, and a one-shot task that has run stays off, for every table   *)
(* of tasks, every calendar, every set of messages and every delay.  What    *)
(* the messages do to the tasks is followed in RAM; flash only ever gets     *)
(* what RAM holds, and RAM what flash held or the defaults.                  *)
(***************************************************************************)
EXTENDS UserRtc, DeviceProofs

\* The table of tasks, as far as these invariants look at it.
Tabled(c) == DOMAIN c.task = TaskIndex /\ \A x \in TaskIndex : "on" \in DOMAIN c.task[x]

RtcInv ==
    /\ DeviceInv
    /\ Tabled(cfg) /\ Tabled(flash)
    /\ done \subseteq TaskIndex
    /\ DoneStaysOff

LEMMA DefaultTabled ==
    /\ Tabled(DefaultConfig) /\ Tabled(ErasedConfig)
    /\ \A x \in TaskIndex : DefaultConfig.task[x].on = 0
<1>1. DefaultConfig.task \in [TaskIndex -> Task] /\ ErasedConfig.task = DefaultConfig.task
  BY DeviceAssumption DEF Config, ErasedConfig, TaskIndex
<1>2. \A x \in TaskIndex : "on" \in DOMAIN DefaultConfig.task[x]
  BY <1>1 DEF Task
<1>3. QED
  BY <1>1, <1>2, RtcAssumption DEF Tabled

\* A message leaves the table a table, and one without tasks leaves it alone.
LEMMA MessageTable ==
  ASSUME NEW c, Kept(c), Tabled(c), NEW m, NEW behindTable
  PROVE  LET d == CfgAfter(c, m, behindTable)
         IN  Tabled(d) /\ (~Has(m, "task") => d.task = c.task)
<1> DEFINE new == TasksIn(m)
           d == CfgAfter(c, m, behindTable)
<1>1. d.task = Updated(c.task, new)
  BY DEF CfgAfter, Kept, ConfigFields
<1>2. DOMAIN d.task = TaskIndex
  BY <1>1 DEF Tabled, Updated
<1>3. ASSUME NEW x \in DOMAIN new PROVE "on" \in DOMAIN new[x]
  BY <1>3 DEF TasksIn
<1>4. ~Has(m, "task") => DOMAIN new = {}
  BY DEF TasksIn
<1> HIDE DEF new, d
<1>5. ASSUME NEW x \in TaskIndex PROVE "on" \in DOMAIN d.task[x]
  BY <1>1, <1>3 DEF Tabled, Updated
<1>6. ~Has(m, "task") => d.task = c.task
  BY <1>1, <1>4, NothingNew DEF Kept
<1>7. QED
  BY <1>2, <1>5, <1>6 DEF Tabled, d

-----------------------------------------------------------------------------
LEMMA RtcInvInit == RtcInit => RtcInv
  BY DeviceInvInit, DefaultTabled DEF RtcInit, Init, RtcInv, DoneStaysOff

LEMMA RtcInvBoot ==
  ASSUME RtcInv, NEW content, Kept(content), Tabled(content), Boot(content),
         content = flash \/ content = ErasedConfig, done' = done
  PROVE  RtcInv'
<1>1. DeviceInv'
  BY DeviceInvBoot
<1>2. /\ cfg' = flash' /\ flash' = BootConfig(content)
      /\ BootConfig(content) = content \/ BootConfig(content) = DefaultConfig
  BY DEF Boot, BootConfig
<1>3. ErasedConfig.task = DefaultConfig.task
  BY DEF ErasedConfig
<1>4. Tabled(flash')
  BY <1>2, DefaultTabled
<1>5. \A x \in done : flash'.task[x].on = 0
  BY <1>2, <1>3, DefaultTabled DEF RtcInv, DoneStaysOff
<1>6. QED
  BY <1>1, <1>2, <1>4, <1>5 DEF RtcInv, DoneStaysOff

\* A task that is due reaches the light like a message, and a one-shot task is
\* then off in RAM and in flash.
LEMMA RtcInvRunTask ==
  ASSUME RtcInv, NEW x \in TaskIndex, RunTask(x)
  PROVE  RtcInv'
<1> DEFINE m == TaskMessage(cfg.task[x])
           off == [cfg EXCEPT !.task[x].on = 0]
<1>1. /\ led' = LedAfter(led, m, FALSE)
      /\ timer' = TimersAfter(timer, led', cfg, m, FALSE, FALSE)
      /\ IF IsOnce(cfg.task[x])
         THEN cfg' = off /\ flash' = off /\ done' = done \union {x}
         ELSE cfg' = cfg /\ flash' = flash /\ done' = done
  BY DEF RunTask
<1>2. WellFormed(m) /\ IsLightCommand(m) /\ ~GpioAccepted(m, FALSE)
  BY DEF WellFormed, IsLightCommand, Present, GpioAccepted, Has, TaskMessage
<1>3. /\ Kept(cfg) /\ Tabled(cfg) /\ Shaped(led) /\ timer \in Countdowns
      /\ done \subseteq TaskIndex /\ \A y \in done : cfg.task[y].on = 0
  BY DEF RtcInv, DeviceInv, DoneStaysOff
<1>4. /\ Kept(off) /\ Tabled(off) /\ off.gpio = cfg.gpio
      /\ off.task[x].on = 0 /\ \A y \in TaskIndex : y # x => off.task[y] = cfg.task[y]
  BY <1>3 DEF Kept, ConfigFields, IsFcn, Tabled
<1> HIDE DEF m, off
<1>5. Shaped(led') /\ SamePins(led', led)
  BY <1>1, <1>2, <1>3, MessageLight
<1>6. timer' \in Countdowns
  BY <1>1, <1>2, <1>3, MessageTimers DEF Kept
<1>7. UnsavedIsScheduled'
  <2>1. timer'.save = timer.save \/ timer'.save = SAVE_DELAY
    BY <1>1 DEF TimersAfter, SaveAfter
  <2>2. SAVE_DELAY # Off
    BY UserJsonAssumption
  <2>3. CASE IsOnce(cfg.task[x])
    <3>1. cfg' = flash'
      BY <1>1, <2>3
    <3>2. Flagged(cfg') = Flagged(flash')
      BY <3>1
    <3>3. Flagged(cfg)' = Flagged(cfg') /\ Flagged(flash)' = Flagged(flash')
      BY DEF Flagged
    <3>4. QED
      BY <3>2, <3>3 DEF UnsavedIsScheduled
  <2>4. CASE ~IsOnce(cfg.task[x])
    <3>1. cfg' = cfg /\ flash' = flash
      BY <1>1, <2>4
    <3>2. Flagged(cfg)' = Flagged(cfg) /\ Flagged(flash)' = Flagged(flash)
      BY <3>1 DEF Flagged
    <3>3. QED
      BY <2>1, <2>2, <3>2 DEF RtcInv, DeviceInv, UnsavedIsScheduled
  <2>5. QED
    BY <2>3, <2>4
<1>8. AutoOffOnlyWhenOn'
  <2>1. timer'.autoOff = AutoOffAfter(timer, led', cfg, m)
    BY <1>1 DEF TimersAfter
  <2>2. led'.on \in {0, 1}
    BY <1>5 DEF Shaped
  <2>3. QED
    BY <1>2, <2>1, <2>2 DEF AutoOffAfter, AutoOffOnlyWhenOn
<1>9. PwmDrivesConfig'
  BY <1>1, <1>4, <1>5 DEF RtcInv, DeviceInv, PwmDrivesConfig, SamePins
<1>10. DeviceInv'
  BY <1>1, <1>4, <1>5, <1>6, <1>7, <1>8, <1>9 DEF RtcInv, DeviceInv
<1>11. DoneStaysOff' /\ done' \subseteq TaskIndex
  <2>1. CASE IsOnce(cfg.task[x])
    <3>1. cfg' = off /\ flash' = off /\ done' = done \union {x}
      BY <1>1, <2>1
    <3>2. \A y \in done \union {x} : off.task[y].on = 0
      BY <1>3, <1>4
    <3>3. QED
      BY <1>3, <3>1, <3>2 DEF DoneStaysOff
  <2>2. CASE ~IsOnce(cfg.task[x])
    BY <1>1, <2>2 DEF RtcInv, DoneStaysOff
  <2>3. QED
    BY <2>1, <2>2
<1>12. QED
  BY <1>1, <1>4, <1>10, <1>11 DEF RtcInv

\* Only a message changes the table otherwise, and what it changes is not done.
LEMMA RtcInvMessaged ==
  ASSUME RtcInv, Messaged
  PROVE  RtcInv'
<1>1. PICK m \in Messages, behindTable, mqttConnected \in BOOLEAN :
        Handle(m, behindTable, mqttConnected)
  BY DEF Messaged, HandleMessage
<1>2. WellFormed(m)
  BY DeviceAssumption
<1>3. DeviceInv'
  BY <1>1, <1>2, DeviceInvHandle DEF RtcInv
<1>4. cfg' = CfgAfter(cfg, m, behindTable) /\ flash' = flash
  BY <1>1 DEF Handle
<1>5. Tabled(cfg')
  BY <1>4, MessageTable DEF RtcInv, DeviceInv
<1>6. done' = {x \in done : cfg'.task[x] = cfg.task[x]}
  BY DEF Messaged
<1>7. QED
  BY <1>3, <1>4, <1>5, <1>6 DEF RtcInv, DoneStaysOff

LEMMA RtcInvRunning ==
  ASSUME RtcInv, Running
  PROVE  RtcInv'
<1>1. DeviceInv' /\ done' = done
  BY DeviceInvNext DEF RtcInv, Running, Next, rtcVars
<1>2. CASE SaveFires
  BY <1>1, <1>2 DEF SaveFires, RtcInv, DoneStaysOff
<1>3. CASE AutoOffFires
  <2>1. flash' = flash /\ (cfg' = cfg \/ cfg' = CfgAfter(cfg, AutoOffMessage, FALSE))
    BY <1>3 DEF AutoOffFires, Handle
  <2>2. ~Has(AutoOffMessage, "task")
    BY DEF Has, AutoOffMessage
  <2>3. Tabled(cfg') /\ cfg'.task = cfg.task
    BY <2>1, <2>2, MessageTable, ZenonT(60) DEF RtcInv, DeviceInv
  <2>4. QED
    BY <1>1, <2>1, <2>3 DEF RtcInv, DoneStaysOff
<1>4. CASE IgnoreMessage \/ LedTick \/ Elapse
  <2>1. cfg' = cfg /\ flash' = flash
    BY <1>4 DEF IgnoreMessage, LedTick, Elapse
  <2>2. QED
    BY <1>1, <2>1 DEF RtcInv, DoneStaysOff
<1>5. QED
  BY <1>2, <1>3, <1>4 DEF Running

LEMMA RtcInvNext == RtcInv /\ [RtcNext]_allVars => RtcInv'
<1> SUFFICES ASSUME RtcInv, [RtcNext]_allVars
             PROVE  RtcInv'
  OBVIOUS
<1>1. CASE Messaged
  BY <1>1, RtcInvMessaged
<1>2. CASE Running
  BY <1>2, RtcInvRunning
<1>3. CASE Restarted
  <2>1. done' = done
    BY <1>3 DEF Restarted
  <2>2. Boot(flash) \/ Boot(ErasedConfig)
    BY <1>3 DEF Restarted, CrashOnMessage, SaveTorn, TaskSaveTorn, RebootFires, PowerCut
  <2>3. /\ Kept(flash) /\ Tabled(flash)
        /\ Kept(ErasedConfig) /\ Tabled(ErasedConfig)
    BY DefaultKept, DefaultTabled DEF RtcInv, DeviceInv
  <2>4. CASE Boot(flash)
    BY <2>1, <2>3, <2>4, RtcInvBoot
  <2>5. CASE Boot(ErasedConfig)
    BY <2>1, <2>3, <2>5, RtcInvBoot
  <2>6. QED
    BY <2>2, <2>4, <2>5
<1>4. CASE UNCHANGED <<led, cfg, flash, timer, done>>
  BY <1>4 DEF RtcInv, DeviceInv, DoneStaysOff, UnsavedIsScheduled,
              AutoOffOnlyWhenOn, PwmDrivesConfig
<1>5. CASE RtcCallback
  BY <1>4, <1>5, RtcInvRunTask DEF RtcCallback
<1>6. CASE MinutePasses \/ ClockCorrected \/ UNCHANGED allVars
  BY <1>4, <1>6 DEF MinutePasses, ClockCorrected, allVars, vars, rtcVars
<1>7. QED
  BY <1>1, <1>2, <1>3, <1>5, <1>6 DEF RtcNext

-----------------------------------------------------------------------------
\* A one-shot task that has run is off in RAM and in flash, whatever restarts,
\* power failures, torn saves and messages come after (user_rtc.c:56-60).
THEOREM OneShotsStayDone == RtcSpec => []DoneStaysOff
<1>1. RtcInv => DoneStaysOff
  BY DEF RtcInv
<1>2. QED
  BY RtcInvInit, RtcInvNext, <1>1, PTL DEF RtcSpec

\* With time tasks too, which switch the lamp and save by themselves, nothing
\* flagged is left unsaved, the auto-off timer runs only for a lit lamp, and
\* the PWM drives the configured pins (user_rtc.c:36-63).
THEOREM TasksKeepDevice ==
    RtcSpec => [](UnsavedIsScheduled /\ AutoOffOnlyWhenOn /\ PwmDrivesConfig)
<1>1. RtcInv => UnsavedIsScheduled /\ AutoOffOnlyWhenOn /\ PwmDrivesConfig
  BY DEF RtcInv, DeviceInv
<1>2. QED
  BY RtcInvInit, RtcInvNext, <1>1, PTL DEF RtcSpec

-----------------------------------------------------------------------------
(***************************************************************************)
(* The abstract store, which here also records changes of its own.           *)
(***************************************************************************)

\* What the device without tasks does is also something this store may do.
LEMMA StoreIsTaskStore ==
    [Store!Next]_(Store!vars) => [TaskStore!Next]_(TaskStore!vars)
  BY DEF Store!Next, Store!Change, Store!Save, Store!Record, Store!Restart,
         Store!Tear, Store!vars,
         TaskStore!Next, TaskStore!Change, TaskStore!Save, TaskStore!Record,
         TaskStore!Restart, TaskStore!Tear, TaskStore!vars

LEMMA TaskTearBoots ==
  ASSUME Boot(ErasedConfig)
  PROVE  TaskStore!Tear
<1>1. cfg' = DefaultConfig /\ flash' = DefaultConfig /\ timer'.save = Off
  BY Restored DEF Boot, NoTimer
<1>2. QED
  BY <1>1 DEF TaskStore!Tear, Flagged

\* A one-shot task is recorded at once, and any other changes nothing that is
\* saved; the save timer goes on in both cases.
LEMMA TaskRecords ==
  ASSUME RtcInv, NEW x \in TaskIndex, RunTask(x)
  PROVE  [TaskStore!Next]_(TaskStore!vars)
<1> DEFINE m == TaskMessage(cfg.task[x])
<1>1. ~UpdatesConfig(m, FALSE)
  BY DEF UpdatesConfig, GpioAccepted, SettingsIn, TasksIn, Has, TaskMessage,
         SettingFields, MqttFields
<1>2. timer'.save = timer.save
  BY <1>1 DEF RunTask, TimersAfter, SaveAfter
<1>3. CASE IsOnce(cfg.task[x])
  <2>1. flash' = cfg'
    BY <1>3 DEF RunTask
  <2>2. Flagged(flash)' = Flagged(cfg)'
    BY <2>1 DEF Flagged
  <2>3. QED
    BY <1>2, <2>2 DEF TaskStore!Next, TaskStore!Record
<1>4. CASE ~IsOnce(cfg.task[x])
  <2>1. cfg' = cfg /\ flash' = flash
    BY <1>4 DEF RunTask
  <2>2. Flagged(cfg)' = Flagged(cfg) /\ Flagged(flash)' = Flagged(flash)
    BY <2>1 DEF Flagged
  <2>3. QED
    BY <1>2, <2>2 DEF TaskStore!vars
<1>5. QED
  BY <1>3, <1>4

LEMMA VersionedRtcNext == RtcInv /\ Versioned /\ [RtcNext]_allVars => Versioned'
<1> SUFFICES ASSUME RtcInv, Versioned, [RtcNext]_allVars PROVE Versioned'
  OBVIOUS
<1>1. CASE [Next]_vars
  BY <1>1, VersionedNext DEF RtcInv
<1>2. CASE TaskSaveTorn
  <2>1. cfg' = DefaultConfig /\ flash' = DefaultConfig
    BY <1>2, Restored DEF TaskSaveTorn, Boot
  <2>2. QED
    BY <2>1, Restored DEF Versioned
<1>3. ASSUME NEW x \in TaskIndex, RunTask(x)
      PROVE  Versioned'
  <2>1. /\ cfg' = cfg \/ cfg' = [cfg EXCEPT !.task[x].on = 0]
        /\ flash' = flash \/ flash' = cfg'
    BY <1>3 DEF RunTask
  <2>2. cfg'.version = cfg.version
    BY <2>1 DEF RtcInv, DeviceInv, Kept, ConfigFields
  <2>3. QED
    BY <2>1, <2>2 DEF Versioned
<1>4. CASE UNCHANGED <<cfg, flash>>
  BY <1>4 DEF Versioned
<1>5. CASE RtcCallback
  BY <1>3, <1>4, <1>5 DEF RtcCallback
<1>6. CASE MinutePasses \/ ClockCorrected \/ UNCHANGED allVars
  BY <1>4, <1>6 DEF MinutePasses, ClockCorrected, allVars, vars, rtcVars
<1>7. CASE Messaged \/ Running \/ Restarted
  BY <1>1, <1>2, <1>7 DEF Messaged, Running, Restarted, Next
<1>8. QED
  BY <1>5, <1>6, <1>7 DEF RtcNext

LEMMA RtcNextStores ==
  RtcInv /\ Versioned /\ [RtcNext]_allVars => [TaskStore!Next]_(TaskStore!vars)
<1> SUFFICES ASSUME RtcInv, Versioned, [RtcNext]_allVars
             PROVE  [TaskStore!Next]_(TaskStore!vars)
  OBVIOUS
<1>1. CASE [Next]_vars
  BY <1>1, NextStores, StoreIsTaskStore DEF RtcInv
<1>2. CASE TaskSaveTorn
  BY <1>2, TaskTearBoots DEF TaskSaveTorn, TaskStore!Next
<1>3. CASE UNCHANGED <<cfg, flash, timer>>
  <2>1. Flagged(cfg)' = Flagged(cfg) /\ Flagged(flash)' = Flagged(flash)
    BY <1>3 DEF Flagged
  <2>2. QED
    BY <1>3, <2>1 DEF TaskStore!vars
<1>4. CASE RtcCallback
  BY <1>3, <1>4, TaskRecords DEF RtcCallback
<1>5. CASE MinutePasses \/ ClockCorrected \/ UNCHANGED allVars
  BY <1>3, <1>5 DEF MinutePasses, ClockCorrected, allVars, vars, rtcVars
<1>6. CASE Messaged \/ Running \/ Restarted
  BY <1>1, <1>2, <1>6 DEF Messaged, Running, Restarted, Next
<1>7. QED
  BY <1>4, <1>5, <1>6 DEF RtcNext

\* With time tasks the lamp is still a store, one that records the one-shot
\* tasks at once: they are the only changes that reach flash without having
\* been due, and a power failure in the middle of recording leaves the defaults
\* (user_rtc.c:36-63, user_setting.c:36-87).
THEOREM TasksRefineStore == RtcSpec => TaskStore!SafeSpec
<1>1. RtcInit => TaskStore!Init
  <2> SUFFICES ASSUME RtcInit PROVE TaskStore!Init
    OBVIOUS
  <2>1. cfg = DefaultConfig /\ flash = DefaultConfig /\ timer.save = Off
    BY DEF RtcInit, Init, NoTimer
  <2>2. QED
    BY <2>1 DEF TaskStore!Init
<1>2. RtcInit => Versioned
  BY Restored DEF RtcInit, Init, Versioned
<1>3. QED
  BY <1>1, <1>2, RtcInvInit, RtcInvNext, VersionedRtcNext, RtcNextStores, PTL
     DEF RtcSpec, TaskStore!SafeSpec

=============================================================================
