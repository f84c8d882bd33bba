------------------------------- MODULE UserRtc -------------------------------
(***************************************************************************)
(* The time tasks: src/app/user/user_rtc.c composed with the device.  The    *)
(* real-time clock calls _user_rtc_fun every second; the first call in a     *)
(* minute looks for a task that is due and hands its colour to               *)
(* user_json_deal_cb like a message.                                        *)
(***************************************************************************)
EXTENDS Device, Sequences

CONSTANT Calendar       \* the minutes the clock goes through, over and over

TaskIndex == 0 .. (TIME_TASK_NUM - 1)

\* The default tasks are off (user_setting.c:70-83).
ASSUME RtcAssumption ==
    /\ \A x \in TaskIndex : DefaultConfig.task[x].on = 0
    /\ Calendar \in Seq([week : 1 .. 7, hour : 0 .. 23, minute : 0 .. 59])
    /\ Len(Calendar) > 1
    /\ \A n \in DOMAIN Calendar :
           Calendar[n].minute # Calendar[IF n = Len(Calendar) THEN 1 ELSE n + 1].minute

VARIABLES
    now,                \* external: the clock, an index of Calendar
    minute_last,        \* the static variable of _user_rtc_fun
    done                \* history: the one-shot tasks run since they were set

rtcVars == <<now, minute_last, done>>

allVars == <<vars, rtcVars>>

-----------------------------------------------------------------------------

\* Bit b of a mask.
Bit(mask, b) == (mask \div 2^b) % 2 = 1

\* Without any bit a task runs on every day.
OnThisDay(repeat, week) == repeat = 0 \/ Bit(repeat, week - 1)

IsDue(task, time) ==
    /\ task.on # 0
    /\ task.minute = time.minute
    /\ task.hour = time.hour
    /\ OnThisDay(task.repeat, time.week)

\* Mutant: a task without any bit stays on.
IsOnceByBit(task) == Bit(task.repeat, 7)

\* Bit 7, or no bit at all: the task runs once.
IsOnce(task) == task.repeat = 0 \/ Bit(task.repeat, 7)

TaskMessage(task) ==
    [bad |-> {}, via |-> "mqtt", mac |-> "mine",
     rgb |-> task.colour, gradient |-> task.gradient]

\* Mutant: a one-shot task that has run is not saved.
RunTaskUnsaved(x) ==
    LET m == TaskMessage(cfg.task[x])
    IN  /\ led' = LedAfter(led, m, FALSE)
        /\ cfg' = IF IsOnce(cfg.task[x]) THEN [cfg EXCEPT !.task[x].on = 0] ELSE cfg
        /\ flash' = flash
        /\ timer' = TimersAfter(timer, led', cfg, m, FALSE, FALSE)
        /\ gradient' = GradientOf(m)
        /\ done' = IF IsOnce(cfg.task[x]) THEN done \cup {x} ELSE done

\* Mutant: the configuration is saved before the task is switched off.
RunTaskSavedTooSoon(x) ==
    LET m == TaskMessage(cfg.task[x])
    IN  /\ led' = LedAfter(led, m, FALSE)
        /\ cfg' = IF IsOnce(cfg.task[x]) THEN [cfg EXCEPT !.task[x].on = 0] ELSE cfg
        /\ flash' = IF IsOnce(cfg.task[x]) THEN cfg ELSE flash
        /\ timer' = TimersAfter(timer, led', cfg, m, FALSE, FALSE)
        /\ gradient' = GradientOf(m)
        /\ done' = IF IsOnce(cfg.task[x]) THEN done \cup {x} ELSE done

\* The loop stops at the first task that is due: x.  A one-shot task is
\* switched off and saved at once, with everything else in user_config.
RunTask(x) ==
    LET m == TaskMessage(cfg.task[x])
    IN  /\ led' = LedAfter(led, m, FALSE)
        /\ cfg' = IF IsOnce(cfg.task[x]) THEN [cfg EXCEPT !.task[x].on = 0] ELSE cfg
        /\ flash' = IF IsOnce(cfg.task[x]) THEN cfg' ELSE flash
        /\ timer' = TimersAfter(timer, led', cfg, m, FALSE, FALSE)
        /\ gradient' = GradientOf(m)
        /\ done' = IF IsOnce(cfg.task[x]) THEN done \cup {x} ELSE done

FirstDue(x, time) ==
    /\ IsDue(cfg.task[x], time)
    /\ \A y \in TaskIndex : y < x => ~IsDue(cfg.task[y], time)

RtcCallback ==
    /\ minute_last # Calendar[now].minute
    /\ minute_last' = Calendar[now].minute
    /\ \/ \E x \in TaskIndex : FirstDue(x, Calendar[now]) /\ RunTask(x)
       \/ /\ \A x \in TaskIndex : ~IsDue(cfg.task[x], Calendar[now])
          /\ UNCHANGED <<led, cfg, flash, timer, gradient, done>>
    /\ UNCHANGED <<now, sent>>

\* The clock calls back 60 times a minute, so no minute passes unseen.
MinutePasses ==
    /\ minute_last = Calendar[now].minute
    /\ now' = IF now = Len(Calendar) THEN 1 ELSE now + 1
    /\ UNCHANGED <<vars, minute_last, done>>

\* The time server corrects the clock; counted with the messages.
ClockCorrected ==
    /\ sent < MaxMessages
    /\ sent' = sent + 1
    /\ now' \in DOMAIN Calendar
    /\ UNCHANGED <<led, cfg, flash, timer, gradient, minute_last, done>>

-----------------------------------------------------------------------------

RtcInit ==
    /\ Init
    /\ now \in DOMAIN Calendar
    /\ minute_last = 80
    /\ done = {}

\* A task that a message replaces has not run yet.
Messaged ==
    /\ HandleMessage
    /\ done' = {x \in done : cfg'.task[x] = cfg.task[x]}
    /\ UNCHANGED <<now, minute_last>>

Running ==
    /\ IgnoreMessage \/ LedTick \/ AutoOffFires \/ SaveFires \/ Elapse
    /\ UNCHANGED rtcVars

\* Power fails between the erase and the write that record a one-shot task.
TaskSaveTorn ==
    /\ minute_last # Calendar[now].minute
    /\ \E x \in TaskIndex : FirstDue(x, Calendar[now]) /\ IsOnce(cfg.task[x])
    /\ Boot(ErasedConfig)
    /\ UNCHANGED sent

\* The lamp starts again, at whatever time.
Restarted ==
    /\ CrashOnMessage \/ SaveTorn \/ TaskSaveTorn \/ RebootFires \/ PowerCut
    /\ minute_last' = 80
    /\ now' \in DOMAIN Calendar
    /\ UNCHANGED done

RtcNext ==
    \/ Messaged
    \/ Running
    \/ Restarted
    \/ RtcCallback
    \/ MinutePasses
    \/ ClockCorrected

\* Time goes on: the clock calls back, minutes pass, due timers fire.
RtcFairness ==
    /\ WF_allVars(RtcCallback)
    /\ WF_allVars(MinutePasses)
    /\ WF_allVars(SaveFires /\ UNCHANGED rtcVars)
    /\ WF_allVars(Elapse /\ UNCHANGED rtcVars)

RtcSpec == RtcInit /\ [][RtcNext]_allVars /\ RtcFairness

-----------------------------------------------------------------------------
(***************************************************************************)
(* Properties.                                                             *)
(***************************************************************************)

\* A one-shot task that has run is off in RAM and in flash: no restart, power
\* failure, torn save or pending save of something else makes it run again
\* (user_rtc.c:56-60).
DoneStaysOff ==
    \A x \in done : cfg.task[x].on = 0 /\ flash.task[x].on = 0

\* A one-shot task without a repeat mask that no task before it in the table
\* shares its minute with.
Awaited(x) ==
    /\ cfg.task[x].on # 0
    /\ cfg.task[x].repeat = 0
    /\ \E n \in DOMAIN Calendar : IsDue(cfg.task[x], Calendar[n])
    /\ \A y \in TaskIndex, n \in DOMAIN Calendar :
           y < x /\ IsDue(cfg.task[x], Calendar[n]) => ~IsDue(cfg.task[y], Calendar[n])

\* When restarts cease, such a task runs, or a message takes it back: the
\* minute is not missed, however the clock was corrected before.
OneShotRuns ==
    <>[][~Restarted]_allVars =>
        \A x \in TaskIndex : Awaited(x) ~> ~Awaited(x)

\* The lamp with its tasks is a store that also records changes of its own at
\* once, the one-shot tasks that have run (user_rtc.c:56-60); a due save may
\* wait here for timers that RtcFairness does not make fire.
TaskStore == INSTANCE Store WITH
    Default <- Flagged(DefaultConfig),
    Records <- TRUE,
    config  <- Flagged(cfg),
    stored  <- Flagged(flash),
    due     <- timer.save # Off

=============================================================================
