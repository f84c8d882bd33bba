------------------------------ MODULE MCUserRtc ------------------------------
(***************************************************************************)
(* Two tasks and a week of two days with two minutes each.                   *)
(***************************************************************************)
EXTENDS UserRtc, TLC

MCChannels == {"w"}

W(level) == [ch \in MCChannels |-> level]

MCWhite == W(31)
MCGreen == W(6)
MCHueColour == [h \in 0 .. 1 |-> W(1)]
MCHSL2RGB == [hsl \in {"dim"} |-> W(1)]
MCOff == -1

At(week, minute) == [week |-> week, hour |-> 7, minute |-> minute]

MCCalendar == <<At(1, 0), At(1, 1), At(7, 0), At(7, 1)>>

DefaultTask ==
    [hour |-> 12, minute |-> 0, repeat |-> 127, on |-> 0,
     colour |-> W(0), gradient |-> 1]

MCDefaultConfig ==
    [version  |-> 2,
     gpio     |-> W(15),
     auto_off |-> 0,
     setting  |-> [f \in SettingFields |-> "default"],
     task     |-> [x \in 0 .. 1 |-> DefaultTask]]

Mine == [bad |-> {}, via |-> "mqtt", mac |-> "mine"]

\* At 7:01: once; once on a Sunday; every Monday, off, with a gradient of 2.
Once == [DefaultTask EXCEPT !.hour = 7, !.minute = 1, !.on = 1, !.repeat = 0,
                            !.colour = W(20), !.gradient = 0]
OnceOnSunday == [Once EXCEPT !.repeat = 128 + 64]
Mondays == [Once EXCEPT !.repeat = 1, !.colour = W(0), !.gradient = 2]

Set(x, task) == [task |-> [y \in {x} |-> task]]

MCMessages ==
    {Mine @@ Set(0, Mondays), Mine @@ Set(0, OnceOnSunday), Mine @@ Set(1, Once),
     Mine @@ Set(1, DefaultTask) @@ [auto_off |-> 1, on |-> 1],
     Mine @@ [cmd |-> "restart"]}

=============================================================================
