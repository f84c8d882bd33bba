------------------------------- MODULE MCDevice -------------------------------
(***************************************************************************)
(* One channel, one time task, a tick of 200 ms: all orders of a few         *)
(* messages, the timers, power failures and restarts.                       *)
(***************************************************************************)
EXTENDS Device, TLC

MCChannels == {"w"}

W(level) == [ch \in MCChannels |-> level]

MCWhite == W(31)
MCGreen == W(6)
MCHueColour == [h \in 0 .. 1 |-> W(1)]
MCHSL2RGB == [hsl \in {"dim"} |-> W(1)]
MCOff == -1

DefaultTask ==
    [hour |-> 12, minute |-> 0, repeat |-> 127, on |-> 0,
     colour |-> W(0), gradient |-> 1]

\* Task 0 set to a colour and a repeat mask that do not fit their fields.
NewTask ==
    [i \in 0 .. 0 |-> [DefaultTask EXCEPT !.on = 1, !.repeat = 256, !.colour = W(33)]]

MCDefaultConfig ==
    [version  |-> 2,
     gpio     |-> W(15),
     auto_off |-> 0,
     setting  |-> [f \in SettingFields |-> "default"],
     task     |-> [i \in 0 .. 0 |-> DefaultTask]]

Mine == [bad |-> {}, via |-> "mqtt", mac |-> "mine"]

AllMqtt == [f \in MqttFields |-> "new"]

MCMessages ==
    {Mine @@ [on |-> -1],
     Mine @@ [on |-> 1, gradient |-> 1, auto_off_once |-> 2],
     Mine @@ [rgb |-> W(20), gradient |-> 1],
     Mine @@ [rgb |-> W(32)],
     Mine @@ [hsl |-> "dim", on |-> 0],
     [Mine EXCEPT !.bad = {"rgb", "auto_off_once"}] @@ [auto_off |-> 1],
     Mine @@ [auto_off |-> 5],
     Mine @@ [gpio |-> W(5)],
     Mine @@ [gpio |-> W(16)],
     Mine @@ [gpio |-> W(6), cmd |-> "restart", on |-> 1],
     Mine @@ [setting |-> AllMqtt],
     Mine @@ [setting |-> [wifi_ssid |-> "new"], task |-> NewTask],
     Mine @@ [task |-> NewTask],
     Mine @@ [cmd |-> "device report"],
     [Mine EXCEPT !.mac = "other"] @@ [on |-> 0],
     [Mine EXCEPT !.mac = "other", !.via = "tcp"] @@ [on |-> 1]}

=============================================================================
