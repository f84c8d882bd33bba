------------------------------ MODULE BootTimes ------------------------------
(***************************************************************************)
(* The power-cycle counter of src/app/user/user_setting.c: five starts in a  *)
(* row, none of which lasts 4 seconds, put the lamp into Wi-Fi              *)
(* configuration mode (user_main.c:42).  The count lives in a flash sector   *)
(* of its own, and rewriting it is an erase followed by a write; power may   *)
(* fail before, between and after the two.                                  *)
(***************************************************************************)
EXTENDS Integers

CONSTANTS
    MaxBootTimes,       \* the largest value stored (200)
    ConfigBoots,        \* configuration mode when the count exceeds this (4)
    Erased,             \* the word read from an erased sector (0xFFFFFFFF)
    BootBound           \* bound: the starts of a streak that TLC explores

ASSUME BootTimesAssumption ==
    /\ MaxBootTimes \in Nat
    /\ ConfigBoots \in 0 .. MaxBootTimes
    /\ Erased \in Nat
    /\ Erased > MaxBootTimes
    /\ BootBound \in Nat

VARIABLES
    word,               \* flash: the word at SETTING_SAVE_BOOT_TIMES_ADDR
    pc,                 \* where user_init or the timer callback is
    boot_times,         \* the local variable, then the value returned
    configMode,         \* the argument of zlib_wifi_init
    fired,              \* timer_setting has fired since the last power-on
    boots,              \* history: starts since a start that lasted 4 s
    lost                \* history: one of them ended before it was counted

vars == <<word, pc, boot_times, configMode, fired, boots, lost>>

\* Not yet counted: the write in user_setting_init has not been done.
Counting == {"read", "fix_erase", "fix_write", "count", "erase", "write"}

Started == {"wifi", "run", "clear_write"}

Init ==
    /\ word = Erased
    /\ pc = "off"
    /\ boot_times = 0
    /\ configMode = FALSE
    /\ fired = FALSE
    /\ boots = 0
    /\ lost = FALSE

-----------------------------------------------------------------------------
(***************************************************************************)
(* Power.                                                                  *)
(***************************************************************************)

\* A start continues the streak unless the one before lived long enough.
PowerOn ==
    /\ pc = "off"
    /\ fired \/ boots < BootBound
    /\ pc' = "read"
    /\ boots' = IF fired THEN 1 ELSE boots + 1
    /\ lost' = (lost /\ ~fired)
    /\ fired' = FALSE
    /\ UNCHANGED <<word, boot_times, configMode>>

\* Power fails, or the firmware restarts: RAM is lost, flash is kept.
PowerCut ==
    /\ pc # "off"
    /\ pc' = "off"
    /\ lost' = (lost \/ pc \in Counting)
    /\ boot_times' = 0
    /\ configMode' = FALSE
    /\ UNCHANGED <<word, fired, boots>>

-----------------------------------------------------------------------------
(***************************************************************************)
(* user_setting_set_boot_times in two steps, for its three callers.         *)
(***************************************************************************)

EraseWord(from, to) ==
    /\ pc = from
    /\ pc' = to
    /\ word' = Erased
    /\ UNCHANGED <<boot_times, configMode, boots, lost>>

\* Mutant: the value written is not clamped.
WriteUnclamped(from, to, val) ==
    /\ pc = from
    /\ pc' = to
    /\ word' = val
    /\ UNCHANGED <<boot_times, configMode, fired, boots, lost>>

WriteWord(from, to, val) ==
    /\ pc = from
    /\ pc' = to
    /\ word' = IF val > MaxBootTimes THEN MaxBootTimes ELSE val
    /\ UNCHANGED <<boot_times, configMode, fired, boots, lost>>

-----------------------------------------------------------------------------
(***************************************************************************)
(* user_setting_init.                                                      *)
(***************************************************************************)

\* Mutant: the largest value counts as out of range.
ReadWordStrict ==
    /\ pc = "read"
    /\ IF word >= MaxBootTimes
       THEN boot_times' = 0 /\ pc' = "fix_erase"
       ELSE boot_times' = word /\ pc' = "count"
    /\ UNCHANGED <<word, configMode, fired, boots, lost>>

\* user_setting_get_boot_times; a word out of range counts as 0.
ReadWord ==
    /\ pc = "read"
    /\ IF word > MaxBootTimes
       THEN boot_times' = 0 /\ pc' = "fix_erase"
       ELSE boot_times' = word /\ pc' = "count"
    /\ UNCHANGED <<word, configMode, fired, boots, lost>>

FixErase == EraseWord("fix_erase", "fix_write") /\ UNCHANGED fired

FixWrite == WriteWord("fix_write", "count", 0)

Count ==
    /\ pc = "count"
    /\ pc' = "erase"
    /\ boot_times' = boot_times + 1
    /\ UNCHANGED <<word, configMode, fired, boots, lost>>

CountErase == EraseWord("erase", "write") /\ UNCHANGED fired

CountWrite == WriteWord("write", "wifi", boot_times)

\* Mutant: one start too few is enough.
WifiInitEarly ==
    /\ pc = "wifi"
    /\ pc' = "run"
    /\ configMode' = (boot_times >= ConfigBoots)
    /\ UNCHANGED <<word, boot_times, fired, boots, lost>>

\* zlib_wifi_init(boot_times > 4): the value returned is not clamped.
WifiInit ==
    /\ pc = "wifi"
    /\ pc' = "run"
    /\ configMode' = (boot_times > ConfigBoots)
    /\ UNCHANGED <<word, boot_times, fired, boots, lost>>

\* Mutant: the timer is not armed in configuration mode.
ClearEraseInNormalMode ==
    /\ ~fired
    /\ ~configMode
    /\ EraseWord("run", "clear_write")
    /\ fired' = TRUE

\* user_setting_timer_func, once, 4 s after user_setting_init.
ClearErase ==
    /\ ~fired
    /\ EraseWord("run", "clear_write")
    /\ fired' = TRUE

\* Mutant: the present start is left in the count.
ClearToOne == WriteWord("clear_write", "run", 1)

ClearWrite == WriteWord("clear_write", "run", 0)

Code ==
    \/ ReadWord
    \/ FixErase
    \/ FixWrite
    \/ Count
    \/ CountErase
    \/ CountWrite
    \/ WifiInit
    \/ ClearErase
    \/ ClearWrite

Next == PowerOn \/ PowerCut \/ Code

\* The processor runs and the SDK fires an armed timer; nothing is assumed of
\* the power supply.
Fairness == WF_vars(Code)

Spec == Init /\ [][Next]_vars /\ Fairness

-----------------------------------------------------------------------------
(***************************************************************************)
(* Properties.                                                             *)
(***************************************************************************)

TypeOK ==
    /\ word \in (0 .. MaxBootTimes) \cup {Erased}
    /\ pc \in {"off"} \cup Counting \cup Started
    /\ boot_times \in 0 .. (MaxBootTimes + 1)
    /\ configMode \in BOOLEAN
    /\ fired \in BOOLEAN
    /\ boots \in Nat
    /\ lost \in BOOLEAN

Smaller(a, b) == IF a < b THEN a ELSE b

\* What a start will read: an erased or unreadable word counts as 0.
Stored == IF word > MaxBootTimes THEN 0 ELSE word

\* Configuration mode is entered only after more than ConfigBoots starts in a
\* row, however power failed between erase and write: a lamp in normal use
\* never forgets its network (user_setting.c:16-46, user_main.c:42).
ConfigModeNeedsShortBoots == configMode => boots > ConfigBoots

\* When every start of the streak lasted long enough to be counted, the mode
\* depends on their number alone, also when the stored count has saturated.
ShortBootsGiveConfigMode ==
    pc \in {"run", "clear_write"} /\ ~lost => (configMode <=> boots > ConfigBoots)

\* While the lamp is off, flash holds the length of the streak up to
\* saturation, or less if a start was lost; nothing after a long start.
CountHonest ==
    pc = "off" =>
        /\ Stored <= IF fired THEN 0 ELSE boots
        /\ ~lost /\ ~fired => Stored = Smaller(boots, MaxBootTimes)

\* A lamp that stays powered has the counter cleared, for good.
CounterCleared == <>[](pc # "off") => <>[](word = 0)

=============================================================================
