--------------------------- MODULE BootTimesProofs ---------------------------
(***************************************************************************)
(* The power-cycle counter is right for every limit, threshold and number    *)
(* of starts, with power failing anywhere.                                  *)
(***************************************************************************)
EXTENDS BootTimes, TLAPS

\* What a start of the streak knows about the count before it: the word counts
\* at most the starts so far, and exactly those if none was lost.
WordAgrees(n) ==
    /\ word # Erased => word <= n
    /\ ~lost => Stored = Smaller(n, MaxBootTimes)

\* The local variable agrees with n starts; it is not clamped.
BootTimesAgrees(n) ==
    /\ boot_times <= n
    /\ ~lost => boot_times = Smaller(n, MaxBootTimes)

\* The strengthening, by the place where the code is.
Agreement ==
    /\ pc = "off" => WordAgrees(IF fired THEN 0 ELSE boots)
    /\ pc \in Counting => ~fired /\ boots > 0 /\ (word # Erased => word <= boots)
    /\ pc = "read" => WordAgrees(boots - 1)
    /\ pc \in {"fix_erase", "fix_write", "count"} =>
           BootTimesAgrees(boots - 1) /\ boot_times <= MaxBootTimes
    /\ pc \in {"fix_erase", "fix_write"} => boot_times = 0
    /\ pc \in {"erase", "write"} \cup Started =>
           /\ boot_times <= boots
           /\ ~lost => boot_times = Smaller(boots, MaxBootTimes + 1)
    /\ pc = "wifi" => ~fired
    /\ pc \in {"wifi", "run"} => WordAgrees(IF fired THEN 0 ELSE boots)
    /\ pc = "clear_write" => fired /\ word = Erased
    /\ pc \in {"off", "wifi"} \cup Counting => ~configMode
    /\ pc \in {"run", "clear_write"} => (configMode <=> boot_times > ConfigBoots)

Flags == configMode \in BOOLEAN /\ fired \in BOOLEAN /\ lost \in BOOLEAN

IInv == TypeOK /\ Agreement

-----------------------------------------------------------------------------

USE BootTimesAssumption DEF Counting, Started

\* The flags stay Boolean, whatever the counts do.
LEMMA FlagsInit == Init => Flags
  BY DEF Init, Flags

LEMMA FlagsNext == Flags /\ [Next]_vars => Flags'
<1> SUFFICES ASSUME Flags, [Next]_vars PROVE Flags'
  OBVIOUS
<1>1. CASE PowerOn
  BY <1>1, Zenon DEF PowerOn, Flags
<1>2. CASE PowerCut
  BY <1>2, Zenon DEF PowerCut, Flags
<1>3. CASE WifiInit
  <2>1. (boot_times > ConfigBoots) \in BOOLEAN
    OBVIOUS
  <2> QED
    BY <1>3, <2>1, Zenon DEF WifiInit, Flags
<1>4. CASE ClearErase
  BY <1>4, Zenon DEF ClearErase, EraseWord, Flags
<1>5. CASE ReadWord \/ FixErase \/ FixWrite \/ Count \/ CountErase \/ CountWrite
           \/ ClearWrite \/ UNCHANGED vars
  BY <1>5, Zenon DEF ReadWord, FixErase, FixWrite, Count, CountErase, CountWrite,
     ClearWrite, EraseWord, WriteWord, vars, Flags
<1> QED
  BY <1>1, <1>2, <1>3, <1>4, <1>5 DEF Next, Code

LEMMA InitIInv == Init => IInv
  BY FlagsInit DEF Flags, Init, IInv, TypeOK, Agreement, WordAgrees, BootTimesAgrees, Stored, Smaller

LEMMA NextIInv == IInv /\ [Next]_vars => IInv'
<1> SUFFICES ASSUME IInv, [Next]_vars, Flags' PROVE IInv'
  BY FlagsNext DEF IInv, TypeOK, Flags
<1> USE DEF Flags, IInv, TypeOK, Agreement, WordAgrees, BootTimesAgrees, Stored, Smaller
<1>1. CASE PowerOn
  <2>1. CASE fired
    BY <1>1, <2>1 DEF PowerOn
  <2>2. CASE ~fired
    <3>1. /\ pc = "off" /\ pc' = "read" /\ ~fired' /\ ~configMode'
          /\ word' = word /\ boots' = boots + 1 /\ boots' - 1 = boots
          /\ boot_times' = boot_times
      BY <1>1, <2>2 DEF PowerOn
    <3>2. lost' <=> lost
      BY <1>1, <2>2 DEF PowerOn
    <3> QED
      BY <2>2, <3>1, <3>2
  <2> QED
    BY <2>1, <2>2
<1>2. CASE PowerCut
  <2>1. /\ pc' = "off" /\ ~configMode'
        /\ word' = word /\ boots' = boots /\ boot_times' = 0
    BY <1>2 DEF PowerCut
  <2>2. fired' <=> fired
    BY <1>2 DEF PowerCut
  <2>3. CASE pc \in Counting
    <3>1. lost'
      BY <1>2, <2>3 DEF PowerCut
    <3> QED
      BY <2>1, <2>2, <2>3, <3>1
  <2>4. CASE pc \in Started
    <3>1. lost' <=> lost
      BY <1>2, <2>4 DEF PowerCut
    <3> QED
      BY <2>1, <2>2, <2>4, <3>1
  <2> QED
    BY <1>2, <2>3, <2>4 DEF PowerCut
<1>3. CASE ReadWord
  BY <1>3 DEF ReadWord
<1>4. CASE FixErase
  BY <1>4 DEF FixErase, EraseWord
<1>5. CASE FixWrite
  BY <1>5 DEF FixWrite, WriteWord
<1>6. CASE Count
  BY <1>6 DEF Count
<1>7. CASE CountErase
  BY <1>7 DEF CountErase, EraseWord
<1>8. CASE CountWrite
  BY <1>8 DEF CountWrite, WriteWord
<1>9. CASE WifiInit
  BY <1>9 DEF WifiInit
<1>10. CASE ClearErase
  BY <1>10 DEF ClearErase, EraseWord
<1>11. CASE ClearWrite
  BY <1>11 DEF ClearWrite, WriteWord
<1>12. CASE UNCHANGED vars
  BY <1>12 DEF vars
<1> QED
  BY <1>1, <1>2, <1>3, <1>4, <1>5, <1>6, <1>7, <1>8, <1>9, <1>10, <1>11, <1>12
  DEF Next, Code

LEMMA IInvAlways == Spec => []IInv
  BY InitIInv, NextIInv, PTL DEF Spec

-----------------------------------------------------------------------------

\* The flash word and the local variable never leave their ranges: the stored
\* count is clamped and the count in RAM exceeds it by at most one.
THEOREM TypeCorrect == Spec => []TypeOK
<1>1. IInv => TypeOK
  BY DEF IInv
<1> QED
  BY <1>1, IInvAlways, PTL

\* A power failure at any point of the erase-and-write sequences can make the
\* lamp forget starts, never invent them: no configuration mode without more
\* than ConfigBoots starts in a row (user_setting.c:16-46, user_main.c:42).
THEOREM NoFalseConfigMode == Spec => []ConfigModeNeedsShortBoots
<1>1. IInv => ConfigModeNeedsShortBoots
  BY DEF IInv, TypeOK, Agreement, ConfigModeNeedsShortBoots
<1> QED
  BY <1>1, IInvAlways, PTL

\* If no start of the streak was too short to be counted, their number alone
\* decides about the mode, also beyond the value at which the count saturates.
THEOREM ConfigModeReached == Spec => []ShortBootsGiveConfigMode
<1>1. IInv => ShortBootsGiveConfigMode
  BY DEF IInv, TypeOK, Agreement, ShortBootsGiveConfigMode, Smaller
<1> QED
  BY <1>1, IInvAlways, PTL

\* What is left in flash while the lamp is off: the length of the streak up to
\* saturation, less if a start was lost, nothing after a start of 4 seconds.
THEOREM FlashCountHonest == Spec => []CountHonest
<1>1. IInv => CountHonest
  BY DEF IInv, TypeOK, Agreement, CountHonest, WordAgrees, Stored, Smaller
<1> QED
  BY <1>1, IInvAlways, PTL

=============================================================================
