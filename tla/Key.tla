---------------------------------- MODULE Key ----------------------------------
(***************************************************************************)
(* A key of src/app/driver/key.c: a pin whose edges interrupt, the handler,  *)
(* and the two timers that debounce a release and detect a long press.  The  *)
(* pin moves as it likes between two steps of the driver; the GPIO latches   *)
(* only the edge it is armed for.  The handler treats each key by itself, so *)
(* one is modelled.                                                        *)
(***************************************************************************)
EXTENDS Integers

CONSTANT KeyBounces     \* bound: moves of the pin while the driver is busy

ASSUME KeyAssumption == KeyBounces \in Nat

VARIABLES
    key_pin,            \* the level: 1 when the key is up
    key_level,          \* the level the driver believes in
    key_intr,           \* the edge the pin is armed for
    key_status,         \* the pin's bit of GPIO_STATUS
    key_5s, key_50ms,   \* the timers, armed or not
    key_at,             \* where the handler or a timer's callback is
    short_press, long_press,    \* change with each call of the function
    key_bounces

KeyVars == <<key_pin, key_level, key_intr, key_status, key_5s, key_50ms, key_at,
             short_press, long_press, key_bounces>>

key_init ==
    /\ key_pin \in {0, 1}
    /\ key_level = 1
    /\ key_intr = "NEGEDGE"
    /\ key_status = FALSE
    /\ key_5s = FALSE /\ key_50ms = FALSE
    /\ key_at = "idle"
    /\ short_press = FALSE /\ long_press = FALSE
    /\ key_bounces = 0

KeyAtRest == key_at = "idle" /\ ~key_status /\ ~key_50ms

\* The user, or a contact that bounces.
KeyMoves(resting) ==
    /\ resting = KeyAtRest
    /\ ~resting => key_bounces < KeyBounces
    /\ key_bounces' = IF resting THEN key_bounces ELSE key_bounces + 1
    /\ key_pin' = 1 - key_pin
    /\ key_status' = (\/ key_status
                      \/ key_intr = "NEGEDGE" /\ key_pin = 1
                      \/ key_intr = "POSEDGE" /\ key_pin = 0)
    /\ UNCHANGED <<key_level, key_intr, key_5s, key_50ms, key_at,
                   short_press, long_press>>

\* key_intr_handler: the interrupt is turned off and its bit cleared; a press
\* goes on to arm the 5 s timer and the other edge, a release arms the 50 ms
\* timer.
key_intr_handler ==
    /\ key_at = "idle" /\ key_status
    /\ key_intr' = "DISABLE"
    /\ key_status' = FALSE
    /\ IF key_level = 1
       THEN key_at' = "pressed" /\ UNCHANGED key_50ms
       ELSE key_50ms' = TRUE /\ UNCHANGED key_at
    /\ UNCHANGED <<key_pin, key_level, key_5s, short_press, long_press, key_bounces>>

key_intr_handler_press ==
    /\ key_at = "pressed"
    /\ key_5s' = TRUE
    /\ key_level' = 0
    /\ key_intr' = "POSEDGE"
    /\ key_at' = "idle"
    /\ UNCHANGED <<key_pin, key_status, key_50ms, short_press, long_press, key_bounces>>

\* key_50ms_cb reads the pin, and then acts on what it read.
key_50ms_cb ==
    /\ key_at = "idle" /\ ~key_status /\ key_50ms
    /\ key_50ms' = FALSE
    /\ key_at' = IF key_pin = 1 THEN "up" ELSE "down"
    /\ UNCHANGED <<key_pin, key_level, key_intr, key_status, key_5s,
                   short_press, long_press, key_bounces>>

key_50ms_cb_up ==
    /\ key_at = "up"
    /\ key_5s' = FALSE
    /\ key_level' = 1
    /\ key_intr' = "NEGEDGE"
    /\ short_press' = ~short_press
    /\ key_at' = "idle"
    /\ UNCHANGED <<key_pin, key_status, key_50ms, long_press, key_bounces>>

\* Mutant: the interrupt stays off.
key_50ms_cb_deaf ==
    /\ key_at = "down"
    /\ key_at' = "idle"
    /\ UNCHANGED <<key_pin, key_level, key_intr, key_status, key_5s, key_50ms,
                   short_press, long_press, key_bounces>>

key_50ms_cb_down ==
    /\ key_at = "down"
    /\ key_intr' = "POSEDGE"
    /\ key_at' = "idle"
    /\ UNCHANGED <<key_pin, key_level, key_status, key_5s, key_50ms,
                   short_press, long_press, key_bounces>>

key_5s_cb ==
    /\ key_at = "idle" /\ ~key_status /\ key_5s
    /\ key_5s' = FALSE
    /\ long_press' = (IF key_pin = 0 THEN ~long_press ELSE long_press)
    /\ UNCHANGED <<key_pin, key_level, key_intr, key_status, key_50ms, key_at,
                   short_press, key_bounces>>

\* What the driver does with no further help from the user.
KeyDriver ==
    \/ key_intr_handler
    \/ key_intr_handler_press
    \/ key_50ms_cb
    \/ key_50ms_cb_up
    \/ key_50ms_cb_down

KeyNext == (\E resting \in BOOLEAN : KeyMoves(resting)) \/ KeyDriver \/ key_5s_cb

\* Interrupts are served, the 50 ms timer fires, and the key is used again and
\* again.
KeySpec ==
    /\ key_init /\ [][KeyNext]_KeyVars
    /\ WF_KeyVars(KeyDriver) /\ WF_KeyVars(KeyMoves(TRUE))

-----------------------------------------------------------------------------
\* The key never goes deaf: however its contact bounces, and although an edge
\* that falls between reading the pin and arming it is missed, a key that goes
\* on being pressed goes on being heard.
KeyHeard == []<><<short_press' # short_press>>_KeyVars

=============================================================================
