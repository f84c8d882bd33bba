CONSTANTS
    Channels <- MCChannels
    U8 = 32
    LED_GRADIENT_STEP = 2
    HUE_STEP = 1
    HUE_MAX = 1
    HueColour <- MCHueColour
    White <- MCWhite
    Green <- MCGreen
    HSL2RGB <- MCHSL2RGB
    U16 = 4
    Calendar <- MCCalendar
    TIME_TASK_NUM = 2
    Off <- MCOff
    SECOND = 5
    SAVE_DELAY = 4
    RESTART_DELAY = 10
    SETTING_DELAY = 5
    Messages <- MCMessages
    DefaultConfig <- MCDefaultConfig
    BootModes = {FALSE}
    MaxMessages = 3
SPECIFICATION RtcSpec
INVARIANTS
    UnsavedIsScheduled
    DoneStaysOff
PROPERTIES
    OneShotRuns
