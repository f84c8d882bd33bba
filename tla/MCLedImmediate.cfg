CONSTANTS
    Channels <- MCChannels
    U8 = 6
    LED_GRADIENT_STEP = 4
    HUE_STEP = 2
    HUE_MAX = 6
    HueColour <- MCHueColour
    White <- MCWhite
    Green <- MCGreen
    Commands <- MCCommands
    PinChoices <- MCPinChoices
SPECIFICATION Spec
PROPERTIES
    ShownTargetStays
