CONSTANTS
    Channels <- MCChannels
    U8 = 256
    LED_GRADIENT_STEP = 100
    HUE_STEP = 1
    HUE_MAX = 1
    HueColour <- MCHueColour
    White <- MCWhite
    Green <- MCGreen
    Commands <- MCCommands
    PinChoices <- MCPinChoices
SPECIFICATION Spec
PROPERTIES
    FadeApproaches
    ShowsTargetAgain
