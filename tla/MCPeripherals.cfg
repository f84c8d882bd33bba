CONSTANTS
    RX_BUFFER_SIZE = 2
    RX_BUFFER_NUM = 3
    SdioMaxLoad = 5
    SdioLastByte = 6
    KeyBounces = 3
    I2cBytes <- MCI2cBytes
    ClockDivs = {1, 2}
    SpiLens = {0, 1, 2}
    SlaveLast = 3
SPECIFICATION Spec
INVARIANTS
    SdioInOrder
    SdioOffered
    I2cFrames
    OverlapSelected
    SpiPhases
    SlavePackets
PROPERTIES
    BenchKeyHeard
    SpiSendReturns
\* The SDIO, SPI and slave models stop when their bounded input is used up.
CHECK_DEADLOCK FALSE
