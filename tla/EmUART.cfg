\* Both FIFOs can fill up, and looped back bytes make more than the receiver holds.
SPECIFICATION FairSpec
CONSTANTS
  RxSize = 2
  TxSize = 2
  MaxRx = 2
  MaxTx = 2
  Controls = {{}, {"UART_ENABLE", "RX_ENABLE", "TX_ENABLE", "RX_RDY_ENABLE"}}
  Miscs = {{"RTS"}, {"LOOP"}}
  ResetDrivers = {"ir"}
INVARIANTS TypeOK BytesInOrder
PROPERTIES NoByteLost BytesAreAnnounced
