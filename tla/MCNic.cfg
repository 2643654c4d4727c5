SPECIFICATION Spec
CONSTANTS
  PAGE_SIZE = 4096
  RX_BUFFER_PAGES = 4
  NUM_TX_BUFFERS = 4
  TX_BUFFER_SIZE = 1792
  CardRing = 8192
  RxLens = {1500, 1518}
  TxLens = {60}
  MaxRx = 4
  MaxTx = 1
  MaxDepth = 2
INVARIANT FramesInBuffer
CHECK_DEADLOCK FALSE
