SPECIFICATION Spec
CONSTANTS
  USB_CDC_BUF_SIZE = 6
  USB_CDC_SILENCE_MS = 3
  HostGap = 1
  Requests <- MCRequests
  Worlds <- MCNested
INVARIANTS
  TickIsSafe
