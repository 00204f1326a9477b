SPECIFICATION Spec
CONSTANTS
  MB_REG_COUNT = 5
  MB_COIL_COUNT = 10
  MaxCoils = 12
  MaxReadRegs = 3
  MaxWriteRegs = 2
  TxSize = 11
  MB_STRING_LEN = 4
  MB_SLAVE_ADDR = 1
  LineReg = 0
  FloatReg = 2
  Bytes <- MCBytes
  Lines <- MCLines
  Floats <- MCFloats
  Requests <- MCRequests
  MasterRequests <- MCSent
INVARIANTS
  TypeOK
  AnswersAsReference
  ValuesAgree
