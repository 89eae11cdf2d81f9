\* Room for one byte of header and two bytes of data; strings of up to three bytes
\* make it move, grow and spill.
CONSTANTS
  zero = zero  b1 = b1  b2 = b2
  Zero = zero  Bytes <- SomeBytes  Inputs <- SomeInputs
  Prepend = 1  InitSize = 2  Extra = 2
  Reserves <- SomeReserves
  MaxReadable = 3
SPECIFICATION Spec
INVARIANT TypeOK
PROPERTY RefinesByteQueue
