SPECIFICATION Spec
CONSTANTS
  Byte = {x, y}
  Zero = zero
  InitialSize = 2
  ReadRoom = 2
  MaxWrite = 3
  MaxReadable = 3

CHECK_DEADLOCK FALSE
INVARIANTS TypeOK BoundedMemory RoomToRead
PROPERTY ImplementsByteQueue
