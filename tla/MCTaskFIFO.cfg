CONSTANTS
  BUF_SIZE = 4
  Data = {d1, d2}
  Zero = zero
SPECIFICATION Spec
INVARIANTS TypeOK PointersAgree
PROPERTIES ImplementsQueue
