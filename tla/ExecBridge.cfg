\* One session of every kind: with and without terminal, with commands that
\* read their input and commands that do not.
SPECIFICATION FairSpec
CONSTANTS
  MaxIn = 2
  MaxOut = 1
  MaxSizes = 2
  Wire = 1
  SizeCap = 1
INVARIANT
  EInv
PROPERTIES
  SessionIsFaithful
  CommandEndsSession
  OutputArrives
  InputArrives
  SocketEndsStream
