\* Two writers race for the buffer while two clients join, lag and leave at any
\* time; three lines overflow the buffer and, twice, the channel.
CONSTANTS
  Writers = {w1, w2}
  Clients = {c1, c2}
  Lines = 3
  BufferSize = 2
  Capacity = 1
SPECIFICATION Spec
INVARIANTS TypeOK WriterOrder OneRepeatPerWriter ReplayCoversThePast DroppedIsExact
\* The writers have written their lines and nobody reads any more.
CHECK_DEADLOCK FALSE
