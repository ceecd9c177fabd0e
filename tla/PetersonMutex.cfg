CONSTANTS
  Threads = {0, 1}
  Cells = {"wants0", "wants1", "victim", "owner"}
  BufferSize = 4
SPECIFICATION Spec
INVARIANT MutualExclusion
