\* Two blobs that are added twice at a time, waited for and wanted by a peer.
SPECIFICATION SceneSpec
CONSTANTS
  Blob = {b1, b2}
  Adder = {a1, a2}
  Page = {w1}
  Conn = {c1}
  First = a1
  WantCap = 1
INVARIANTS TypeOK StoredIsWhole PromisesKept
PROPERTIES WaitersHear WantsAreAnswered
