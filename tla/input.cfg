\* Every stream of up to seven bytes, cut in every way into packets of at most 3.
SPECIFICATION Spec
CONSTANTS
    MaxBuffer = 3  MaxPayload = 2  Chunk = 3  MaxStream = 7
INVARIANTS CutsDoNotMatter QuitIsLast OnlyFloodsAreCut
