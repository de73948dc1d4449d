SPECIFICATION Spec
CONSTANTS
  Offers = {{}, {"H264"}, {"MP2T"}, {"PCMU"}, {"H264", "PCMU"}, {"H264", "AAC"}, {"MP2T", "PCMU"}}
  MaxRedirects = 3
  Fits = 2
INVARIANT ReadsItsOwn
PROPERTY Returns
CHECK_DEADLOCK FALSE
