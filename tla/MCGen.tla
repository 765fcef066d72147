-------------------------------- MODULE MCGen --------------------------------
(***************************************************************************)
(* Gen with every kind of request, for durations up to MaxDuration and up  *)
(* to MaxSamples samples, neither of a whole number of frames; some of     *)
(* them limited by nothing; and audio shifted in time and rescaled, up to  *)
(* time bases that give frames equal times.                                *)
(***************************************************************************)
EXTENDS Gen

CONSTANTS MaxDuration, MaxSamples

AllRequests ==
    [media : {"audio", "video"}, header : BOOLEAN, raw : BOOLEAN, known : BOOLEAN, valid : BOOLEAN,
     duration : 0 .. MaxDuration, samples : -1 .. MaxSamples,
     offset : {0}, base : {0}]
  \cup
    [media : {"audio"}, header : {FALSE}, raw : {FALSE}, known : {TRUE}, valid : {TRUE},
     duration : 0 .. MaxDuration, samples : -1 .. MaxSamples, offset : {-2, 3}, base : {0, 1, 2, 5}]
=============================================================================
