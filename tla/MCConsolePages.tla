--------------------------- MODULE MCConsolePages ---------------------------
(* A small instance of ConsolePages: two targets, pages of one record.        *)
EXTENDS ConsolePages, TLC

MCCatalog ==
  {[name |-> "omit", kind |-> "MissingFrames", start_frame_offset |-> 0,
    lifecycle |-> "Transient", duration_frames |-> 1]}

(* All but `reply`, which no operation reads and neither property mentions.   *)
MCView ==
  <<records, current_sample_index, next_token, revision, now,
    process, content, facts, reader>>

MCSymmetry == Permutations(Facts) \cup Permutations(Contents)
=============================================================================
