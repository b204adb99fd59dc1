----------------------------- MODULE MCStartup -----------------------------
EXTENDS Startup

Name(bytes, legal) == [bytes |-> bytes, legal |-> legal]
Raw(name, kind, lifecycle, duration, signal) ==
  [name |-> name, kind |-> kind, lifecycle |-> lifecycle, duration_frames |-> duration,
   signal |-> signal]

Omit == Raw(Name(64, TRUE), "MissingFrames", "Transient", 2, None)
Surge == Raw(Name(5, TRUE), "SignalExcursion", "Sustained", None, "Changes")

Catalog(scenarios) == [version |-> 1, scenarios |-> scenarios]

(* One good catalog, and one for every way to be refused.                  *)
GoodCatalogs == {Catalog(<<Omit, Surge>>)}
BadCatalogs ==
  {Catalog(<<>>), Catalog(<<Omit, Omit>>), [version |-> 2, scenarios |-> <<Omit>>],
   Catalog(<<Omit, Surge, [Omit EXCEPT !.name = Name(4, TRUE)]>>)}
  \cup {Catalog(<<s>>) : s \in
          {[Omit EXCEPT !.duration_frames = 0], [Omit EXCEPT !.duration_frames = None],
           [Surge EXCEPT !.duration_frames = 1], [Surge EXCEPT !.signal = "NoChange"],
           [Surge EXCEPT !.signal = None], [Omit EXCEPT !.signal = "Changes"],
           [Omit EXCEPT !.name = Name(0, TRUE)], [Omit EXCEPT !.name = Name(65, TRUE)],
           [Omit EXCEPT !.name = Name(4, FALSE)]}}
MCCatalogs == GoodCatalogs \cup BadCatalogs

Profile(valid, ready, first, count) ==
  [valid |-> valid, ready |-> ready, first |-> first, count |-> count]

(* Ranges that overlap, one of a fleet whose frames fail the self-check,   *)
(* one with the management port, and a profile that is refused.            *)
MCProfiles ==
  {Profile(TRUE, TRUE, 1, 3), Profile(TRUE, FALSE, 2, 2), Profile(TRUE, TRUE, 3, 2),
   Profile(FALSE, FALSE, 1, 1)}

MCLabels == {[bytes |-> 128, control |-> FALSE], [bytes |-> 0, control |-> FALSE],
             [bytes |-> 129, control |-> FALSE], [bytes |-> 5, control |-> TRUE]}
MCImages == {[bytes |-> 255, control |-> FALSE], [bytes |-> 256, control |-> FALSE]}
=============================================================================
