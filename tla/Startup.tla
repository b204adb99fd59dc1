------------------------------ MODULE Startup ------------------------------
(***************************************************************************)
(* From the command line to a serving process: run of src/main.rs,         *)
(* load_startup, the scenario catalog compiler, Server::bind_inner, and    *)
(* the healthcheck command that asks a process whether it is ready.        *)
(*                                                                         *)
(* Several processes start on one host, as when a deployment is replaced   *)
(* or two of them were given the same ports, and the supervisor starts     *)
(* again what has ended.  An operator may rewrite the files at any time.   *)
(* ProfileCompiler models what makes a profile valid; here a profile is    *)
(* that verdict, whether the server's parser takes the frames encoded from *)
(* it (selected_wire_frames_are_valid, Server::ready) and its port range.  *)
(***************************************************************************)
EXTENDS Integers, Sequences

CONSTANTS
  None,            \* the absent value of an Option
  Processes,
  Profiles,        \* contents of a profile file: [valid, ready, first, count]
  Catalogs,        \* contents of a catalog file: [version, scenarios]
  Labels,          \* --deployment-label: [bytes, control]
  Images,          \* C37_118_IMAGE_REF: the same
  ManagementPort,
  MAX_SCENARIO_CATALOG_ENTRIES,
  MaxEdits,        \* bound on the rewrites of a file
  MaxKills         \* bound on processes that are killed

SCENARIO_CATALOG_VERSION == 1
MAX_LABEL_BYTES == 128
MAX_IMAGE_BYTES == 255
MAX_NAME_BYTES == 64

(* Scenarios as they stand in a file.                                      *)
RawScenario ==
  [name: [bytes: Nat, legal: BOOLEAN], kind: STRING, lifecycle: STRING,
   duration_frames: Nat \cup {None}, signal: {None, "Changes", "NoChange"}]

ASSUME StartupAssumption ==
  /\ \A p \in Profiles : p.first \in Nat /\ p.count \in Nat \ {0}
  /\ \A c \in Catalogs : c.scenarios \in Seq(RawScenario)
  /\ None \notin Processes /\ None # "Changes" /\ None # "ok"
  /\ {MAX_SCENARIO_CATALOG_ENTRIES, MaxEdits, MaxKills} \subseteq Nat

VARIABLES
  file,       \* contents of the two files now
  process,    \* per process: [phase, label, image, profile, catalog, startup, logged, metadata]
  holder,     \* port -> the process that listens on it, or None
  check,      \* the healthcheck: [process, answer]
  edits, kills

vars == <<file, process, holder, check, edits, kills>>

Ports == {ManagementPort} \cup UNION {p.first..(p.first + p.count - 1) : p \in Profiles}

Down ==
  [phase |-> "down", label |-> None, image |-> None, profile |-> None, catalog |-> None,
   identity |-> None, logged |-> None, metadata |-> None]

NoCheck == [process |-> None, answer |-> None]

Init ==
  /\ file \in [profile: Profiles, catalog: Catalogs]
  /\ process = [p \in Processes |-> Down]
  /\ holder = [port \in Ports |-> None]
  /\ check = NoCheck
  /\ edits = 0 /\ kills = 0

-----------------------------------------------------------------------------
(* The scenario catalog compiler.                                          *)

ValidLifecycle(raw) ==
  \/ raw.lifecycle = "Transient" /\ raw.duration_frames # None /\ raw.duration_frames > 0
  \/ raw.lifecycle = "Sustained" /\ raw.duration_frames = None

(* compile_signal: finite values, not all of them zero.                    *)
compile_signal(signal) == signal = "Changes"

ValidSignal(raw) ==
  IF raw.kind = "SignalExcursion" THEN raw.signal # None /\ compile_signal(raw.signal)
                                  ELSE raw.signal = None

validate_name(name) == name.bytes \in 1..MAX_NAME_BYTES /\ name.legal

(* The compiled catalog is its scenarios in their order.                   *)
compile_catalog(raw) ==
  LET S == raw.scenarios
  IN  /\ raw.version = SCENARIO_CATALOG_VERSION
      /\ Len(S) \in 1..MAX_SCENARIO_CATALOG_ENTRIES
      /\ \A i \in DOMAIN S :
           /\ validate_name(S[i].name)
           /\ \A j \in 1..(i - 1) : S[j].name # S[i].name
           /\ ValidLifecycle(S[i]) /\ ValidSignal(S[i])

-----------------------------------------------------------------------------
(* run and load_startup.                                                   *)

validate_text(text, maximum) == text.bytes \in 1..maximum /\ ~text.control

Enter(p, phase) == process' = [process EXCEPT ![p].phase = phase]

(* A process that ends lets go of its listeners.                           *)
Released(p) == [port \in Ports |-> IF holder[port] = p THEN None ELSE holder[port]]

End(p) ==
  /\ process' = [process EXCEPT ![p] = Down]
  /\ holder' = Released(p)

(* The label is checked, then the image reference, then a file is read.    *)
Start(p, label, image) ==
  /\ process[p].phase = "down"
  /\ validate_text(label, MAX_LABEL_BYTES) /\ validate_text(image, MAX_IMAGE_BYTES)
  /\ process' = [process EXCEPT ![p] =
       [Down EXCEPT !.phase = "catalog", !.label = label, !.image = image,
                    !.profile = file.profile]]
  /\ UNCHANGED <<file, holder, check, edits, kills>>

ReadCatalog(p) ==
  /\ process[p].phase = "catalog"
  /\ process' = [process EXCEPT ![p].phase = "compile", ![p].catalog = file.catalog]
  /\ UNCHANGED <<file, holder, check, edits, kills>>

(* Fault: the digests are taken of the files as they are now.              *)
RuntimeIdentity_late(p) ==
  [image |-> process[p].image, profile |-> file.profile, catalog |-> file.catalog]

(* RuntimeIdentity::new: a digest stands for the bytes that were read.     *)
RuntimeIdentity(p) ==
  [image |-> process[p].image, profile |-> process[p].profile, catalog |-> process[p].catalog]

(* parse_profile, parse_catalog, the identity and the line in the log.     *)
Compile(p) ==
  /\ process[p].phase = "compile"
  /\ IF process[p].profile.valid /\ compile_catalog(process[p].catalog)
       THEN /\ process' = [process EXCEPT ![p].phase = "bind",
                             ![p].identity = RuntimeIdentity(p), ![p].logged = RuntimeIdentity(p)]
            /\ UNCHANGED holder
       ELSE End(p)
  /\ UNCHANGED <<file, check, edits, kills>>

-----------------------------------------------------------------------------
(* Server::bind_inner: the endpoints in their order, then management.      *)

EndpointPorts(p) ==
  process[p].profile.first..(process[p].profile.first + process[p].profile.count - 1)

Held(p) == {port \in Ports : holder[port] = p}
Unbound(p) == EndpointPorts(p) \ Held(p)

(* Fault: the endpoints are bound in the order of a hash table.            *)
IsNext_unordered(p, port) ==
  IF Unbound(p) # {} THEN port \in Unbound(p) ELSE port = ManagementPort

IsNext(p, port) ==
  IF Unbound(p) # {} THEN port \in Unbound(p) /\ \A other \in Unbound(p) : port <= other
                     ELSE port = ManagementPort

IsFree(port) == holder[port] = None

Bind(p, port) ==
  /\ process[p].phase = "bind" /\ IsNext(p, port)
  /\ IF IsFree(port)
       THEN /\ holder' = [holder EXCEPT ![port] = p]
            /\ IF Unbound(p) = {} THEN Enter(p, "configure") ELSE UNCHANGED process
       ELSE End(p)
  /\ UNCHANGED <<file, check, edits, kills>>

(* configure_runtime_metadata says no to what it may not publish, and run  *)
(* does not look at its answer; the loop starts.                           *)
Configure(p) ==
  /\ process[p].phase = "configure"
  /\ process' = [process EXCEPT ![p].phase = "serve",
       ![p].metadata = IF /\ validate_text(process[p].label, MAX_LABEL_BYTES)
                          /\ validate_text(process[p].image, MAX_IMAGE_BYTES)
                         THEN process[p].identity ELSE None]
  /\ UNCHANGED <<file, holder, check, edits, kills>>

-----------------------------------------------------------------------------
(* healthcheck: connect, then wait for an answer.  The kernel takes the    *)
(* connection as soon as the port is bound; only the loop answers.         *)

Connect ==
  /\ check.process = None
  /\ holder[ManagementPort] # None
  /\ check' = [process |-> holder[ManagementPort], answer |-> None]
  /\ UNCHANGED <<file, process, holder, edits, kills>>

(* Fault: a connection is answer enough.                                   *)
IsAnswered_early == check.process # None

IsAnswered == check.process # None /\ process[check.process].phase = "serve"

(* GET /readyz: 503 when the frames of the fleet do not pass the server's  *)
(* own parser.  The check passes with 200 only.                            *)
Readyz(p) == IF process[p].profile.ready THEN 200 ELSE 503

Answer ==
  /\ IsAnswered /\ check.answer = None
  /\ check' = [check EXCEPT !.answer =
                 IF Readyz(check.process) = 200 THEN "ok" ELSE "failed"]
  /\ UNCHANGED <<file, process, holder, edits, kills>>

(* Time is up, the peer has gone, or the next check begins.                *)
EndCheck ==
  /\ check.process # None
  /\ check' = NoCheck
  /\ UNCHANGED <<file, process, holder, edits, kills>>

-----------------------------------------------------------------------------
(* The operator and the host (external).                                   *)

Edit ==
  /\ edits < MaxEdits
  /\ edits' = edits + 1
  /\ \/ \E c \in Profiles : file' = [file EXCEPT !.profile = c]
     \/ \E c \in Catalogs : file' = [file EXCEPT !.catalog = c]
  /\ UNCHANGED <<process, holder, check, kills>>

Kill(p) ==
  /\ process[p].phase # "down" /\ kills < MaxKills
  /\ kills' = kills + 1
  /\ End(p)
  /\ check' = IF check.process = p THEN NoCheck ELSE check
  /\ UNCHANGED <<file, edits>>

Step(p) ==
  \/ \E label \in Labels, image \in Images : Start(p, label, image)
  \/ ReadCatalog(p)
  \/ Compile(p)
  \/ \E port \in Ports : Bind(p, port)
  \/ Configure(p)

Next ==
  \/ \E p \in Processes : Step(p) \/ Kill(p)
  \/ Connect \/ Answer \/ EndCheck
  \/ Edit

Spec == Init /\ [][Next]_vars

(* The supervisor starts again what has ended, and a process runs.         *)
FairSpec == Spec /\ \A p \in Processes : WF_vars(Step(p))

-----------------------------------------------------------------------------
(* Properties.                                                             *)

Serves(p) == process[p].phase = "serve"

(* What a process says it runs is what it runs: the published identity is  *)
(* the logged one, and it names the bytes the fleet and the catalog were   *)
(* compiled from, whatever happened to the files meanwhile.                *)
(* And what runs can be worked with by the scenario controller: a scenario *)
(* is found by its name, a transient one ends after some frame, a          *)
(* sustained one does not end by itself, and an excursion has values.      *)
IdentityNamesWhatRuns ==
  \A p \in Processes :
    Serves(p) =>
      LET S == process[p].catalog.scenarios
      IN  /\ process[p].metadata = process[p].logged
          /\ process[p].metadata.profile = process[p].profile
          /\ process[p].metadata.catalog = process[p].catalog
          /\ \A i, j \in DOMAIN S : S[i].name = S[j].name => i = j
          /\ \A i \in DOMAIN S :
               /\ S[i].lifecycle = "Transient" => S[i].duration_frames \in Nat \ {0}
               /\ S[i].lifecycle = "Sustained" => S[i].duration_frames = None
               /\ S[i].kind = "SignalExcursion" <=> S[i].signal = "Changes"

(* A passed healthcheck was answered by a whole fleet: the process serves  *)
(* frames its own parser takes, and listens on every port of its profile   *)
(* and on the management port.  A connection taken by the kernel during    *)
(* start-up, by a process that dies or that gives way to another, does not *)
(* pass for readiness, and there is no half a fleet.                       *)
HealthyMeansServing ==
  [][check'.answer = "ok" /\ check.answer # "ok" =>
       /\ Serves(check'.process) /\ process[check'.process].profile.ready
       /\ Held(check'.process) = EndpointPorts(check'.process) \cup {ManagementPort}]_vars

(* Processes that contend for ports do not keep each other from starting:  *)
(* when the files stay valid some process serves, because all bind in one  *)
(* order.  A profile that takes the management port for an endpoint is the *)
(* operator's mistake: nothing can serve it.                               *)
FilesAreValid ==
  /\ file.profile.valid /\ compile_catalog(file.catalog)
  /\ ManagementPort \notin file.profile.first..(file.profile.first + file.profile.count - 1)
SomebodyServes == <>[]FilesAreValid => <>(\E p \in Processes : Serves(p))
=============================================================================
