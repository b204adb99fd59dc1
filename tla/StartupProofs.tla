---------------------------- MODULE StartupProofs ----------------------------
(* Proofs about Startup, for every set of processes, profiles, catalogs,    *)
(* labels and images and any number of rewrites and kills.                  *)
EXTENDS Startup, TLAPS

Phases == {"down", "catalog", "compile", "bind", "configure", "serve"}
Identity ==
  [image: Images \cup {None}, profile: Profiles \cup {None}, catalog: Catalogs \cup {None}]
ProcessState ==
  [phase: Phases, label: Labels \cup {None}, image: Images \cup {None},
   profile: Profiles \cup {None}, catalog: Catalogs \cup {None},
   identity: Identity \cup {None}, logged: Identity \cup {None},
   metadata: Identity \cup {None}]

StartupTypes ==
  /\ file \in [profile: Profiles, catalog: Catalogs]
  /\ process \in [Processes -> ProcessState]
  /\ holder \in [Ports -> Processes \cup {None}]
  /\ check \in [process: Processes \cup {None}, answer: {None, "ok", "failed"}]

(* What a process listens on, by how far it has come.                       *)
HoldsItsPorts(p) ==
  /\ process[p].phase \in {"down", "catalog", "compile"} => Held(p) = {}
  /\ process[p].phase = "bind" => Held(p) \subseteq EndpointPorts(p)
  /\ process[p].phase \in {"configure", "serve"} =>
       Held(p) = EndpointPorts(p) \cup {ManagementPort}

(* What it has read and checked by then.                                    *)
KnowsItself(p) ==
  /\ process[p].phase # "down" =>
       /\ validate_text(process[p].label, MAX_LABEL_BYTES)
       /\ validate_text(process[p].image, MAX_IMAGE_BYTES)
       /\ process[p].profile \in Profiles
  /\ process[p].phase \in {"compile", "bind", "configure", "serve"} =>
       process[p].catalog \in Catalogs
  /\ process[p].phase \in {"bind", "configure", "serve"} =>
       /\ compile_catalog(process[p].catalog)
       /\ process[p].identity = RuntimeIdentity(p)
       /\ process[p].logged = RuntimeIdentity(p)
  /\ process[p].phase = "serve" => process[p].metadata = process[p].identity

StartupInv ==
  StartupTypes /\ \A p \in Processes : HoldsItsPorts(p) /\ KnowsItself(p)

-----------------------------------------------------------------------------
(* The endpoints of a profile are ports of the host.                        *)
LEMMA EndpointsArePorts ==
  ASSUME NEW p \in Processes, process[p].profile \in Profiles
  PROVE  EndpointPorts(p) \subseteq Ports
BY DEF EndpointPorts, Ports

(* A process that did not move and holds what it held stays consistent.     *)
LEMMA Bystander ==
  ASSUME NEW q \in Processes, HoldsItsPorts(q), KnowsItself(q),
         process'[q] = process[q], Held(q)' = Held(q)
  PROVE  HoldsItsPorts(q)' /\ KnowsItself(q)'
<1>1. EndpointPorts(q)' = EndpointPorts(q) /\ RuntimeIdentity(q)' = RuntimeIdentity(q)
  BY DEF EndpointPorts, RuntimeIdentity
<1> QED
  BY <1>1 DEF HoldsItsPorts, KnowsItself

(* A process that has ended is down, and only its own ports are free again. *)
LEMMA EndKeeps ==
  ASSUME StartupInv, NEW p \in Processes, End(p),
         file' \in [profile: Profiles, catalog: Catalogs],
         check' \in [process: Processes \cup {None}, answer: {None, "ok", "failed"}]
  PROVE  StartupInv'
<1> USE DEF StartupInv
<1>1. Down \in ProcessState /\ Down.phase = "down"
  BY DEF Down, ProcessState, Phases
<1>2. process' = [process EXCEPT ![p] = Down] /\ process' \in [Processes -> ProcessState]
  BY <1>1 DEF End, StartupTypes
<1>3. holder' \in [Ports -> Processes \cup {None}]
  BY DEF End, Released, StartupTypes
<1>4. StartupTypes'
  BY <1>2, <1>3 DEF StartupTypes
<1>5. Held(p)' = {}
  BY StartupAssumption DEF End, Released, Held
<1>6. ASSUME NEW q \in Processes, q # p PROVE Held(q)' = Held(q)
  BY <1>6, StartupAssumption DEF End, Released, Held
<1>7. HoldsItsPorts(p)' /\ KnowsItself(p)'
  <2>1. process'[p].phase = "down"
    BY <1>1, <1>2 DEF StartupTypes
  <2> QED
    BY <1>5, <2>1 DEF HoldsItsPorts, KnowsItself
<1>8. ASSUME NEW q \in Processes, q # p PROVE HoldsItsPorts(q)' /\ KnowsItself(q)'
  <2>1. process'[q] = process[q]
    BY <1>2, <1>8 DEF StartupTypes
  <2> QED
    BY <1>6, <1>8, <2>1, Bystander
<1> QED
  BY <1>4, <1>7, <1>8

(* A process that moves on without touching a port.                         *)
LEMMA MoveKeeps ==
  ASSUME StartupInv, NEW p \in Processes, NEW state \in ProcessState,
         process' = [process EXCEPT ![p] = state],
         UNCHANGED <<file, holder, check>>,
         HoldsItsPorts(p)', KnowsItself(p)'
  PROVE  StartupInv'
<1> USE DEF StartupInv
<1>1. StartupTypes'
  BY DEF StartupTypes
<1>2. ASSUME NEW q \in Processes, q # p PROVE HoldsItsPorts(q)' /\ KnowsItself(q)'
  <2>1. process'[q] = process[q] /\ Held(q)' = Held(q)
    BY <1>2 DEF StartupTypes, Held
  <2> QED
    BY <2>1, Bystander
<1> QED
  BY <1>1, <1>2

-----------------------------------------------------------------------------
(* Nothing listens and nothing is known when the host comes up.             *)
LEMMA StartupBegins == Init => StartupInv
<1> SUFFICES ASSUME Init PROVE StartupInv
  OBVIOUS
<1>1. Down \in ProcessState /\ Down.phase = "down"
  BY DEF Down, ProcessState, Phases
<1>2. StartupTypes
  BY <1>1 DEF Init, StartupTypes, NoCheck
<1>3. ASSUME NEW p \in Processes PROVE HoldsItsPorts(p) /\ KnowsItself(p)
  <2>1. process[p].phase = "down"
    BY <1>1 DEF Init
  <2>2. Held(p) = {}
    BY StartupAssumption DEF Init, Held
  <2> QED
    BY <2>1, <2>2 DEF HoldsItsPorts, KnowsItself
<1> QED
  BY <1>2, <1>3 DEF StartupInv

(* A process starts with a label and an image that may be published.        *)
LEMMA StartKeeps ==
  ASSUME StartupInv, NEW p \in Processes, NEW label \in Labels, NEW image \in Images,
         Start(p, label, image)
  PROVE  StartupInv'
<1> USE DEF StartupInv
<1> DEFINE state == [Down EXCEPT !.phase = "catalog", !.label = label, !.image = image,
                                 !.profile = file.profile]
<1>1. /\ state \in ProcessState /\ state.phase = "catalog" /\ state.label = label
      /\ state.image = image /\ state.profile = file.profile /\ file.profile \in Profiles
  BY DEF Down, ProcessState, Phases, StartupTypes
<1>2. process' = [process EXCEPT ![p] = state]
  BY DEF Start
<1> HIDE DEF state
<1>3. process'[p] = state
  BY <1>2 DEF StartupTypes
<1>4. Held(p)' = {}
  BY DEF Start, Held, HoldsItsPorts
<1>5. HoldsItsPorts(p)'
  BY <1>1, <1>3, <1>4 DEF HoldsItsPorts
<1>6. KnowsItself(p)'
  BY <1>1, <1>3 DEF KnowsItself, Start
<1> QED
  BY <1>1, <1>2, <1>5, <1>6, MoveKeeps DEF Start

(* The catalog is read as it is at that moment.                             *)
LEMMA ReadCatalogKeeps ==
  ASSUME StartupInv, NEW p \in Processes, ReadCatalog(p)
  PROVE  StartupInv'
<1> USE DEF StartupInv
<1> DEFINE state == [process[p] EXCEPT !.phase = "compile", !.catalog = file.catalog]
<1>0. process[p] \in ProcessState /\ file.catalog \in Catalogs
  BY DEF StartupTypes
<1>1. /\ state \in ProcessState /\ state.phase = "compile"
      /\ state.label = process[p].label /\ state.image = process[p].image
      /\ state.profile = process[p].profile /\ state.catalog = file.catalog
  BY <1>0 DEF ProcessState, Phases
<1>2. process' = [process EXCEPT ![p] = state]
  BY DEF ReadCatalog, StartupTypes
<1> HIDE DEF state
<1>3. process'[p] = state
  BY <1>2 DEF StartupTypes
<1>4. Held(p)' = {}
  BY DEF ReadCatalog, Held, HoldsItsPorts
<1>5. HoldsItsPorts(p)'
  BY <1>1, <1>3, <1>4 DEF HoldsItsPorts
<1>6. KnowsItself(p)'
  BY <1>0, <1>1, <1>3 DEF KnowsItself, ReadCatalog
<1> QED
  BY <1>1, <1>2, <1>5, <1>6, MoveKeeps DEF ReadCatalog

(* What is compiled and digested is what was read.                          *)
LEMMA CompileKeeps ==
  ASSUME StartupInv, NEW p \in Processes, Compile(p)
  PROVE  StartupInv'
<1> USE DEF StartupInv
<1>0. process[p] \in ProcessState /\ process[p].phase = "compile"
  BY DEF StartupTypes, Compile
<1>1. CASE /\ process[p].profile.valid /\ compile_catalog(process[p].catalog)
           /\ process' = [process EXCEPT ![p].phase = "bind",
                            ![p].identity = RuntimeIdentity(p), ![p].logged = RuntimeIdentity(p)]
           /\ UNCHANGED holder
  <2> DEFINE identity == RuntimeIdentity(p)
             state == [process[p] EXCEPT !.phase = "bind", !.identity = identity,
                                         !.logged = identity]
  <2>1. identity \in Identity
    BY <1>0 DEF RuntimeIdentity, Identity, ProcessState
  <2> HIDE DEF identity
  <2>2. /\ state \in ProcessState /\ state.phase = "bind"
        /\ state.label = process[p].label /\ state.image = process[p].image
        /\ state.profile = process[p].profile /\ state.catalog = process[p].catalog
        /\ state.identity = identity /\ state.logged = identity
    BY <1>0, <2>1 DEF ProcessState, Phases
  <2>3. process' = [process EXCEPT ![p] = state]
    BY <1>1 DEF StartupTypes, identity
  <2> HIDE DEF state
  <2>4. process'[p] = state
    BY <2>3 DEF StartupTypes
  <2>5. Held(p)' = {}
    BY <1>0, <1>1 DEF Held, HoldsItsPorts
  <2>6. HoldsItsPorts(p)'
    BY <2>2, <2>4, <2>5 DEF HoldsItsPorts
  <2>7. RuntimeIdentity(p)' = identity
    BY <2>2, <2>4 DEF RuntimeIdentity, identity
  <2>8. KnowsItself(p)'
    BY <1>0, <1>1, <2>2, <2>4, <2>7 DEF KnowsItself
  <2> QED
    BY <1>1, <2>2, <2>3, <2>6, <2>8, MoveKeeps DEF Compile
<1>2. CASE End(p)
  BY <1>2, EndKeeps DEF Compile, StartupTypes
<1> QED
  BY <1>1, <1>2 DEF Compile

(* Listeners are bound one after the other; the fleet is whole when the     *)
(* management port is.                                                      *)
LEMMA BindKeeps ==
  ASSUME StartupInv, NEW p \in Processes, NEW port \in Ports, Bind(p, port)
  PROVE  StartupInv'
<1> USE DEF StartupInv
<1>0. process[p] \in ProcessState /\ process[p].phase = "bind" /\ process[p].profile \in Profiles
  BY DEF StartupTypes, Bind, KnowsItself
<1>1. CASE End(p)
  BY <1>1, EndKeeps DEF Bind, StartupTypes
<1>2. CASE /\ IsFree(port)
           /\ holder' = [holder EXCEPT ![port] = p]
           /\ IF Unbound(p) = {} THEN Enter(p, "configure") ELSE UNCHANGED process
  <2>1. UNCHANGED <<file, check>>
    BY DEF Bind
  <2>2. holder' \in [Ports -> Processes \cup {None}]
    BY <1>2 DEF StartupTypes
  <2>3. Held(p)' = Held(p) \cup {port}
    BY <1>2 DEF Held, StartupTypes
  <2>4. ASSUME NEW q \in Processes, q # p PROVE Held(q)' = Held(q)
    BY <1>2, <2>4, StartupAssumption DEF Held, StartupTypes, IsFree
  <2>5. Held(p) \subseteq EndpointPorts(p)
    BY <1>0 DEF HoldsItsPorts
  <2>6. CASE Unbound(p) # {}
    <3>1. process' = process
      BY <1>2, <2>6
    <3>2. port \in EndpointPorts(p)
      BY <2>6 DEF Bind, IsNext, Unbound
    <3>3. EndpointPorts(p)' = EndpointPorts(p) /\ RuntimeIdentity(p)' = RuntimeIdentity(p)
      BY <3>1 DEF EndpointPorts, RuntimeIdentity
    <3>4. HoldsItsPorts(p)' /\ KnowsItself(p)'
      BY <1>0, <2>3, <2>5, <3>1, <3>2, <3>3 DEF HoldsItsPorts, KnowsItself
    <3>5. ASSUME NEW q \in Processes, q # p PROVE HoldsItsPorts(q)' /\ KnowsItself(q)'
      BY <2>4, <3>1, <3>5, Bystander
    <3>6. StartupTypes'
      BY <2>1, <2>2, <3>1 DEF StartupTypes
    <3> QED
      BY <3>4, <3>5, <3>6
  <2>7. CASE Unbound(p) = {}
    <3> DEFINE state == [process[p] EXCEPT !.phase = "configure"]
    <3>1. /\ state \in ProcessState /\ state.phase = "configure"
          /\ state.label = process[p].label /\ state.image = process[p].image
          /\ state.profile = process[p].profile /\ state.catalog = process[p].catalog
          /\ state.identity = process[p].identity /\ state.logged = process[p].logged
      BY <1>0 DEF ProcessState, Phases
    <3>2. process' = [process EXCEPT ![p] = state]
      BY <1>2, <2>7 DEF Enter, StartupTypes
    <3> HIDE DEF state
    <3>3. process'[p] = state
      BY <3>2 DEF StartupTypes
    <3>4. port = ManagementPort
      BY <2>7 DEF Bind, IsNext
    <3>5. Held(p) = EndpointPorts(p)
      BY <2>5, <2>7 DEF Unbound
    <3>6. EndpointPorts(p)' = EndpointPorts(p) /\ RuntimeIdentity(p)' = RuntimeIdentity(p)
      BY <3>1, <3>3 DEF EndpointPorts, RuntimeIdentity
    <3>7. HoldsItsPorts(p)'
      BY <2>3, <3>1, <3>3, <3>4, <3>5, <3>6 DEF HoldsItsPorts
    <3>8. KnowsItself(p)'
      BY <1>0, <3>1, <3>3, <3>6 DEF KnowsItself
    <3>9. ASSUME NEW q \in Processes, q # p PROVE HoldsItsPorts(q)' /\ KnowsItself(q)'
      <4>1. process'[q] = process[q]
        BY <3>2, <3>9 DEF StartupTypes
      <4> QED
        BY <2>4, <3>9, <4>1, Bystander
    <3>10. StartupTypes'
      BY <2>1, <2>2, <3>1, <3>2 DEF StartupTypes
    <3> QED
      BY <3>7, <3>8, <3>9, <3>10
  <2> QED
    BY <2>6, <2>7
<1> QED
  BY <1>1, <1>2 DEF Bind

(* The metadata the server is given passes its checks, so it is published.  *)
LEMMA ConfigureKeeps ==
  ASSUME StartupInv, NEW p \in Processes, Configure(p)
  PROVE  StartupInv'
<1> USE DEF StartupInv
<1>0. process[p] \in ProcessState /\ process[p].phase = "configure"
  BY DEF StartupTypes, Configure
<1> DEFINE state == [process[p] EXCEPT !.phase = "serve", !.metadata = process[p].identity]
<1>1. /\ state \in ProcessState /\ state.phase = "serve"
      /\ state.label = process[p].label /\ state.image = process[p].image
      /\ state.profile = process[p].profile /\ state.catalog = process[p].catalog
      /\ state.identity = process[p].identity /\ state.logged = process[p].logged
      /\ state.metadata = process[p].identity
  BY <1>0 DEF ProcessState, Phases
<1>2. /\ validate_text(process[p].label, MAX_LABEL_BYTES)
      /\ validate_text(process[p].image, MAX_IMAGE_BYTES)
  BY <1>0 DEF KnowsItself
<1>3. process' = [process EXCEPT ![p] = state]
  BY <1>2 DEF Configure, StartupTypes
<1> HIDE DEF state
<1>4. process'[p] = state
  BY <1>3 DEF StartupTypes
<1>5. EndpointPorts(p)' = EndpointPorts(p) /\ RuntimeIdentity(p)' = RuntimeIdentity(p)
  BY <1>1, <1>4 DEF EndpointPorts, RuntimeIdentity
<1>6. HoldsItsPorts(p)'
  BY <1>0, <1>1, <1>4, <1>5 DEF HoldsItsPorts, Configure, Held
<1>7. KnowsItself(p)'
  BY <1>0, <1>1, <1>4, <1>5 DEF KnowsItself
<1> QED
  BY <1>1, <1>3, <1>6, <1>7, MoveKeeps DEF Configure

(* Healthchecks and rewritten files touch no process and no port.           *)
LEMMA HostKeeps ==
  ASSUME StartupInv, UNCHANGED <<process, holder>>, StartupTypes'
  PROVE  StartupInv'
BY DEF StartupInv, HoldsItsPorts, KnowsItself, Held, EndpointPorts, RuntimeIdentity

(* Every step keeps the invariant.                                          *)
LEMMA StartupKeeps == StartupInv /\ [Next]_vars => StartupInv'
<1> SUFFICES ASSUME StartupInv, [Next]_vars PROVE StartupInv'
  OBVIOUS
<1>1. ASSUME NEW p \in Processes, Step(p) PROVE StartupInv'
  BY <1>1, StartKeeps, ReadCatalogKeeps, CompileKeeps, BindKeeps, ConfigureKeeps DEF Step
<1>2. ASSUME NEW p \in Processes, Kill(p) PROVE StartupInv'
  <2>1. check' \in [process: Processes \cup {None}, answer: {None, "ok", "failed"}]
    BY <1>2 DEF Kill, NoCheck, StartupInv, StartupTypes
  <2> QED
    BY <1>2, <2>1, EndKeeps DEF Kill, StartupInv, StartupTypes
<1>3. CASE Connect \/ Answer \/ EndCheck
  <2>1. check' \in [process: Processes \cup {None}, answer: {None, "ok", "failed"}]
    <3>1. CASE Connect
      <4>1. ManagementPort \in Ports
        BY DEF Ports
      <4> QED
        BY <3>1, <4>1 DEF Connect, StartupInv, StartupTypes
    <3>2. CASE Answer
      BY <3>2 DEF Answer, StartupInv, StartupTypes
    <3>3. CASE EndCheck
      BY <3>3 DEF EndCheck, NoCheck
    <3> QED
      BY <1>3, <3>1, <3>2, <3>3
  <2> QED
    BY <1>3, <2>1, HostKeeps DEF Connect, Answer, EndCheck, StartupInv, StartupTypes
<1>4. CASE Edit
  <2>1. file' \in [profile: Profiles, catalog: Catalogs]
    BY <1>4 DEF Edit, StartupInv, StartupTypes
  <2> QED
    BY <1>4, <2>1, HostKeeps DEF Edit, StartupInv, StartupTypes
<1>5. CASE UNCHANGED vars
  BY <1>5, HostKeeps DEF vars, StartupInv, StartupTypes
<1> QED
  BY <1>1, <1>2, <1>3, <1>4, <1>5 DEF Next

(* The invariant holds in every reachable state.                            *)
LEMMA SpecStartupInv == Spec => []StartupInv
BY StartupBegins, StartupKeeps, PTL DEF Spec

-----------------------------------------------------------------------------
(* A catalog the compiler accepts can be worked with by the controller.     *)
LEMMA CompiledCatalog ==
  ASSUME NEW raw \in Catalogs, compile_catalog(raw)
  PROVE  LET S == raw.scenarios
         IN  /\ \A i, j \in DOMAIN S : S[i].name = S[j].name => i = j
             /\ \A i \in DOMAIN S :
                  /\ S[i].lifecycle = "Transient" => S[i].duration_frames \in Nat \ {0}
                  /\ S[i].lifecycle = "Sustained" => S[i].duration_frames = None
                  /\ S[i].kind = "SignalExcursion" <=> S[i].signal = "Changes"
<1> DEFINE S == raw.scenarios
<1>1. S \in Seq(RawScenario) /\ DOMAIN S = 1..Len(S) /\ Len(S) \in Nat
  BY StartupAssumption
<1>2. \A i, j \in DOMAIN S : S[i].name = S[j].name => i = j
  <2> SUFFICES ASSUME NEW i \in DOMAIN S, NEW j \in DOMAIN S, i < j PROVE S[i].name # S[j].name
    BY <1>1
  <2>1. i \in 1..(j - 1)
    BY <1>1
  <2> QED
    BY <2>1 DEF compile_catalog
<1>3. ASSUME NEW i \in DOMAIN S
      PROVE  /\ S[i].lifecycle = "Transient" => S[i].duration_frames \in Nat \ {0}
             /\ S[i].lifecycle = "Sustained" => S[i].duration_frames = None
             /\ S[i].kind = "SignalExcursion" <=> S[i].signal = "Changes"
  <2>1. ValidLifecycle(S[i]) /\ ValidSignal(S[i])
    BY DEF compile_catalog
  <2>2. S[i].duration_frames \in Nat \cup {None}
    <3>1. S[i] \in RawScenario
      BY <1>1
    <3> QED
      BY <3>1 DEF RawScenario
  <2>3. S[i].lifecycle = "Transient" => S[i].duration_frames \in Nat \ {0}
    BY <2>1, <2>2 DEF ValidLifecycle
  <2>4. S[i].lifecycle = "Sustained" => S[i].duration_frames = None
    BY <2>1 DEF ValidLifecycle
  <2>5. S[i].kind = "SignalExcursion" <=> S[i].signal = "Changes"
    BY <2>1, StartupAssumption DEF ValidSignal, compile_signal
  <2> QED
    BY <2>3, <2>4, <2>5
<1> QED
  BY <1>2, <1>3

(* The identity a serving process publishes names the bytes it runs,        *)
(* however the files were rewritten while it started.                       *)
THEOREM IdentityIsTrue == Spec => []IdentityNamesWhatRuns
<1>1. StartupInv => IdentityNamesWhatRuns
  <2> SUFFICES ASSUME StartupInv, NEW p \in Processes, Serves(p)
               PROVE  /\ process[p].metadata = process[p].logged
                      /\ process[p].metadata.profile = process[p].profile
                      /\ process[p].metadata.catalog = process[p].catalog
                      /\ process[p].catalog \in Catalogs
                      /\ compile_catalog(process[p].catalog)
    BY CompiledCatalog DEF IdentityNamesWhatRuns
  <2> QED
    <3>1. /\ process[p].metadata = RuntimeIdentity(p) /\ process[p].logged = RuntimeIdentity(p)
          /\ process[p].catalog \in Catalogs /\ compile_catalog(process[p].catalog)
      BY DEF StartupInv, KnowsItself, Serves
    <3>2. /\ RuntimeIdentity(p).profile = process[p].profile
          /\ RuntimeIdentity(p).catalog = process[p].catalog
      BY DEF RuntimeIdentity
    <3> QED
      BY <3>1, <3>2
<1> QED
  BY <1>1, SpecStartupInv, PTL

(* A passed healthcheck was answered by a process that is ready and serves  *)
(* its whole fleet, whatever starts, ends and contends for ports around it. *)
THEOREM HealthIsTrue == Spec => HealthyMeansServing
<1>1. StartupInv /\ [Next]_vars =>
        [check'.answer = "ok" /\ check.answer # "ok" =>
           /\ Serves(check'.process) /\ process[check'.process].profile.ready
           /\ Held(check'.process) = EndpointPorts(check'.process) \cup {ManagementPort}]_vars
  <2> SUFFICES ASSUME StartupInv, [Next]_vars, check'.answer = "ok", check.answer # "ok"
               PROVE  /\ Serves(check'.process) /\ process[check'.process].profile.ready
                      /\ Held(check'.process) =
                           EndpointPorts(check'.process) \cup {ManagementPort}
    OBVIOUS
  <2>1. NoCheck.answer # "ok"
    BY StartupAssumption DEF NoCheck
  <2>2. Answer
    <3>1. check' # check
      OBVIOUS
    <3>2. ASSUME NEW p \in Processes PROVE ~Step(p) /\ ~Kill(p)
      <4>1. ~Step(p)
        BY <3>1 DEF Step, Start, ReadCatalog, Compile, Bind, Configure
      <4>2. ~Kill(p)
        BY <2>1, <3>1 DEF Kill
      <4> QED
        BY <4>1, <4>2
    <3>3. ~EndCheck /\ ~Edit /\ ~UNCHANGED vars
      BY <2>1, <3>1 DEF EndCheck, Edit, vars
    <3>4. ~Connect
      <4>1. [process |-> holder[ManagementPort], answer |-> None].answer # "ok"
        BY StartupAssumption
      <4> QED
        BY <4>1 DEF Connect
    <3> QED
      BY <3>2, <3>3, <3>4 DEF Next
  <2>3. check'.process = check.process /\ check.process \in Processes /\ Serves(check.process)
    BY <2>2 DEF Answer, IsAnswered, Serves, StartupInv, StartupTypes
  <2>4. process[check.process].profile.ready
    <3>1. "failed" # "ok"
      OBVIOUS
    <3>2. Readyz(check.process) = 200
      BY <2>2, <3>1 DEF Answer
    <3> QED
      BY <3>2 DEF Readyz
  <2> QED
    BY <2>3, <2>4 DEF StartupInv, HoldsItsPorts, Serves
<1> QED
  BY <1>1, SpecStartupInv, PTL DEF Spec, HealthyMeansServing
=============================================================================
