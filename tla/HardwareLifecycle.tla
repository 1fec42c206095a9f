------------------------- MODULE HardwareLifecycle -------------------------
(***************************************************************************)
(* Logical hardware (eva-hardware): devices discovered from the project's  *)
(* adapter manifests, the registry whose leases drivers are started under, *)
(* and the hotplug subscriber a daemon runs at its start, which compares   *)
(* the manifests with the state of its last scan and publishes the         *)
(* differences as events.                                                  *)
(***************************************************************************)
EXTENDS Integers, Sequences, FiniteSets, SequencesExt

CONSTANTS Devices, Requests,
          MaxEdits, MaxCrashes   \* bounds

Healths == {"candidate", "available", "claimed", "disconnected", "failed"}
Nil == "none"

-----------------------------------------------------------------------------
(* Discovery and the registry.                                               *)

\* discover_project_devices: one candidate per hardware adapter, its trust and health those of its manifest.
Candidate(d, enabled) == [id |-> d, trust |-> IF enabled THEN "manifest" ELSE "rejected",
                          health |-> IF enabled THEN "available" ELSE "disconnected"]
DiscoverProjectDevices(m) == {Candidate(d, m[d] = "enabled") : d \in {x \in Devices : m[x] # "absent"}}
\* DeviceRegistry::from_candidates leaves the rejected ones out.
Unregistered == [registered |-> FALSE, health |-> "disconnected", claimedBy |-> Nil]
FromCandidates(candidates) ==
    [d \in Devices |-> LET found == {c \in candidates : c.id = d /\ c.trust # "rejected"}
                       IN  IF found = {} THEN Unregistered
                           ELSE [registered |-> TRUE, health |-> (CHOOSE c \in found : TRUE).health, claimedBy |-> Nil]]
\* DeviceRegistry::claim and release.
CanClaim(device) == device.registered /\ device.claimedBy = Nil /\ device.health \in {"available", "candidate"}
Claimed(device, r) == [device EXCEPT !.claimedBy = r, !.health = "claimed"]
\* Fault: the health of the device is left as it is.
ReleasedFault(device) == [device EXCEPT !.claimedBy = Nil]

Released(device) == [device EXCEPT !.claimedBy = Nil, !.health = "available"]

-----------------------------------------------------------------------------
(* HardwareLifecycleCoordinator.                                             *)

VARIABLES registry, \* DeviceRegistry
          active,   \* device -> the request whose driver session is open, or Nil
          told      \* request -> what its last call was told about each device: "open", "closed", "error"

driverVars == <<registry, active, told>>
DriverInit ==
    /\ \E m \in [Devices -> {"enabled", "disabled"}] : registry = FromCandidates(DiscoverProjectDevices(m))
    /\ active = [d \in Devices |-> Nil]
    /\ told = [r \in Requests |-> [d \in Devices |-> "closed"]]
Tell(r, d, answer) == told' = [told EXCEPT ![r][d] = answer]
\* start_driver: not active, registered, allowed by the policy and by the OS, claimable; then the session is
\* recorded, and the audit record written: if that fails the caller gets an error and the session stays open.
StartDriver(d, r, allowed, audited) ==
    IF active[d] = Nil /\ registry[d].registered /\ allowed /\ CanClaim(registry[d])
    THEN /\ registry' = [registry EXCEPT ![d] = Claimed(@, r)] /\ active' = [active EXCEPT ![d] = r]
         /\ Tell(r, d, IF audited THEN "open" ELSE "error")
    ELSE Tell(r, d, IF told[r][d] = "open" THEN "open" ELSE "error") /\ UNCHANGED <<registry, active>>
\* stop_driver: only with the request that started it.
StopDriver(d, r, audited) ==
    IF active[d] = r
    THEN /\ active' = [active EXCEPT ![d] = Nil] /\ registry' = [registry EXCEPT ![d] = Released(@)]
         /\ Tell(r, d, IF audited THEN "closed" ELSE "error")
    ELSE UNCHANGED driverVars
\* record_driver_crash and record_hotplug_watcher_crash release the lease whoever started the driver.
RecordCrash(d) ==
    /\ active[d] # Nil
    /\ active' = [active EXCEPT ![d] = Nil] /\ registry' = [registry EXCEPT ![d] = Released(@)]
    /\ UNCHANGED told
DriverNext == \E d \in Devices : \/ \E r \in Requests : \/ \E allowed, audited \in BOOLEAN : StartDriver(d, r, allowed, audited)
                                                       \/ \E audited \in BOOLEAN : StopDriver(d, r, audited)
                                 \/ RecordCrash(d)

\* The registry's claim and the open session of a device are one thing: a device is claimed exactly by the request
\* whose session is open, whatever call failed on the way, so a device nobody drives can be started again, and at
\* most the request that was told so (or whose audit failed) holds it.
LeaseIsSession ==
    \A d \in Devices :
        /\ registry[d].claimedBy = active[d]
        /\ (registry[d].health = "claimed") = (active[d] # Nil)
        /\ active[d] = Nil /\ registry[d].registered => CanClaim(registry[d])
        /\ active[d] # Nil => told[active[d]][d] \in {"open", "error"}

-----------------------------------------------------------------------------
(* The hotplug subscriber.                                                   *)

\* HotplugStateMachine::apply: the health an action leads to; reconnect needs a lost device.
Accepts(action, previous) == action = "reconnect" => previous \in {"disconnected", "failed"}
Apply(action) == CASE action \in {"insert", "reconnect"} -> "available" [] action = "remove" -> "disconnected" [] OTHER -> "failed"
HotplugTopic(action) == CASE action \in {"insert", "reconnect"} -> "connected" [] action = "remove" -> "disconnected" [] OTHER -> "failed"
\* hotplug_action_for_transition; Nil publishes nothing.
HotplugAction(known, previous, current) ==
    IF current = "claimed" \/ (known /\ previous = current) THEN Nil
    ELSE IF current = "disconnected" THEN "remove"
    ELSE IF current = "failed" THEN "fail"
    ELSE IF ~known \/ previous \in {"candidate", "available", "claimed"} THEN "insert"
    ELSE "reconnect"

VARIABLES manifest,   \* what the project says of each device
          stored,     \* the state file: device -> health, "absent" if it has no line
          events,     \* published hotplug events, in order
          scan,       \* the scan under way: what it read, what it has still to publish, its new state
          edits, crashes,
          excused     \* devices edited between an interrupted scan and the next one

hotplugVars == <<manifest, stored, events, scan, edits, crashes, excused>>
Resting == [at |-> "idle", todo |-> {}, state |-> <<>>]
HotplugInit ==
    /\ manifest \in [Devices -> {"enabled", "disabled", "absent"}]
    /\ stored = [d \in Devices |-> "absent"] /\ events = <<>> /\ scan = Resting /\ edits = 0 /\ crashes = 0 /\ excused = {}

Current(d) == CASE manifest[d] = "enabled" -> "available" [] manifest[d] = "disabled" -> "disconnected"
                [] OTHER -> IF stored[d] = "absent" THEN "absent" ELSE "disconnected"
\* run_hotplug_subscriber_once: candidates against the stored state, then the stored devices no longer declared.
ActionFor(d) ==
    IF manifest[d] # "absent"
    THEN HotplugAction(stored[d] # "absent", IF stored[d] = "absent" THEN "disconnected" ELSE stored[d], Current(d))
    ELSE IF stored[d] \in {"absent", "disconnected"} THEN Nil ELSE "remove"
StartScan ==
    /\ scan.at \in {"idle", "again"}
    /\ scan' = [at |-> "publish", todo |-> {<<d, ActionFor(d)>> : d \in {x \in Devices : ActionFor(x) # Nil}},
                state |-> [d \in Devices |-> Current(d)]]
    /\ UNCHANGED <<manifest, stored, events, edits, crashes, excused>>
\* publish_subscriber_event, one device after another.
PublishNext ==
    /\ scan.at = "publish"
    /\ \E e \in scan.todo : /\ events' = Append(events, e) /\ scan' = [scan EXCEPT !.todo = @ \ {e}]
    /\ UNCHANGED <<manifest, stored, edits, crashes, excused>>
\* write_hardware_hotplug_state, atomically.
WriteState ==
    /\ scan.at = "publish" /\ scan.todo = {}
    /\ stored' = scan.state /\ scan' = Resting
    /\ UNCHANGED <<manifest, events, edits, crashes, excused>>
\* The daemon dies in a scan, or a publication fails; the next start scans again.
CrashScan == /\ scan.at = "publish" /\ crashes < MaxCrashes
             /\ scan' = [Resting EXCEPT !.at = "again"] /\ crashes' = crashes + 1
             /\ UNCHANGED <<manifest, stored, events, edits, excused>>
\* A manifest is edited between two scans.
EditManifest ==
    /\ scan.at # "publish" /\ edits < MaxEdits
    /\ \E d \in Devices, m \in {"enabled", "disabled", "absent"} :
          /\ manifest' = [manifest EXCEPT ![d] = m]
          /\ excused' = IF scan.at = "again" THEN excused \cup {d} ELSE excused
    /\ edits' = edits + 1 /\ UNCHANGED <<stored, events, scan, crashes>>
HotplugNext == StartScan \/ PublishNext \/ WriteState \/ CrashScan \/ EditManifest

LastEvent(d) == SelectLastInSeq(events, LAMBDA e : e[1] = d)
Told(d) == IF LastEvent(d) = 0 THEN "absent" ELSE Apply(events[LastEvent(d)][2])
\* Once a scan is complete, a consumer of the events knows every device as the state file has it, interrupted and
\* repeated scans included: no transition is lost, unless its manifest was edited before the repeated scan.
EventsExplainState == scan.at = "idle" => \A d \in Devices \ excused : Told(d) = stored[d]
\* The action chosen for a transition is one the state machine accepts from the previous health, and leads to the
\* health the scan stores ("candidate" counts as available).
ActionsAreAccepted(known, previous, current) ==
    LET action == HotplugAction(known, previous, current)
        seen == IF current = "candidate" THEN "available" ELSE current
    IN  action # Nil => Accepts(action, previous) /\ Apply(action) = seen /\ HotplugTopic(action) # ""

\* render_hotplug_subscriber_state and parse_hotplug_subscriber_state: a version line, then a line of five fields
\* per device in the order of the ids; a line of anything else, or a device before the version, is refused.
RenderState(states) ==
    <<<<"version=1">>>> \o [i \in 1..Cardinality(states) |->
        LET s == SetToSortSeq(states, LAMBDA x, y : x.device < y.device)[i]
        IN  <<"device", s.device, s.health, s.bus, s.path>>]
ParseState(lines) ==
    LET version == SelectInSeq(lines, LAMBDA l : l = <<"version=1">>)
        devices == {i \in DOMAIN lines : lines[i] # <<"version=1">>}
    IN  IF \A i \in devices : version > 0 /\ version < i /\ Len(lines[i]) = 5 /\ lines[i][1] = "device" /\ lines[i][3] \in Healths
        THEN [ok |-> TRUE, states |-> {[device |-> lines[i][2], health |-> lines[i][3], bus |-> lines[i][4], path |-> lines[i][5]] : i \in devices}]
        ELSE [ok |-> FALSE, states |-> {}]

-----------------------------------------------------------------------------
(* Drivers, and the plan of `hardware bind`.                                 *)

\* SimulatedDriver::invoke: only the bound capability.
DriverInvoke(binding, capability) == IF capability = binding THEN "completed" ELSE "permission_denied"
\* run_simulator_contract_suite: it must answer its own capability and refuse the raw one.
ContractHolds(binding) ==
    DriverInvoke(binding, binding) = "completed" /\ (binding # "hardware.raw.write" => DriverInvoke(binding, "hardware.raw.write") = "permission_denied")
\* The hardware transport: one candidate, one lease, one simulated driver bound to the called capability.
HardwareInvoke(kind, capability) == IF kind = "simulated" THEN DriverInvoke(capability, capability) ELSE "unsupported"

\* hardware_bind_plan: what the command reports for a device of this manifest entry.
BindStatus(entry, apply, allowed, granted) ==
    IF apply /\ (~allowed \/ (entry # "absent" /\ ~granted)) THEN "blocked"
    ELSE CASE entry = "absent" -> "missing" [] entry = "disabled" -> "blocked" [] OTHER -> IF apply THEN "ready_to_apply" ELSE "planned"
\* The plan promises what the coordinator would do: it is ready to apply exactly when a driver could be started on
\* the registry built from the same manifest.
BindAgrees(entry, allowed, granted) ==
    LET d == CHOOSE d \in Devices : TRUE
        device == FromCandidates(DiscoverProjectDevices([x \in Devices |-> entry]))[d]
    IN  (BindStatus(entry, TRUE, allowed, granted) = "ready_to_apply") = (device.registered /\ allowed /\ granted /\ CanClaim(device))

\* A driver that passes its contract completes no call but those of the
\* capability it is bound to; the transport binds the capability that was called,
\* and only on a simulated device.
DriverKeepsItsBinding(binding, kind, called) ==
    /\ ContractHolds(binding) /\ (DriverInvoke(binding, called) = "completed" => called = binding)
    /\ HardwareInvoke(kind, called) \in {"completed", "unsupported"}
    /\ HardwareInvoke(kind, called) = "completed" <=> kind = "simulated"
=============================================================================
