-------------------------- MODULE ConfigGenerations --------------------------
(***************************************************************************)
(* Hot reload of the daemon's configuration: the watcher thread of         *)
(* config_watcher.rs, the reload preflight of config_generation.rs, the    *)
(* durable manifest of config_generation_store.rs and the steps of         *)
(* daemon.rs and runtime.rs that connect them.                             *)
(*                                                                         *)
(*  disk      the configuration in the project's config directory          *)
(*  store     the durable manifest, Absent before the first start          *)
(*  rt        the generation the runtime serves, or NoGen                  *)
(*  watcher   the watcher thread: its last snapshot, whether a change is   *)
(*            waiting for the debounce, and the batches it sent            *)
(*  pc        the daemon: down, starting (two steps), its control loop,    *)
(*            and the points between the four steps of a promotion         *)
(***************************************************************************)
EXTENDS Naturals

CONSTANTS
    Configs,    \* configurations that load and pass validation
    Broken,     \* configurations that do not
    MaxGen,     \* bound on generation numbers
    MaxEdits,   \* bound on edits of the config directory
    MaxStarts   \* bound on starts of the daemon

VARIABLES disk, store, rt, loaded, watcher, pc, edits, starts

vars == <<disk, store, rt, loaded, watcher, pc, edits, starts>>

NoGen   == [generation |-> 0, digest |-> "none"]
Absent  == [phase |-> "absent", active |-> NoGen, previous |-> NoGen, candidate |-> NoGen]
NoWatch == [state |-> "off", seen |-> "none", pending |-> FALSE, batches |-> 0]
Record(g, d) == [generation |-> g, digest |-> d]

TypeOK ==
    LET Records == [generation : 0..MaxGen + 1, digest : Configs \cup {"none"}]
    IN  /\ disk \in Configs \cup Broken
        /\ store \in [phase : {"absent", "stable", "prepared", "promoted"},
                      active : Records, previous : Records, candidate : Records]
        /\ rt \in Records /\ loaded \in Configs \cup {"none"}
        /\ pc \in {"down", "build", "watch", "loop", "swap", "promote", "retire"}
        /\ watcher.state \in {"off", "running", "failed"}

Init ==
    /\ disk \in Configs /\ store = Absent /\ rt = NoGen /\ loaded = "none"
    /\ watcher = NoWatch /\ pc = "down" /\ edits = 0 /\ starts = 0

-----------------------------------------------------------------------------
\* Fault: recovery undoes a promotion as well as a preparation.
recoverFault(m) ==
  [m EXCEPT !.phase = "stable", !.candidate = NoGen, !.previous = NoGen,
            !.active = IF m.phase = "promoted" THEN m.previous ELSE @]

\* recover: a prepared candidate is dropped, a promoted one stays active.
recover(m) == [m EXCEPT !.phase = "stable", !.candidate = NoGen, !.previous = NoGen]
initialize(m, g) == IF m = Absent THEN [Absent EXCEPT !.phase = "stable", !.active = g] ELSE recover(m)
MayPrepare(m, g) == recover(m).phase = "stable" /\ g.generation > recover(m).active.generation
prepare(m, g) == [recover(m) EXCEPT !.phase = "prepared", !.candidate = g]
promote(m) == [m EXCEPT !.previous = m.active, !.active = m.candidate, !.candidate = NoGen, !.phase = "promoted"]
retire(m)  == [m EXCEPT !.phase = "stable", !.previous = NoGen]
\* decode: a manifest is read back only when its phase and its records agree.
decode(m) ==
    /\ m.active.generation > 0
    /\ m.phase = "stable"   => m.previous = NoGen /\ m.candidate = NoGen
    /\ m.phase = "prepared" => m.previous = NoGen /\ m.candidate # NoGen
    /\ m.phase = "promoted" => m.previous # NoGen /\ m.candidate = NoGen

\* The daemon's control loop ends: the watcher is stopped with it.
Stop == pc' = "down" /\ rt' = NoGen /\ loaded' = "none" /\ watcher' = NoWatch

-----------------------------------------------------------------------------
(* Start: the project is loaded, the runtime is built as generation 1, the
   manifest is recovered and must name the digest that was loaded; the
   watcher takes its baseline afterwards. *)
LoadProject ==
    /\ pc = "down" /\ starts < MaxStarts /\ disk \in Configs
    /\ starts' = starts + 1 /\ loaded' = disk /\ pc' = "build"
    /\ UNCHANGED <<disk, store, rt, watcher, edits>>

BuildRuntime ==
    LET g == Record(1, loaded)
        m == initialize(store, g)
    IN  /\ pc = "build"
        /\ store = Absent \/ decode(store)
        /\ store' = m
        /\ IF m.active.digest = loaded
             THEN rt' = g /\ pc' = "watch" /\ UNCHANGED <<loaded, watcher>>
             ELSE Stop
        /\ UNCHANGED <<disk, edits, starts>>

StartWatcher ==
    /\ pc = "watch"
    /\ watcher' = [NoWatch EXCEPT !.state = "running", !.seen = disk]
    /\ pc' = "loop"
    /\ UNCHANGED <<disk, store, rt, loaded, edits, starts>>

-----------------------------------------------------------------------------
(* The watcher thread: a poll compares snapshots; a change restarts the
   debounce; after it one batch is sent.  A config directory that cannot be
   read ends the thread. *)
watch_loop ==
    /\ watcher.state = "running"
    /\ \/ watcher.seen # disk
          /\ watcher' = [watcher EXCEPT !.seen = disk, !.pending = TRUE]
       \/ watcher.seen = disk /\ watcher.pending
          /\ watcher' = [watcher EXCEPT !.pending = FALSE, !.batches = @ + 1]
       \/ watcher' = [watcher EXCEPT !.state = "failed"]
    /\ UNCHANGED <<disk, store, rt, loaded, pc, edits, starts>>

\* A disconnected watcher fails the control loop once its batches are consumed.
WatcherStopped ==
    /\ pc = "loop" /\ watcher.state = "failed" /\ watcher.batches = 0
    /\ Stop
    /\ UNCHANGED <<disk, store, edits, starts>>

\* preflight_config_reload loads what is on disk now; a candidate that does not
\* build is reported and nothing changes; store.prepare refuses a candidate that
\* is not newer, and its error ends the loop.
Reload ==
    LET g == Record(rt.generation + 1, disk)
    IN  /\ pc = "loop" /\ watcher.batches > 0 /\ rt.generation < MaxGen
        /\ \/ disk \in Broken
              /\ watcher' = [watcher EXCEPT !.batches = @ - 1]
              /\ UNCHANGED <<store, pc, rt, loaded>>
           \/ disk \in Configs /\ MayPrepare(store, g)
              /\ store' = prepare(store, g) /\ pc' = "swap"
              /\ watcher' = [watcher EXCEPT !.batches = @ - 1]
              /\ UNCHANGED <<rt, loaded>>
           \/ disk \in Configs /\ ~MayPrepare(store, g)
              /\ store' = recover(store) /\ Stop
        /\ UNCHANGED <<disk, edits, starts>>

\* Runtime.promote_generation swaps one pointer.
promote_generation ==
    /\ pc = "swap" /\ store.candidate.generation > rt.generation
    /\ rt' = store.candidate /\ pc' = "promote"
    /\ UNCHANGED <<disk, store, loaded, watcher, edits, starts>>

StorePromote ==
    /\ pc = "promote" /\ store.phase = "prepared"
    /\ store' = promote(store) /\ pc' = "retire"
    /\ UNCHANGED <<disk, rt, loaded, watcher, edits, starts>>

StoreRetire ==
    /\ pc = "retire" /\ store.phase = "promoted"
    /\ store' = retire(store) /\ pc' = "loop"
    /\ UNCHANGED <<disk, rt, loaded, watcher, edits, starts>>

\* Shutdown or crash at any point; the manifest is written atomically.
Crash == pc # "down" /\ Stop /\ UNCHANGED <<disk, store, edits, starts>>

Edit ==
    /\ edits < MaxEdits /\ edits' = edits + 1
    /\ disk' \in (Configs \cup Broken) \ {disk}
    /\ UNCHANGED <<store, rt, loaded, watcher, pc, starts>>

Next == \/ LoadProject \/ BuildRuntime \/ StartWatcher
        \/ watch_loop \/ WatcherStopped \/ Reload
        \/ promote_generation \/ StorePromote \/ StoreRetire
        \/ Crash \/ Edit

Spec == Init /\ [][Next]_vars

-----------------------------------------------------------------------------
\* In its control loop the daemon serves the configuration the manifest names as
\* active: whatever step of a promotion was cut off, and however often the
\* daemon restarted, the served and the durable configuration agree.
ServedIsDurable ==
    /\ pc = "loop" => store.phase = "stable" /\ rt.digest = store.active.digest
    /\ store # Absent => decode(store)

\* Durable generation numbers only grow, and a number never names two
\* configurations, across crashes between prepare, swap, promote and retire.
ActiveNeverRewinds ==
    [][/\ store'.active.generation >= store.active.generation
       /\ store'.active.generation = store.active.generation => store'.active = store.active]_store

\* The planning document's acceptance of W6-L06, "restart pointer never drifts": in the
\* control loop, the runtime's generation is the manifest's active generation.
PointerNeverDrifts == pc = "loop" => rt.generation = store.active.generation
=============================================================================
