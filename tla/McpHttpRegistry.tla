--------------------------- MODULE McpHttpRegistry ---------------------------
(***************************************************************************)
(* The Streamable HTTP session registry of eva-mcp/src/lifecycle.rs: the   *)
(* sessions a process owns, the reader thread of every event stream, and   *)
(* the three ways out (abort of one stream, shutdown of one session, drain *)
(* of all).  The registry is owned by one caller at a time (&mut self);    *)
(* reader threads run beside it.  A shutdown waits for readers up to a     *)
(* deadline, so it is one action per phase and readers move in between.    *)
(*                                                                         *)
(*  sess     the map of registered sessions: the fence (state), the phase  *)
(*           of the protocol session and the streams with their reader     *)
(*           bookkeeping (cancellation flag, queue, join handle present)   *)
(*  threads  the operating system's view: which reader threads exist       *)
(*  remote   the server's view: which sessions it still holds open         *)
(*  op       the operation in progress, its deadline and its failure       *)
(***************************************************************************)
EXTENDS Naturals, FiniteSets, Functions

CONSTANTS
    MaxSessions,   \* bound on next_session_id
    Streams,       \* stream ids a caller may name
    QueueItems     \* MANAGED_STREAM_QUEUE_ITEMS

VARIABLES sess, nextId, admissionClosed, draining, threads, reaper, remote, op

vars == <<sess, nextId, admissionClosed, draining, threads, reaper, remote, op>>

Ids     == 1..MaxSessions
Readers == Ids \X Streams
Stream  == [cancel : BOOLEAN, queue : 0..QueueItems, joined : BOOLEAN]
Idle    == [kind |-> "idle", sid |-> 0, ends |-> {}, delete |-> FALSE, todo |-> {},
            queue |-> {}, failed |-> FALSE, late |-> FALSE]

TypeOK ==
    /\ DOMAIN sess \subseteq Ids
    /\ \A s \in DOMAIN sess :
          /\ sess[s].state \in {"active", "cleanup_pending"}
          /\ sess[s].phase \in {"pristine", "ready", "unready", "closed"}
          /\ \A t \in DOMAIN sess[s].streams : t \in Streams /\ sess[s].streams[t] \in Stream
    /\ nextId \in 1..(MaxSessions + 1)
    /\ admissionClosed \in BOOLEAN /\ draining \in BOOLEAN
    /\ threads \in [Readers -> {"none", "running", "exited"}]
    /\ reaper \subseteq Readers /\ remote \subseteq Ids
    /\ op.kind \in {"idle", "shutdown", "abort", "drain", "drained", "undrained", "dropped"}

Init ==
    /\ sess = << >> /\ nextId = 1
    /\ admissionClosed = FALSE /\ draining = FALSE
    /\ threads = [r \in Readers |-> "none"] /\ reaper = {} /\ remote = {}
    /\ op = Idle

\* The owner may start an operation: none is in progress and it was not dropped.
Free == op.kind \in {"idle", "drained", "undrained"}
Registered(s) == s \in DOMAIN sess
Active(s)     == Registered(s) /\ sess[s].state = "active"          \* ensure_http_session_active
LiveStreams(s) == {t \in DOMAIN sess[s].streams : ~sess[s].streams[t].joined}
Forget(f, x)  == Restrict(f, DOMAIN f \ {x})
Put(f, x, v)  == [y \in DOMAIN f \cup {x} |-> IF y = x THEN v ELSE f[y]]

\* insert_http_session: a fresh registry id, never reused.
Insert(phase, state) ==
    /\ Free /\ ~admissionClosed /\ nextId <= MaxSessions
    /\ sess' = Put(sess, nextId, [state |-> state, phase |-> phase, streams |-> << >>])
    /\ remote' = IF phase = "pristine" THEN remote ELSE remote \cup {nextId}
    /\ nextId' = nextId + 1
    /\ op' = Idle
    /\ UNCHANGED <<admissionClosed, draining, threads, reaper>>

register_starting_session == Insert("pristine", "active")

register_session ==
    \/ Insert("ready", "active")
    \/ Insert("unready", "cleanup_pending")

\* call_tool: the exchange initializes a pristine session; an error fences the
\* session unless nothing was ever sent on it.
call_tool(s) ==
    /\ Free /\ ~draining /\ Active(s)
    /\ \/ /\ sess' = [sess EXCEPT ![s].phase = IF @ = "pristine" THEN "ready" ELSE @]
          /\ remote' = remote \cup {s}
       \/ \E p \in {sess[s].phase, "unready"} :
             /\ sess' = [sess EXCEPT ![s].phase = p,
                                     ![s].state = IF p = "pristine" THEN @ ELSE "cleanup_pending"]
             /\ remote' = IF p = "pristine" THEN remote ELSE remote \cup {s}
    /\ op' = Idle
    /\ UNCHANGED <<nextId, admissionClosed, draining, threads, reaper>>

\* open_event_stream and post_event_stream: one managed reader thread each.
open_event_stream(s, t) ==
    /\ Free /\ Active(s) /\ t \notin DOMAIN sess[s].streams /\ sess[s].phase = "ready"
    /\ sess' = [sess EXCEPT ![s].streams =
                   Put(@, t, [cancel |-> FALSE, queue |-> 0, joined |-> FALSE])]
    /\ threads' = [threads EXCEPT ![s, t] = "running"]
    /\ op' = Idle
    /\ UNCHANGED <<nextId, admissionClosed, draining, reaper, remote>>

\* run_managed_http_reader: an item is queued, or the reader leaves because it
\* was cancelled, because the source ended, or because the queue is full.
ReaderQueues(s, t) ==
    /\ threads[s, t] = "running" /\ Registered(s) /\ t \in DOMAIN sess[s].streams
    /\ ~sess[s].streams[t].cancel /\ sess[s].streams[t].queue < QueueItems
    /\ sess' = [sess EXCEPT ![s].streams[t].queue = @ + 1]
    /\ UNCHANGED <<nextId, admissionClosed, draining, threads, reaper, remote, op>>

ReaderExits(s, t) ==
    /\ threads[s, t] = "running"
    /\ threads' = [threads EXCEPT ![s, t] = "exited"]
    /\ UNCHANGED <<sess, nextId, admissionClosed, draining, reaper, remote, op>>

\* try_next_stream_item: hands out a queued item; once the queue is empty and the
\* reader has gone, joins it, forgets the stream and reports the reader's end.  A
\* reader that panicked is joined with an error and its stream forgotten next time.
try_next_stream_item(s, t) ==
    /\ Free /\ Active(s) /\ t \in DOMAIN sess[s].streams
    /\ \/ /\ sess[s].streams[t].queue > 0
          /\ sess' = [sess EXCEPT ![s].streams[t].queue = @ - 1]
          /\ UNCHANGED threads
       \/ /\ sess[s].streams[t].queue = 0 /\ (threads[s, t] = "exited" \/ sess[s].streams[t].joined)
          /\ sess' = [sess EXCEPT ![s].streams = Forget(@, t)]
          /\ threads' = [threads EXCEPT ![s, t] = "none"]
       \/ /\ sess[s].streams[t].queue = 0 /\ threads[s, t] = "exited"
          /\ sess' = [sess EXCEPT ![s].streams[t].joined = TRUE]
          /\ threads' = [threads EXCEPT ![s, t] = "none"]
    /\ op' = Idle
    /\ UNCHANGED <<nextId, admissionClosed, draining, reaper, remote>>

\* Fencing a session: pending, its streams T cancelled.
Fence(s, T) ==
    [sess EXCEPT ![s].state = "cleanup_pending",
                 ![s].streams = [t \in DOMAIN @ |->
                     IF t \in T THEN [@[t] EXCEPT !.cancel = TRUE] ELSE @[t]]]

\* abort_stream_with_receipt, up to the socket: the last stream takes the session
\* with it.  A socket that cannot be closed ends the operation there.
abort_stream_with_receipt(s, t) ==
    /\ Free /\ Registered(s) /\ t \in DOMAIN sess[s].streams
    /\ LET final == DOMAIN sess[s].streams = {t}
       IN  /\ sess' = IF final THEN Fence(s, {t})
                               ELSE [sess EXCEPT ![s].streams[t].cancel = TRUE]
           /\ \/ op' = [Idle EXCEPT !.kind = IF final THEN "shutdown" ELSE "abort", !.sid = s,
                                     !.ends = {t}, !.delete = final, !.todo = {t} \cap LiveStreams(s)]
              \/ op' = Idle
    /\ UNCHANGED <<nextId, admissionClosed, draining, threads, reaper, remote>>

\* shutdown_session: the session is fenced and every socket aborted; a socket that
\* cannot be closed leaves it fenced and registered.
shutdown_session(s) ==
    /\ Free /\ Registered(s)
    /\ sess' = Fence(s, DOMAIN sess[s].streams)
    /\ \/ op' = [Idle EXCEPT !.kind = "shutdown", !.sid = s, !.delete = TRUE, !.todo = LiveStreams(s)]
       \/ op' = Idle
    /\ UNCHANGED <<nextId, admissionClosed, draining, threads, reaper, remote>>

\* The remote DELETE of an ending session (delete holds until it was tried): not
\* needed for a session the server never opened or already closed.
Delete ==
    /\ op.delete
    /\ LET s == op.sid IN
       \/ /\ sess[s].phase \in {"ready", "unready"} /\ ~op.late
          /\ sess' = [sess EXCEPT ![s].phase = "closed"]
          /\ remote' = remote \ {s}
          /\ op' = [op EXCEPT !.delete = FALSE]
       \/ /\ sess[s].phase \in {"ready", "unready"}
          /\ op' = [op EXCEPT !.delete = FALSE, !.failed = TRUE]
          /\ UNCHANGED <<sess, remote>>
       \/ /\ sess[s].phase \in {"pristine", "closed"}
          /\ sess' = [sess EXCEPT ![s].phase = "closed"]
          /\ op' = [op EXCEPT !.delete = FALSE]
          /\ UNCHANGED remote
    /\ UNCHANGED <<nextId, admissionClosed, draining, threads, reaper>>

\* wait_and_join_reader_until: a reader that has gone is joined, and one that
\* panicked is joined with an error; at the deadline, or when the socket of one
\* that still runs cannot be aborted again, the join is given up, the handle kept.
wait_and_join_reader_until ==
    /\ op.sid # 0 /\ ~op.delete
    /\ \E t \in op.todo, failed \in BOOLEAN :
          /\ op' = [op EXCEPT !.todo = @ \ {t}, !.failed = @ \/ failed]
          /\ \/ /\ ~op.late /\ threads[op.sid, t] = "exited"
                /\ threads' = [threads EXCEPT ![op.sid, t] = "none"]
                /\ sess' = [sess EXCEPT ![op.sid].streams[t].joined = TRUE]
             \/ /\ failed /\ (op.late \/ threads[op.sid, t] = "running")
                /\ UNCHANGED <<sess, threads>>
    /\ UNCHANGED <<nextId, admissionClosed, draining, reaper, remote>>

\* The end of an abort or a shutdown: any failure keeps the entry.
Finish ==
    /\ op.kind \in {"abort", "shutdown"} /\ ~op.delete /\ op.todo = {}
    /\ sess' = IF op.failed THEN sess
               ELSE IF op.kind = "shutdown" THEN Forget(sess, op.sid)
               ELSE [sess EXCEPT ![op.sid].streams = Restrict(@, DOMAIN @ \ op.ends)]
    /\ op' = Idle
    /\ UNCHANGED <<nextId, admissionClosed, draining, threads, reaper, remote>>

\* drain_all_until: admission closes for good, every session is fenced, and the
\* sessions are shut down one after the other until the deadline.
drain_all_until ==
    /\ Free
    /\ admissionClosed' = TRUE /\ draining' = TRUE
    /\ sess' = [s \in DOMAIN sess |-> [sess[s] EXCEPT !.state = "cleanup_pending"]]
    /\ op' = [Idle EXCEPT !.kind = "drain", !.queue = DOMAIN sess]
    /\ UNCHANGED <<nextId, threads, reaper, remote>>

DrainNext ==
    /\ op.kind = "drain" /\ op.sid = 0 /\ ~op.late
    /\ \E s \in op.queue :
          /\ sess' = Fence(s, DOMAIN sess[s].streams)
          /\ \/ op' = [op EXCEPT !.sid = s, !.delete = TRUE, !.todo = LiveStreams(s),
                                !.queue = @ \ {s}]
             \/ op' = [op EXCEPT !.queue = @ \ {s}]     \* a socket could not be closed
    /\ UNCHANGED <<nextId, admissionClosed, draining, threads, reaper, remote>>

DrainedOne ==
    /\ op.kind = "drain" /\ op.sid # 0 /\ ~op.delete /\ op.todo = {}
    /\ sess' = IF op.failed THEN sess ELSE Forget(sess, op.sid)
    /\ op' = [op EXCEPT !.sid = 0, !.failed = FALSE]
    /\ UNCHANGED <<nextId, admissionClosed, draining, threads, reaper, remote>>

\* The report is complete when nothing is left; a complete report past the
\* deadline is still an error.
DrainReport ==
    /\ op.kind = "drain" /\ op.sid = 0 /\ (op.queue = {} \/ op.late)
    /\ LET complete == sess = << >>
       IN  op' = [Idle EXCEPT !.kind = IF complete /\ ~op.late THEN "drained" ELSE "undrained"]
    /\ UNCHANGED <<sess, nextId, admissionClosed, draining, threads, reaper, remote>>

Deadline ==
    /\ op.kind \in {"abort", "shutdown", "drain"} /\ ~op.late
    /\ op' = [op EXCEPT !.late = TRUE]
    /\ UNCHANGED <<sess, nextId, admissionClosed, draining, threads, reaper, remote>>

\* Drop of the registry: readers are cancelled, remote sessions deleted as far as
\* the deadline allows, and every reader not joined goes to the process-wide reaper.
Drop ==
    /\ Free
    /\ \E D \in SUBSET remote : remote' = remote \ D
    /\ reaper' = reaper \cup {r \in Readers : threads[r] # "none"}
    /\ sess' = << >>
    /\ op' = [Idle EXCEPT !.kind = "dropped"]
    /\ UNCHANGED <<nextId, admissionClosed, draining, threads>>

run_reader_join_reaper(r) ==
    /\ r \in reaper /\ threads[r] = "exited"
    /\ reaper' = reaper \ {r}
    /\ threads' = [threads EXCEPT ![r] = "none"]
    /\ UNCHANGED <<sess, nextId, admissionClosed, draining, remote, op>>

Next ==
    \/ register_starting_session \/ register_session
    \/ \E s \in Ids : call_tool(s) \/ shutdown_session(s)
    \/ \E s \in Ids, t \in Streams :
          \/ open_event_stream(s, t) \/ try_next_stream_item(s, t)
          \/ abort_stream_with_receipt(s, t)
          \/ ReaderQueues(s, t) \/ ReaderExits(s, t) \/ run_reader_join_reaper(<<s, t>>)
    \/ Delete \/ wait_and_join_reader_until \/ Finish
    \/ drain_all_until \/ DrainNext \/ DrainedOne \/ DrainReport
    \/ Deadline \/ Drop

\* A reader thread or a server-side session that still exists is known to
\* somebody who will end it: the registry entry that keeps the join handle, or the
\* reaper.  (Drop may give up a remote session; nothing else may.)
NothingLeaks ==
    /\ \A r \in Readers : threads[r] # "none" =>
          \/ r \in reaper
          \/ /\ Registered(r[1]) /\ r[2] \in DOMAIN sess[r[1]].streams
             /\ ~sess[r[1]].streams[r[2]].joined
    /\ op.kind # "dropped" => remote \subseteq DOMAIN sess

\* A drain that reports completion left no session, no reader and nothing open at
\* the server, and admission stays closed behind it.
DrainedMeansQuiet ==
    op.kind = "drained" =>
        /\ sess = << >> /\ remote = {} /\ admissionClosed
        /\ \A r \in Readers : threads[r] = "none"
=============================================================================
