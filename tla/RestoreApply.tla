---------------------------- MODULE RestoreApply ----------------------------
(***************************************************************************)
(* The destructive restore of eva-backup/src/restore_apply.rs as driven by *)
(* eva-cli/src/run/restore_cmd.rs: a plan of file mutations is verified,   *)
(* gated, locked and executed step by step under a transaction log, and a  *)
(* stopped restore is undone from the pre-restore archive.  Every write is *)
(* a step of its own; the command may crash between any two of them, and   *)
(* somebody else may edit the target tree between commands.                *)
(*                                                                         *)
(*  files    what is on disk at each path: "none" (no file), "old" (the    *)
(*           content of the pre-restore backup), "new" (the restored one)  *)
(*           or "other" (content the plan knows nothing about)             *)
(*  plan     the sequence of mutation steps, archive the paths the         *)
(*           pre-restore archive holds                                     *)
(*  txn, rb  the transaction log and the rollback log on disk              *)
(*  cmd      the running command: its step index and what it executed      *)
(***************************************************************************)
EXTENDS Naturals, Sequences, FiniteSetsExt

CONSTANTS
    Paths,      \* target paths
    MaxSteps,   \* bound on the length of a plan
    MaxEdits,   \* bound on edits of the tree by others
    MaxRuns     \* bound on commands

VARIABLES files, before, plan, archive, locks, txn, rb, cmd, edits, runs

vars == <<files, before, plan, archive, locks, txn, rb, cmd, edits, runs>>

Contents == {"none", "old", "new", "other"}
Step     == [op : {"copy", "delete", "replace"}, path : Paths]
NoLog    == [entries |-> << >>, status |-> "absent", executed |-> FALSE]
NoCmd    == [kind |-> "none", phase |-> "idle", at |-> 1, executed |-> FALSE]
Entry(i, status) == [seq |-> i, status |-> status]

TypeOK ==
    /\ files \in [Paths -> Contents] /\ before \in [Paths -> Contents]
    /\ \A i \in DOMAIN plan : plan[i] \in Step
    /\ archive \subseteq Paths
    /\ locks \subseteq {"apply", "rollback"}
    /\ txn.status \in {"absent", "open", "applied", "rollback_required"}
    /\ rb.status \in {"absent", "open", "rolled_back", "rollback_failed"}
    /\ cmd.kind \in {"none", "apply", "rollback"}
    /\ edits \in 0..MaxEdits /\ runs \in 0..MaxRuns

Init ==
    /\ files \in [Paths -> {"none", "old", "other"}]
    /\ before = files
    /\ plan \in UNION {[1..n -> Step] : n \in 1..MaxSteps}
    /\ archive \in SUBSET Paths
    /\ locks = {} /\ txn = NoLog /\ rb = NoLog /\ cmd = NoCmd
    /\ edits = 0 /\ runs = 0

\* create_restore_apply: the plan's confirmation, the backup and pre-restore
\* evidence and the policy are checked before the lock; an unhealthy target is
\* noticed after it.  The lock file is never removed.
create_restore_apply(verified, healthy) ==
    /\ cmd = NoCmd /\ runs < MaxRuns
    /\ runs' = runs + 1
    /\ IF ~verified \/ "apply" \in locks
       THEN UNCHANGED <<locks, cmd>>
       ELSE /\ locks' = locks \cup {"apply"}
            /\ cmd' = IF healthy THEN [NoCmd EXCEPT !.kind = "apply", !.phase = "open"] ELSE cmd
    /\ UNCHANGED <<files, before, plan, archive, txn, rb, edits>>

\* RestoreMutationEngine.apply writes the header of a fresh log.  `before' is a
\* history variable: the tree the restore found.
OpenTransaction ==
    /\ cmd.kind = "apply" /\ cmd.phase = "open"
    /\ txn' = [NoLog EXCEPT !.status = "open"]
    /\ before' = files
    /\ cmd' = [cmd EXCEPT !.phase = "start"]
    /\ UNCHANGED <<files, plan, archive, locks, rb, edits, runs>>

\* append_restore_transaction_log: "started" goes to the log before the mutation.
LogStarted ==
    /\ cmd.kind = "apply" /\ cmd.phase = "start" /\ cmd.at <= Len(plan)
    /\ txn' = [txn EXCEPT !.entries = Append(@, Entry(cmd.at, "started"))]
    /\ cmd' = [cmd EXCEPT !.phase = "mutate"]
    /\ UNCHANGED <<files, before, plan, archive, locks, rb, edits, runs>>

\* Fault: a changed target may be replaced or deleted like the original one.
StepAllowedFault(s) == IF s.op = "copy" THEN files[s.path] = "none" ELSE files[s.path] # "none"

\* The checks of apply_restore_mutation_step: copy needs a free target, delete and
\* replace the digest of the pre-restore content.
StepAllowed(s) == IF s.op = "copy" THEN files[s.path] = "none" ELSE files[s.path] = "old"

\* apply_restore_mutation_step: the write is atomic (temporary file and rename),
\* except that a replace removes the old file first: a failing rename leaves the
\* path empty and counts as executed.
apply_restore_mutation_step ==
    /\ cmd.kind = "apply" /\ cmd.phase = "mutate"
    /\ LET s == plan[cmd.at] IN
       \/ /\ StepAllowed(s)
          /\ files' = [files EXCEPT ![s.path] = IF s.op = "delete" THEN "none" ELSE "new"]
          /\ cmd' = [cmd EXCEPT !.phase = "committed", !.executed = TRUE]
       \/ /\ s.op = "replace" /\ StepAllowed(s)
          /\ files' = [files EXCEPT ![s.path] = "none"]
          /\ cmd' = [cmd EXCEPT !.phase = "removed"]
       \/ /\ cmd' = [cmd EXCEPT !.phase = "failed"]
          /\ UNCHANGED files
    /\ UNCHANGED <<before, plan, archive, locks, txn, rb, edits, runs>>

\* replace_restore_target_atomically, second half: the rename.
RenameReplacement ==
    /\ cmd.kind = "apply" /\ cmd.phase = "removed"
    /\ \/ /\ files' = [files EXCEPT ![plan[cmd.at].path] = "new"]
          /\ cmd' = [cmd EXCEPT !.phase = "committed", !.executed = TRUE]
       \/ /\ cmd' = [cmd EXCEPT !.phase = "failed", !.executed = TRUE]
          /\ UNCHANGED files
    /\ UNCHANGED <<before, plan, archive, locks, txn, rb, edits, runs>>

LogOutcome ==
    /\ cmd.kind = "apply" /\ cmd.phase \in {"committed", "failed"}
    /\ txn' = [txn EXCEPT !.entries = Append(@, Entry(cmd.at, cmd.phase))]
    /\ cmd' = IF cmd.phase = "committed" THEN [cmd EXCEPT !.phase = "start", !.at = @ + 1]
                                         ELSE [cmd EXCEPT !.phase = "stopped"]
    /\ UNCHANGED <<files, before, plan, archive, locks, rb, edits, runs>>

\* append_restore_transaction_status closes the log and the command.
CloseTransaction ==
    /\ cmd.kind = "apply"
    /\ \/ cmd.phase = "stopped" /\ txn' = [txn EXCEPT !.status = "rollback_required", !.executed = cmd.executed]
       \/ cmd.phase = "start" /\ cmd.at > Len(plan)
          /\ txn' = [txn EXCEPT !.status = "applied", !.executed = cmd.executed]
    /\ cmd' = NoCmd
    /\ UNCHANGED <<files, before, plan, archive, locks, rb, edits, runs>>

\* rollback_candidates: the committed steps and the replace that failed once
\* something was executed, by their places in the log.  Newest first, so the ones
\* still to be undone are those before the one in hand.
Undone(e) ==
    \/ e.status = "committed"
    \/ e.status = "failed" /\ txn.executed /\ plan[e.seq].op = "replace"
Candidates == {i \in DOMAIN txn.entries : Undone(txn.entries[i])}
Remaining == {i \in Candidates : i < cmd.at}

\* create_restore_rollback and the head of RestoreRollbackEngine.apply: the lock is
\* taken first; a log that is missing, still open, already applied or without an
\* executed mutation is refused.
create_restore_rollback(verified) ==
    /\ cmd = NoCmd /\ runs < MaxRuns
    /\ runs' = runs + 1
    /\ IF ~verified \/ "rollback" \in locks
       THEN UNCHANGED <<locks, rb, cmd>>
       ELSE /\ locks' = locks \cup {"rollback"}
            /\ IF txn.status = "rollback_required" /\ txn.executed
               THEN /\ rb' = [NoLog EXCEPT !.status = "open"]
                    /\ cmd' = IF Candidates = {} THEN cmd
                              ELSE [kind |-> "rollback", phase |-> "start", at |-> Len(txn.entries) + 1, executed |-> FALSE]
               ELSE UNCHANGED <<rb, cmd>>
    /\ UNCHANGED <<files, before, plan, archive, txn, edits>>

RollbackStarted ==
    /\ cmd.kind = "rollback" /\ cmd.phase = "start" /\ Remaining # {}
    /\ LET i == Max(Remaining) IN
       /\ rb' = [rb EXCEPT !.entries = Append(@, Entry(i, "started"))]
       /\ cmd' = [cmd EXCEPT !.phase = "mutate", !.at = i]
    /\ UNCHANGED <<files, before, plan, archive, locks, txn, edits, runs>>

\* verify_current_digest_for_rollback and verify_restore_rollback_restore_target:
\* what the path may hold for its step to be undone.
MayUndo(e) ==
    LET s == plan[e.seq] now == files[s.path] IN
    CASE s.op = "copy"    -> now = "new"
      [] s.op = "delete"  -> s.path \in archive /\ now \in {"none", "old"}
      [] s.op = "replace" -> /\ s.path \in archive
                             /\ now \in {"new", "old"} \/ (now = "none" /\ e.status = "failed")

\* apply_restore_rollback_step: a copied file is removed, a deleted or replaced
\* one is written back from the archive; the write itself may fail.
apply_restore_rollback_step ==
    /\ cmd.kind = "rollback" /\ cmd.phase = "mutate"
    /\ LET e == txn.entries[cmd.at] s == plan[e.seq] IN
       \/ /\ MayUndo(e)
          /\ files' = [files EXCEPT ![s.path] = IF s.op = "copy" THEN "none" ELSE "old"]
          /\ cmd' = [cmd EXCEPT !.phase = "committed", !.executed = TRUE]
       \/ /\ cmd' = [cmd EXCEPT !.phase = "failed"]
          /\ UNCHANGED files
    /\ UNCHANGED <<before, plan, archive, locks, txn, rb, edits, runs>>

RollbackOutcome ==
    /\ cmd.kind = "rollback" /\ cmd.phase \in {"committed", "failed"}
    /\ rb' = [rb EXCEPT !.entries = Append(@, Entry(cmd.at, cmd.phase))]
    /\ cmd' = [cmd EXCEPT !.phase = IF cmd.phase = "committed" THEN "start" ELSE "stopped"]
    /\ UNCHANGED <<files, before, plan, archive, locks, txn, edits, runs>>

CloseRollback ==
    /\ cmd.kind = "rollback"
    /\ \/ cmd.phase = "stopped" /\ rb' = [rb EXCEPT !.status = "rollback_failed", !.executed = cmd.executed]
       \/ cmd.phase = "start" /\ Remaining = {}
          /\ rb' = [rb EXCEPT !.status = "rolled_back", !.executed = cmd.executed]
    /\ cmd' = NoCmd
    /\ UNCHANGED <<files, before, plan, archive, locks, txn, edits, runs>>

\* The command dies; files, logs and locks stay as they are.
Crash ==
    /\ cmd # NoCmd /\ cmd' = NoCmd
    /\ UNCHANGED <<files, before, plan, archive, locks, txn, rb, edits, runs>>

\* Somebody else writes or removes a file while no command runs.
Edit(p) ==
    /\ cmd = NoCmd /\ edits < MaxEdits
    /\ edits' = edits + 1
    /\ \E c \in {"none", "other"} : files' = [files EXCEPT ![p] = c]
    /\ UNCHANGED <<before, plan, archive, locks, txn, rb, cmd, runs>>

Next ==
    \/ \E v \in BOOLEAN, h \in BOOLEAN : create_restore_apply(v, h)
    \/ OpenTransaction \/ LogStarted \/ apply_restore_mutation_step \/ RenameReplacement
    \/ LogOutcome \/ CloseTransaction
    \/ \E v \in BOOLEAN : create_restore_rollback(v)
    \/ RollbackStarted \/ apply_restore_rollback_step \/ RollbackOutcome \/ CloseRollback
    \/ Crash \/ \E p \in Paths : Edit(p)

\* Write-ahead evidence: whatever a restore changed on disk is announced in its
\* transaction log, also when the command died half way.
MutationIsLogged ==
    (edits = 0 /\ rb.status = "absent") =>
        \A p \in Paths : files[p] # before[p] =>
            \E i \in DOMAIN txn.entries : plan[txn.entries[i].seq].path = p

\* A restore that calls itself applied carried out its whole plan, and one that
\* calls itself rolled back left no restored content behind.
StatusIsTrue ==
    edits = 0 =>
        /\ (txn.status = "applied" /\ rb.status = "absent") =>
              \A p \in Paths : \A i \in DOMAIN plan :
                  (plan[i].path = p /\ \A j \in DOMAIN plan : j > i => plan[j].path # p) =>
                      files[p] = IF plan[i].op = "delete" THEN "none" ELSE "new"
        /\ rb.status = "rolled_back" =>
              \A p \in Paths : files[p] = before[p] \/ (files[p] = "old" /\ p \in archive)

\* Content the plan does not know is never overwritten or removed, by the restore
\* or by its rollback.
ForeignKept ==
    [][\A x \in Paths : files[x] = "other" => files'[x] = "other" \/ edits' # edits]_vars
=============================================================================
