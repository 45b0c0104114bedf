------------------------------ MODULE JobFile ------------------------------
(***************************************************************************)
(* What the job store promises (internal/store/store.go), with a change to *)
(* the file as one step: the file is only ever replaced by the whole of    *)
(* what the store holds in memory, a file that could not be read is never  *)
(* replaced, and a stop or a power loss leaves a whole version of it.      *)
(* Registry implements it with a temporary file, fsync, rename and a lock. *)
(***************************************************************************)
CONSTANTS
    Id,             \* job ids
    Job,            \* valid jobs
    NoJob,          \* the id is not registered
    Unreadable      \* a jobs.json that does not parse

JobOrNone == Job \cup {NoJob}

(* What a jobs.json that parses says: its valid entries, and the ids of    *)
(* those that fail Validate.                                               *)
Contents == [jobs : [Id -> JobOrNone], bad : SUBSET Id]

VARIABLES
    running,
    view,           \* the jobs the daemon serves
    kept,           \* the broken entries it carries along
    blocked,        \* the file could not be parsed: nothing is written
    file,           \* jobs.json as a reader finds it
    durable         \* and as a power loss would leave it

vars == << running, view, kept, blocked, file, durable >>

Nothing == [i \in Id |-> NoJob]

(* persistLocked's list: a broken entry whose id was registered again is   *)
(* superseded.                                                             *)
Merged(jobs, bad) == [jobs |-> jobs, bad |-> {i \in bad : jobs[i] = NoJob}]

JobsOf(f) == IF f = Unreadable THEN Nothing ELSE f.jobs
BadOf(f) == IF f = Unreadable THEN {} ELSE f.bad

Init ==
    /\ running = FALSE /\ blocked = FALSE
    /\ view = Nothing /\ kept = {}
    /\ file \in Contents \cup {Unreadable}
    /\ durable = file

Alter ==
    /\ running
    /\ \E i \in Id, j \in JobOrNone : view' = [view EXCEPT ![i] = j]
    /\ UNCHANGED << running, kept, blocked, file, durable >>

Commit ==
    /\ running /\ ~blocked
    /\ file' = Merged(view, kept)
    /\ UNCHANGED << running, view, kept, blocked, durable >>

Settle ==
    /\ durable' = file
    /\ UNCHANGED << running, view, kept, blocked, file >>

Load ==
    /\ ~running /\ running' = TRUE
    /\ view' = JobsOf(file)
    /\ kept' = BadOf(file)
    /\ blocked' = (file = Unreadable)
    /\ UNCHANGED << file, durable >>

(* The daemon stops; with the power, the last changes to the file may go.  *)
Stop ==
    /\ running /\ running' = FALSE
    /\ view' = Nothing /\ kept' = {} /\ blocked' = FALSE
    /\ file' \in {file, durable}
    /\ UNCHANGED durable

(* A human edits or repairs the file that no daemon is writing.            *)
Edit ==
    /\ ~running \/ blocked
    /\ file' \in Contents \cup {Unreadable}
    /\ durable' = file'
    /\ UNCHANGED << running, view, kept, blocked >>

Next == Alter \/ Commit \/ Settle \/ Load \/ Stop \/ Edit

Spec == Init /\ [][Next]_vars

=============================================================================
