------------------------------ MODULE Registry ------------------------------
(***************************************************************************)
(* The registered jobs: the store (internal/store/store.go) with its file, *)
(* the requests of a client that change them (internal/daemon/handlers.go) *)
(* and the sync with the machine's schedulers (internal/daemon/sync.go).   *)
(*                                                                         *)
(* A store call changes the map and writes the file under one lock, and a  *)
(* writer's steps (temporary file, fsync, rename) may fail or be cut off   *)
(* by a crash.  A sync scans the schedulers and takes three snapshots of   *)
(* the map, none of them under the lock of the calls that follow.          *)
(*                                                                         *)
(* One client and one sync at a time; one watched source.  Nobody edits a  *)
(* readable file by hand while a daemon is running.                        *)
(***************************************************************************)
EXTENDS Naturals

CONSTANTS
    Id,
    Scheds,                     \* schedules worth a wake
    NoJob, Unreadable,
    MaxRequests,                \* a client's requests
    MaxMoves,                   \* changes of the watched source
    MaxEdits,                   \* hand edits of jobs.json
    MaxFaults                   \* failed writes, crashes, power losses

ASSUME BudgetAssumption ==
    /\ MaxRequests \in Nat /\ MaxMoves \in Nat
    /\ MaxEdits \in Nat /\ MaxFaults \in Nat

(* What a source may say of an id besides a schedule worth a wake: one     *)
(* that fires too often to wake for, one that does not parse, nothing.     *)
Often == "often"
Broken == "broken"
NoEntry == "no entry"

ASSUME SchedsAssumption ==
    Scheds \cap {Often, Broken, NoEntry} = {} /\ Scheds # {}

Entry == Scheds \cup {Often, Broken, NoEntry}

(* Schedule stands for the schedule and the command, which sync mirrors.   *)
Job == [sched : Scheds, managed : BOOLEAN, enabled : BOOLEAN]
JobOrNone == Job \cup {NoJob}
Contents == [jobs : [Id -> JobOrNone], bad : SUBSET Id]

ASSUME NoJobAssumption == NoJob \notin Job
ASSUME UnreadableAssumption == Unreadable \notin Contents

VARIABLES
    up,             \* is the daemon running
    mem,            \* Store.jobs
    invalid,        \* Store.invalid, by id
    loadErr,        \* Store.loadErr is set
    file,           \* jobs.json as a reader finds it
    durable,        \* jobs.json as a power loss would leave it
    torn,           \* the file was renamed before its contents reached the disk
    writer,         \* the store call that holds Store.mu, and where it is in writeAtomic
    user,           \* the client: its copy of a job, its request
    sync,           \* syncProviders: its phase, its scan, its snapshot
    src, readable,  \* the watched source
    dirty,          \* ids whose last change ended in an error
    touched,        \* ids the client changed since the sync's snapshot listed them
    requests, moves, edits, faults

storeVars == << mem, invalid, loadErr >>
diskVars == << file, durable, torn >>
sourceVars == << src, readable >>
budgetVars == << requests, moves, edits, faults >>
vars == << up, storeVars, diskVars, writer, user, sync, sourceVars,
           dirty, touched, budgetVars >>

Nothing == [i \in Id |-> NoJob]
Free == [by |-> "nobody", id |-> "none", pc |-> "free", flushed |-> FALSE]
UserIdle == [pc |-> "idle", id |-> "none", job |-> NoJob]
SyncIdle == [pc |-> "idle", entries |-> [i \in Id |-> NoEntry], ok |-> FALSE,
             snap |-> Nothing, todo |-> {}]

(* A mutant: the broken entries are not written back.                      *)
Listed_DropsInvalid == [jobs |-> mem, bad |-> {}]

(* jobs.json as persistLocked lists it: a broken entry rides along unless  *)
(* its id was registered again.                                            *)
Listed == [jobs |-> mem, bad |-> {i \in invalid : mem[i] = NoJob}]

JobsOf(f) == IF f = Unreadable THEN Nothing ELSE f.jobs
BadOf(f) == IF f = Unreadable THEN {} ELSE f.bad

Init ==
    /\ up = FALSE
    /\ mem = Nothing /\ invalid = {} /\ loadErr = FALSE
    /\ file = [jobs |-> Nothing, bad |-> {}]        \* a fresh install
    /\ durable = file /\ torn = FALSE
    /\ writer = Free /\ user = UserIdle /\ sync = SyncIdle
    /\ \E e \in {NoEntry} \cup Scheds : src = [i \in Id |-> e]
    /\ readable = TRUE
    /\ dirty = {} /\ touched = {}
    /\ requests = 0 /\ moves = 0 /\ edits = 0 /\ faults = 0

-----------------------------------------------------------------------------
(* The store.                                                              *)

Unlocked == up /\ writer = Free

(* A mutant: the lock is not taken.                                        *)
Change_NoLock(who, i, j) ==
    /\ up
    /\ mem' = [mem EXCEPT ![i] = j]
    /\ IF loadErr
       THEN dirty' = dirty \cup {i} /\ UNCHANGED writer
       ELSE writer' = [by |-> who, id |-> i, pc |-> "create", flushed |-> FALSE] /\ UNCHANGED dirty
    /\ UNCHANGED << up, invalid, loadErr, diskVars >>

(* A call that puts j at i: the map changes first, and a store that could  *)
(* not read its file refuses to write it.                                  *)
Change(who, i, j) ==
    /\ Unlocked
    /\ mem' = [mem EXCEPT ![i] = j]
    /\ IF loadErr
       THEN dirty' = dirty \cup {i} /\ UNCHANGED writer
       ELSE writer' = [by |-> who, id |-> i, pc |-> "create", flushed |-> FALSE] /\ UNCHANGED dirty
    /\ UNCHANGED << up, invalid, loadErr, diskVars >>

(* writeAtomic: the contents go to a temporary file, then to the disk,     *)
(* then in place of jobs.json.                                             *)
WriteTemp ==
    /\ writer.pc = "create"
    /\ writer' = [writer EXCEPT !.pc = "written"]
    /\ UNCHANGED << up, storeVars, diskVars, user, sync, sourceVars, dirty, touched,
                    budgetVars >>

(* A mutant: no fsync before the rename.                                   *)
SyncTemp_NoFsync ==
    /\ writer.pc = "written"
    /\ writer' = [writer EXCEPT !.pc = "synced"]
    /\ UNCHANGED << up, storeVars, diskVars, user, sync, sourceVars, dirty, touched,
                    budgetVars >>

SyncTemp ==
    /\ writer.pc = "written"
    /\ writer' = [writer EXCEPT !.pc = "synced", !.flushed = TRUE]
    /\ UNCHANGED << up, storeVars, diskVars, user, sync, sourceVars, dirty, touched,
                    budgetVars >>

Rename ==
    /\ writer.pc = "synced"
    /\ file' = Listed
    /\ torn' = ~writer.flushed
    /\ writer' = Free
    /\ dirty' = {}
    /\ UNCHANGED << up, storeVars, durable, user, sync, sourceVars, touched, budgetVars >>

(* Any of those steps fails: the temporary file goes, the caller is told,  *)
(* and the map stays as it was changed.                                    *)
WriteFails ==
    /\ writer.pc # "free"
    /\ faults < MaxFaults /\ faults' = faults + 1
    /\ dirty' = dirty \cup {writer.id}
    /\ writer' = Free
    /\ UNCHANGED << up, storeVars, diskVars, user, sync, sourceVars, touched,
                    requests, moves, edits >>

(* The kernel writes the file and its directory entry back.                *)
Writeback ==
    /\ durable # file \/ torn
    /\ durable' = file /\ torn' = FALSE
    /\ UNCHANGED << up, storeVars, file, writer, user, sync, sourceVars, dirty, touched,
                    budgetVars >>

(* Load: a file that does not parse is served as no jobs at all, and       *)
(* blocks every write.                                                     *)
Load ==
    /\ ~up /\ up' = TRUE
    /\ mem' = JobsOf(file)
    /\ invalid' = BadOf(file)
    /\ loadErr' = (file = Unreadable)
    /\ UNCHANGED << diskVars, writer, user, sync, sourceVars, dirty, touched, budgetVars >>

Down ==
    /\ up /\ up' = FALSE
    /\ mem' = Nothing /\ invalid' = {} /\ loadErr' = FALSE
    /\ writer' = Free /\ sync' = SyncIdle /\ user' = UserIdle
    /\ dirty' = {} /\ touched' = {}
    /\ faults < MaxFaults /\ faults' = faults + 1
    /\ UNCHANGED << sourceVars, requests, moves, edits >>

Crash == Down /\ UNCHANGED diskVars

(* The power goes: a rename not yet written back is undone, or done with   *)
(* contents that never arrived.                                            *)
PowerLoss ==
    /\ Down
    /\ file' \in {durable} \cup (IF torn THEN {Unreadable} ELSE {})
    /\ durable' = file' /\ torn' = FALSE

(* A human opens jobs.json while no daemon writes it: breaks its syntax,   *)
(* removes it, spoils an entry, or repairs a spoilt one.                   *)
HandEdit ==
    /\ ~up \/ loadErr
    /\ edits < MaxEdits /\ edits' = edits + 1
    /\ \/ file' = Unreadable
       \/ file' = [jobs |-> Nothing, bad |-> {}]
       \/ /\ file # Unreadable
          /\ \E i \in Id :
             \/ /\ file.jobs[i] # NoJob
                /\ file' = [jobs |-> [file.jobs EXCEPT ![i] = NoJob], bad |-> file.bad \cup {i}]
             \/ /\ i \in file.bad
                /\ \E s \in Scheds :
                   file' = [jobs |-> [file.jobs EXCEPT
                                ![i] = [sched |-> s, managed |-> FALSE, enabled |-> TRUE]],
                            bad |-> file.bad \ {i}]
    /\ durable' = file' /\ torn' = FALSE
    /\ UNCHANGED << up, storeVars, writer, user, sync, sourceVars, dirty, touched,
                    requests, moves, faults >>

-----------------------------------------------------------------------------
(* The client.                                                             *)

Request == requests < MaxRequests /\ requests' = requests + 1

ByUser(i) ==
    /\ touched' = touched \cup ({i} \cap sync.todo)
    /\ UNCHANGED << sync, sourceVars, moves, edits, faults >>

(* jobs.add: a job of that id is an error.                                 *)
AddJob(i) ==
    /\ user.pc = "idle" /\ Request
    /\ mem[i] = NoJob
    /\ \E s \in Scheds :
       Change("user", i, [sched |-> s, managed |-> FALSE, enabled |-> TRUE])
    /\ ByUser(i)
    /\ UNCHANGED user

(* The client reads a job that it may edit.                                *)
ReadJob(i) ==
    /\ user.pc = "idle" /\ requests < MaxRequests
    /\ Unlocked
    /\ mem[i] # NoJob
    /\ user' = [pc |-> "editing", id |-> i, job |-> mem[i]]
    /\ UNCHANGED << up, storeVars, diskVars, writer, sync, sourceVars, dirty, touched,
                    budgetVars >>

(* jobs.put looks the job up first: an edit of what sync mirrors takes it  *)
(* over.                                                                   *)
PutLooks ==
    /\ user.pc = "editing" /\ Request
    /\ Unlocked
    /\ LET existing == mem[user.id]
       IN \E s \in Scheds :
          LET taken == existing # NoJob /\ existing.managed /\ s # existing.sched
          IN user' = [user EXCEPT !.pc = "put", !.job =
                        [user.job EXCEPT !.sched = s, !.managed = @ /\ ~taken]]
    /\ UNCHANGED << up, storeVars, diskVars, writer, sync, sourceVars, dirty, touched,
                    moves, edits, faults >>

PutJob ==
    /\ user.pc = "put"
    /\ Change("user", user.id, user.job)
    /\ ByUser(user.id)
    /\ user' = UserIdle
    /\ UNCHANGED requests

(* jobs.remove, jobs.enable: an unknown job is an error.                   *)
RemoveJob(i) ==
    /\ user.pc = "idle" /\ Request
    /\ mem[i] # NoJob
    /\ Change("user", i, NoJob)
    /\ ByUser(i)
    /\ UNCHANGED user

EnableJob(i, e) ==
    /\ user.pc = "idle" /\ Request
    /\ mem[i] # NoJob
    /\ Change("user", i, [mem[i] EXCEPT !.enabled = e])
    /\ ByUser(i)
    /\ UNCHANGED user

-----------------------------------------------------------------------------
(* The sync.                                                               *)

SyncFrame ==
    UNCHANGED << user, sourceVars, budgetVars >>

(* DiscoverAll: a source that cannot be read has no entries.               *)
Discover ==
    /\ up /\ sync.pc = "idle"
    /\ sync' = [SyncIdle EXCEPT
                !.pc = "scanned", !.ok = readable,
                !.entries = IF readable THEN src ELSE @]
    /\ UNCHANGED << up, storeVars, diskVars, writer, dirty, touched >>
    /\ SyncFrame

(* The three passes, and what each means to do from the jobs it lists.     *)
Adoptable ==
    {i \in Id : sync.entries[i] \in Scheds /\ mem[i] = NoJob}

(* A mutant: a job whose schedule has become too frequent is skipped.      *)
Changed_KeepsFrequent ==
    {i \in Id : /\ mem[i] # NoJob /\ mem[i].managed
                /\ sync.entries[i] \in Scheds
                /\ sync.entries[i] # mem[i].sched}

Changed ==
    {i \in Id : /\ mem[i] # NoJob /\ mem[i].managed
                /\ sync.entries[i] \in Scheds \cup {Often}
                /\ sync.entries[i] # mem[i].sched}

(* A mutant: jobs that were registered by hand are retired too.            *)
Vanished_AnyJob ==
    {i \in Id : mem[i] # NoJob /\ sync.ok /\ sync.entries[i] = NoEntry}

Vanished ==
    {i \in Id : /\ mem[i] # NoJob /\ mem[i].managed
                /\ sync.ok
                /\ sync.entries[i] = NoEntry}

Pass(from, to, todo) ==
    /\ sync.pc = from /\ sync.todo = {}
    /\ Unlocked
    /\ sync' = [sync EXCEPT !.pc = to, !.todo = todo,
                       !.snap = [i \in Id |-> IF i \in todo THEN mem[i] ELSE NoJob]]
    /\ touched' = {}
    /\ UNCHANGED << up, storeVars, diskVars, writer, dirty >>
    /\ SyncFrame

AdoptPass == Pass("scanned", "adopt", Adoptable)
UpdatePass == Pass("adopt", "update", Changed)
RetirePass == Pass("update", "retire", Vanished)

SyncEnds ==
    /\ sync.pc = "retire" /\ sync.todo = {}
    /\ Unlocked
    /\ sync' = SyncIdle
    /\ touched' = {}
    /\ UNCHANGED << up, storeVars, diskVars, writer, dirty >>
    /\ SyncFrame

(* One id of a pass; when the store has nothing to do for it the pass goes *)
(* on to the next.                                                         *)
BySync(i, applies, j) ==
    /\ i \in sync.todo
    /\ sync' = [sync EXCEPT !.todo = @ \ {i}, !.snap[i] = NoJob]
    /\ IF applies
       THEN Change("sync", i, j)
       ELSE /\ Unlocked
            /\ UNCHANGED << up, storeVars, diskVars, writer, dirty >>
    /\ touched' = touched \ {i}
    /\ SyncFrame

(* Add refuses an id that is taken; Remove one that is gone; Put asks      *)
(* nothing.                                                                *)
Adopt(i) ==
    /\ sync.pc = "adopt"
    /\ BySync(i, mem[i] = NoJob,
              [sched |-> sync.entries[i], managed |-> TRUE, enabled |-> TRUE])

Update(i) ==
    /\ sync.pc = "update" /\ sync.entries[i] # Often
    /\ BySync(i, TRUE, [sync.snap[i] EXCEPT !.sched = sync.entries[i]])

RetireFrequent(i) ==
    /\ sync.pc = "update" /\ sync.entries[i] = Often
    /\ BySync(i, mem[i] # NoJob, NoJob)

RetireVanished(i) ==
    /\ sync.pc = "retire"
    /\ BySync(i, mem[i] # NoJob, NoJob)

-----------------------------------------------------------------------------
(* The watched source changes, or cannot be read for a while.              *)
SourceMoves ==
    /\ moves < MaxMoves /\ moves' = moves + 1
    /\ \/ /\ \E i \in Id, e \in Entry : e # src[i] /\ src' = [src EXCEPT ![i] = e]
          /\ UNCHANGED readable
       \/ readable' = ~readable /\ UNCHANGED src
    /\ UNCHANGED << up, storeVars, diskVars, writer, user, sync, dirty, touched,
                    requests, edits, faults >>

-----------------------------------------------------------------------------
WriterStep == WriteTemp \/ SyncTemp \/ Rename

SyncStep ==
    \/ Discover \/ AdoptPass \/ UpdatePass \/ RetirePass \/ SyncEnds
    \/ \E i \in Id : Adopt(i) \/ Update(i) \/ RetireFrequent(i) \/ RetireVanished(i)

UserStep ==
    \/ PutLooks \/ PutJob
    \/ \E i \in Id :
       \/ AddJob(i) \/ ReadJob(i) \/ RemoveJob(i)
       \/ \E e \in BOOLEAN : EnableJob(i, e)

Next ==
    \/ WriterStep \/ WriteFails \/ Writeback
    \/ Load \/ Crash \/ PowerLoss \/ HandEdit
    \/ UserStep \/ SyncStep \/ SourceMoves

(* A write and a sync come to their end, the loop syncs again at every     *)
(* interval, and launchd or systemd restarts a daemon that has died.       *)
Fairness ==
    /\ WF_vars(WriterStep)
    /\ WF_vars(SyncStep)
    /\ WF_vars(Load)

Spec == Init /\ [][Next]_vars /\ Fairness

-----------------------------------------------------------------------------
(* Every variable has its type; a call is only in the store while the      *)
(* daemon runs and may write.                                              *)
TypeOK ==
    /\ up \in BOOLEAN /\ loadErr \in BOOLEAN /\ torn \in BOOLEAN /\ readable \in BOOLEAN
    /\ mem \in [Id -> JobOrNone]
    /\ invalid \subseteq Id /\ dirty \subseteq Id /\ touched \subseteq Id
    /\ file \in Contents \cup {Unreadable}
    /\ durable \in Contents \cup {Unreadable}
    /\ \/ writer = Free
       \/ /\ up /\ ~loadErr
          /\ writer \in [by : {"user", "sync"}, id : Id, pc : {"create", "written", "synced"},
                          flushed : BOOLEAN]
    /\ \/ user = UserIdle
       \/ user \in [pc : {"editing", "put"}, id : Id, job : Job]
    /\ sync \in [pc : {"idle", "scanned", "adopt", "update", "retire"},
                 entries : [Id -> Entry], ok : BOOLEAN,
                 snap : [Id -> JobOrNone], todo : SUBSET Id]
    /\ src \in [Id -> Entry]
    /\ requests \in 0..MaxRequests /\ moves \in 0..MaxMoves
    /\ edits \in 0..MaxEdits /\ faults \in 0..MaxFaults

(* While no call is in the store, the file says of every job what the      *)
(* daemon serves, except for a change whose caller was told that it        *)
(* failed: what was acknowledged survives a crash.                         *)
FileIsMemory ==
    up /\ writer = Free /\ ~loadErr =>
        /\ file # Unreadable
        /\ \A i \in Id \ dirty : file.jobs[i] = mem[i]

(* The broken entry a human has yet to repair leaves the file only when a  *)
(* job of its id was registered, or by a human's hand.                     *)
BrokenEntriesKept ==
    [][\A i \in BadOf(file) : i \notin BadOf(file')
          => JobsOf(file')[i] # NoJob \/ edits' # edits \/ faults' # faults]_vars

(* A sync changes a job only if it is managed, and then to what its source *)
(* says; the job a client changed after the sync had looked is the one     *)
(* exception.                                                              *)
HumanDecisionStands ==
    [][\A i \in Id : SyncStep /\ mem'[i] # mem[i] /\ mem[i] # NoJob /\ i \notin touched
          => /\ mem[i].managed
             /\ mem'[i] # NoJob => mem'[i] = [mem[i] EXCEPT !.sched = sync.entries[i]]]_vars

(* When the source can be read and stays as it is, the managed jobs come   *)
(* to be the source's, and every entry worth a wake is covered.            *)
Agrees(i) ==
    /\ mem[i] # NoJob /\ mem[i].managed => src[i] \in {mem[i].sched, Broken}
    /\ src[i] \in Scheds => mem[i] # NoJob

ManagedSettles == <>[]readable => <>[](up /\ \A i \in Id : Agrees(i))

(* The temporary file, the fsync, the rename and the lock make up one      *)
(* atomic change of the file.                                              *)
Abstract == INSTANCE JobFile WITH running <- up, view <- mem, kept <- invalid,
                                  blocked <- loadErr

ImplementsJobFile == Abstract!Spec

=============================================================================
