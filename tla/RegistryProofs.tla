--------------------------- MODULE RegistryProofs ---------------------------
(***************************************************************************)
(* Theorems about Registry, for any ids, schedules and budgets: the store  *)
(* keeps its types, its file holds every acknowledged change and every     *)
(* broken entry, and its lock, temporary file, fsync and rename implement  *)
(* the atomic file of JobFile.  And about Calendar: when a schedule fires. *)
(***************************************************************************)
EXTENDS Registry, Calendar, WellFoundedInduction, TLAPS

storeSide == << up, storeVars, diskVars, writer, dirty >>

StoreType ==
    /\ up \in BOOLEAN /\ loadErr \in BOOLEAN /\ torn \in BOOLEAN
    /\ mem \in [Id -> JobOrNone]
    /\ invalid \subseteq Id /\ dirty \subseteq Id
    /\ file \in Contents \cup {Unreadable}
    /\ durable \in Contents \cup {Unreadable}
    /\ \/ writer = Free
       \/ /\ up /\ ~loadErr
          /\ writer \in [by : {"user", "sync"}, id : Id, pc : {"create", "written", "synced"},
                         flushed : BOOLEAN]

\* The file a running daemon may write says what the daemon serves, but for the changes
\* that failed and the one that is under way, and holds no broken entry unknown to it.
InStep ==
    up /\ ~loadErr =>
        /\ file # Unreadable
        /\ \A i \in Id \ dirty : writer.pc = "free" \/ i # writer.id => file.jobs[i] = mem[i]
        /\ file.bad \subseteq invalid

\* Nothing is renamed before it is on the disk.
Flushed == ~torn /\ (writer.pc = "synced" => writer.flushed)

UserType == user = UserIdle \/ user \in [pc : {"editing", "put"}, id : Id, job : Job]

\* A pass holds ids for which what it means to do is defined.
SyncType ==
    /\ sync \in [pc : {"idle", "scanned", "adopt", "update", "retire"},
                 entries : [Id -> Entry], ok : BOOLEAN,
                 snap : [Id -> JobOrNone], todo : SUBSET Id]
    /\ sync.pc = "adopt" => \A i \in sync.todo : sync.entries[i] \in Scheds
    /\ sync.pc = "update" =>
        \A i \in sync.todo : sync.snap[i] \in Job /\ sync.entries[i] \in Scheds \cup {Often}

SourceType == src \in [Id -> Entry]

Budgets ==
    /\ requests \in 0..MaxRequests /\ moves \in 0..MaxMoves
    /\ edits \in 0..MaxEdits /\ faults \in 0..MaxFaults
    /\ readable \in BOOLEAN /\ touched \subseteq Id

IInv == StoreType /\ InStep /\ Flushed /\ UserType /\ SyncType /\ SourceType /\ Budgets

Changes == \E who \in {"user", "sync"}, i \in Id, j \in JobOrNone : Change(who, i, j)

-----------------------------------------------------------------------------
(* A client's and a sync's steps change the store by Change, or not at all. *)

LEMMA UserChanges ==
    ASSUME IInv, UserStep
    PROVE  Changes \/ UNCHANGED storeSide
<1>1. CASE PutLooks
  BY <1>1 DEF PutLooks, storeSide, storeVars, diskVars
<1>2. CASE PutJob
  <2>1. user.id \in Id /\ user.job \in JobOrNone
    BY <1>2 DEF IInv, UserType, PutJob, UserIdle, JobOrNone
  <2> QED
    BY <1>2, <2>1 DEF PutJob, Changes
<1>3. ASSUME NEW i \in Id, AddJob(i) PROVE Changes
  <2>1. PICK s \in Scheds :
            Change("user", i, [sched |-> s, managed |-> FALSE, enabled |-> TRUE])
    BY <1>3 DEF AddJob
  <2>2. [sched |-> s, managed |-> FALSE, enabled |-> TRUE] \in JobOrNone
    BY DEF JobOrNone, Job
  <2> QED
    BY <2>1, <2>2 DEF Changes
<1>4. ASSUME NEW i \in Id, ReadJob(i) PROVE UNCHANGED storeSide
  BY <1>4 DEF ReadJob, storeSide, storeVars, diskVars
<1>5. ASSUME NEW i \in Id, RemoveJob(i) PROVE Changes
  BY <1>5 DEF RemoveJob, Changes, JobOrNone
<1>6. ASSUME NEW i \in Id, NEW e \in BOOLEAN, EnableJob(i, e) PROVE Changes
  <2>1. mem[i] \in Job
    BY <1>6 DEF EnableJob, IInv, StoreType, JobOrNone
  <2>2. [mem[i] EXCEPT !.enabled = e] \in JobOrNone
    BY <2>1 DEF JobOrNone, Job
  <2> QED
    BY <1>6, <2>2 DEF EnableJob, Changes
<1> QED
  BY <1>1, <1>2, <1>3, <1>4, <1>5, <1>6 DEF UserStep

LEMMA SyncChanges ==
    ASSUME IInv, SyncStep
    PROVE  Changes \/ UNCHANGED storeSide
<1> DEFINE Kept == UNCHANGED storeSide
<1>1. CASE Discover \/ AdoptPass \/ UpdatePass \/ RetirePass \/ SyncEnds
  BY <1>1 DEF Discover, AdoptPass, UpdatePass, RetirePass, Pass, SyncEnds, storeSide,
              storeVars, diskVars
<1>2. ASSUME NEW i \in Id, NEW j, NEW applies \in BOOLEAN, BySync(i, applies, j),
             applies => j \in JobOrNone
      PROVE  Changes \/ Kept
  BY <1>2 DEF BySync, Changes, storeSide, storeVars, diskVars
<1>3. ASSUME NEW i \in Id, Adopt(i) PROVE Changes \/ Kept
  <2>1. sync.entries[i] \in Scheds
    BY <1>3 DEF Adopt, BySync, IInv, SyncType
  <2>2. [sched |-> sync.entries[i], managed |-> TRUE, enabled |-> TRUE] \in JobOrNone
    BY <2>1 DEF JobOrNone, Job
  <2> QED
    BY <1>2, <1>3, <2>2 DEF Adopt
<1>4. ASSUME NEW i \in Id, Update(i) PROVE Changes \/ Kept
  <2>1. sync.snap[i] \in Job /\ sync.entries[i] \in Scheds
    BY <1>4 DEF Update, BySync, IInv, SyncType
  <2>2. [sync.snap[i] EXCEPT !.sched = sync.entries[i]] \in JobOrNone
    BY <2>1 DEF JobOrNone, Job
  <2> QED
    BY <1>2, <1>4, <2>2 DEF Update
<1>5. ASSUME NEW i \in Id, RetireFrequent(i) \/ RetireVanished(i) PROVE Changes \/ Kept
  <2>1. BySync(i, mem[i] # NoJob, NoJob)
    BY <1>5 DEF RetireFrequent, RetireVanished
  <2> QED
    BY <1>2, <2>1 DEF JobOrNone
<1> QED
  BY <1>1, <1>3, <1>4, <1>5 DEF SyncStep

\* The steps that are neither leave the clients' and the sync's state, or reset it.
LEMMA NextCases ==
    ASSUME IInv, Next
    PROVE  \/ Changes \/ UNCHANGED storeSide
           \/ WriteTemp \/ SyncTemp \/ Rename \/ WriteFails \/ Writeback
           \/ Load \/ Crash \/ PowerLoss \/ HandEdit
<1>1. CASE SourceMoves
  BY <1>1 DEF SourceMoves, storeSide, storeVars, diskVars
<1> QED
  BY <1>1, UserChanges, SyncChanges DEF Next, WriterStep

-----------------------------------------------------------------------------
(* The store's part of the invariant.                                      *)

LEMMA EmptyTypes ==
    /\ Nothing \in [Id -> JobOrNone]
    /\ [jobs |-> Nothing, bad |-> {}] \in Contents
    /\ \A f \in Contents \cup {Unreadable} :
          JobsOf(f) \in [Id -> JobOrNone] /\ BadOf(f) \subseteq Id
<1>1. Nothing \in [Id -> JobOrNone]
  BY DEF Nothing, JobOrNone
<1> QED
  BY <1>1 DEF Contents, JobsOf, BadOf

LEMMA ListedType ==
    ASSUME StoreType
    PROVE  Listed \in Contents /\ Listed.jobs = mem /\ Listed.bad \subseteq invalid
  BY DEF StoreType, Listed, Contents

LEMMA ChangeKeeps ==
    ASSUME IInv, NEW who \in {"user", "sync"}, NEW i \in Id, NEW j \in JobOrNone,
           Change(who, i, j)
    PROVE  StoreType' /\ InStep' /\ Flushed'
<1> USE DEF IInv
<1>1. mem' \in [Id -> JobOrNone] /\ \A k \in Id \ {i} : mem'[k] = mem[k]
  BY DEF Change, StoreType
<1>2. CASE loadErr
  <2>1. StoreType'
    BY <1>1, <1>2 DEF Change, StoreType, Unlocked, Free, diskVars
  <2> QED
    BY <1>2, <2>1 DEF Change, InStep, Flushed, diskVars
<1>3. CASE ~loadErr
  <2>1. /\ writer' = [by |-> who, id |-> i, pc |-> "create", flushed |-> FALSE]
        /\ UNCHANGED << up, loadErr, invalid, file, durable, torn, dirty >> /\ up
        /\ writer.pc = "free"
    BY <1>3 DEF Change, diskVars, Unlocked, Free
  <2>2. writer' \in [by : {"user", "sync"}, id : Id, pc : {"create", "written", "synced"},
                     flushed : BOOLEAN]
    BY <2>1
  <2>3. StoreType'
    BY <1>1, <1>3, <2>1, <2>2 DEF StoreType
  <2>4. writer'.id = i /\ writer'.pc = "create"
    BY <2>1
  <2>5. InStep'
    BY <1>1, <1>3, <2>1, <2>4 DEF InStep
  <2>6. Flushed'
    BY <2>1, <2>4 DEF Flushed
  <2> QED
    BY <2>3, <2>5, <2>6
<1> QED
  BY <1>2, <1>3 DEF StoreType

LEMMA WriterKeeps ==
    ASSUME IInv, WriteTemp \/ SyncTemp \/ Rename \/ WriteFails \/ Writeback
    PROVE  StoreType' /\ InStep' /\ Flushed'
<1> USE DEF IInv
<1> DEFINE Writing == [by : {"user", "sync"}, id : Id, pc : {"create", "written", "synced"},
                       flushed : BOOLEAN]
<1>0. writer.pc # "free" => up /\ ~loadErr /\ writer \in Writing
  BY DEF StoreType, Free
<1>1. ASSUME WriteTemp \/ SyncTemp PROVE StoreType' /\ InStep' /\ Flushed'
  <2>1. /\ UNCHANGED << up, mem, invalid, loadErr, file, durable, torn, dirty >>
        /\ writer' \in Writing /\ writer'.id = writer.id /\ writer.pc # "free"
        /\ writer'.pc = "synced" => writer'.flushed
        /\ writer'.pc # "free"
    BY <1>0, <1>1 DEF WriteTemp, SyncTemp, storeVars, diskVars
  <2>2. StoreType'
    BY <1>0, <2>1 DEF StoreType
  <2> QED
    BY <2>1, <2>2 DEF InStep, Flushed
<1>2. CASE Rename
  <2>1. /\ UNCHANGED << up, mem, invalid, loadErr, durable >>
        /\ file' = Listed /\ writer' = Free /\ dirty' = {} /\ torn' = ~writer.flushed
        /\ writer.pc = "synced"
    BY <1>2 DEF Rename, storeVars
  <2>2. torn' = FALSE
    BY <2>1 DEF Flushed
  <2>3. StoreType'
    BY <2>1, <2>2, ListedType DEF StoreType
  <2>4. InStep'
    BY <2>1, ListedType, UnreadableAssumption DEF InStep
  <2>5. writer'.pc # "synced"
    BY <2>1 DEF Free
  <2> QED
    BY <2>2, <2>3, <2>4, <2>5 DEF Flushed
<1>3. CASE WriteFails
  <2>1. /\ UNCHANGED << up, mem, invalid, loadErr, file, durable, torn >>
        /\ writer' = Free /\ dirty' = dirty \cup {writer.id} /\ writer.pc # "free"
    BY <1>3 DEF WriteFails, storeVars, diskVars
  <2>2. StoreType'
    BY <1>0, <2>1 DEF StoreType
  <2>3. writer'.pc = "free"
    BY <2>1 DEF Free
  <2> QED
    BY <2>1, <2>2, <2>3 DEF InStep, Flushed
<1>4. CASE Writeback
  <2>1. /\ UNCHANGED << up, mem, invalid, loadErr, file, writer, dirty >>
        /\ durable' = file /\ torn' = FALSE
    BY <1>4 DEF Writeback, storeVars
  <2> QED
    BY <2>1 DEF StoreType, InStep, Flushed
<1> QED
  BY <1>1, <1>2, <1>3, <1>4

LEMMA LoadKeeps ==
    ASSUME IInv, Load
    PROVE  StoreType' /\ InStep' /\ Flushed'
<1> USE DEF IInv
<1>1. /\ ~up /\ up' = TRUE /\ mem' = JobsOf(file) /\ invalid' = BadOf(file)
      /\ loadErr' = (file = Unreadable)
      /\ UNCHANGED << file, durable, torn, writer, dirty >>
  BY DEF Load, diskVars
<1>2. writer = Free
  BY <1>1 DEF StoreType
<1>3. StoreType'
  BY <1>1, <1>2, EmptyTypes DEF StoreType
<1>4. InStep'
  BY <1>1 DEF InStep, JobsOf, BadOf
<1> QED
  BY <1>1, <1>3, <1>4 DEF Flushed

LEMMA DownKeeps ==
    ASSUME IInv, Crash \/ PowerLoss
    PROVE  StoreType' /\ InStep' /\ Flushed'
<1> USE DEF IInv
<1>1. /\ up' = FALSE /\ mem' = Nothing /\ invalid' = {} /\ loadErr' = FALSE
      /\ writer' = Free /\ dirty' = {}
  BY DEF Crash, PowerLoss, Down
<1>2. /\ file' \in {file, durable} /\ durable' \in {file, durable}
      /\ torn' = FALSE
  BY DEF Crash, PowerLoss, diskVars, Flushed
<1>3. writer'.pc # "synced"
  BY <1>1 DEF Free
<1>4. StoreType'
  BY <1>1, <1>2, EmptyTypes DEF StoreType
<1> QED
  BY <1>1, <1>2, <1>3, <1>4 DEF InStep, Flushed

\* What a human leaves is a jobs.json, readable or not.
LEMMA EditType ==
    ASSUME IInv, HandEdit
    PROVE  file' \in Contents \cup {Unreadable}
<1> USE DEF IInv
<1>1. CASE file' = Unreadable \/ file' = [jobs |-> Nothing, bad |-> {}]
  BY <1>1, EmptyTypes
<1>2. ASSUME file # Unreadable, NEW i \in Id,
             file' = [jobs |-> [file.jobs EXCEPT ![i] = NoJob], bad |-> file.bad \cup {i}]
      PROVE  file' \in Contents
  BY <1>2 DEF StoreType, Contents, JobOrNone
<1>3. ASSUME file # Unreadable, NEW i \in Id, NEW s \in Scheds,
             file' = [jobs |-> [file.jobs EXCEPT
                                  ![i] = [sched |-> s, managed |-> FALSE, enabled |-> TRUE]],
                      bad |-> file.bad \ {i}]
      PROVE  file' \in Contents
  <2>1. [sched |-> s, managed |-> FALSE, enabled |-> TRUE] \in JobOrNone
    BY DEF JobOrNone, Job
  <2> QED
    BY <1>3, <2>1 DEF StoreType, Contents
<1> QED
  BY <1>1, <1>2, <1>3 DEF HandEdit

LEMMA EditKeeps ==
    ASSUME IInv, HandEdit
    PROVE  StoreType' /\ InStep' /\ Flushed'
<1> USE DEF IInv
<1>1. /\ ~up \/ loadErr
      /\ UNCHANGED << up, mem, invalid, loadErr, writer, dirty >>
      /\ durable' = file' /\ torn' = FALSE
  BY DEF HandEdit, storeVars
<1>2. StoreType'
  BY <1>1, EditType DEF StoreType
<1> QED
  BY <1>1, <1>2 DEF InStep, Flushed

LEMMA StoreKeeps ==
    ASSUME IInv, Next
    PROVE  StoreType' /\ InStep' /\ Flushed'
<1>1. CASE UNCHANGED storeSide
  BY <1>1 DEF IInv, StoreType, InStep, Flushed, storeSide, storeVars, diskVars
<1> QED
  BY <1>1, NextCases, ChangeKeeps, WriterKeeps, LoadKeeps, DownKeeps, EditKeeps DEF Changes

-----------------------------------------------------------------------------
(* The clients', the sync's and the environment's part.                    *)

LEMMA IdleTypes ==
    /\ SyncIdle.pc = "idle" /\ SyncIdle.todo = {}
    /\ SyncIdle \in [pc : {"idle", "scanned", "adopt", "update", "retire"},
                     entries : [Id -> Entry], ok : BOOLEAN,
                     snap : [Id -> JobOrNone], todo : SUBSET Id]
  BY DEF SyncIdle, Entry, Nothing, JobOrNone

LEMMA UserTyped ==
    ASSUME IInv, Next
    PROVE  UserType'
<1> USE DEF IInv
<1>1. CASE UserStep
  <2>1. CASE PutLooks
    <3>1. user \in [pc : {"editing", "put"}, id : Id, job : Job]
      BY <2>1 DEF PutLooks, UserType, UserIdle
    <3> DEFINE taken(s) == mem[user.id] # NoJob /\ mem[user.id].managed /\ s # mem[user.id].sched
    <3>2. PICK s \in Scheds :
              user' = [user EXCEPT !.pc = "put",
                         !.job = [user.job EXCEPT !.sched = s, !.managed = @ /\ ~taken(s)]]
      BY <2>1 DEF PutLooks
    <3>3. user.job.managed \in BOOLEAN
      BY <3>1 DEF Job
    <3> DEFINE m == user.job.managed /\ ~taken(s)
    <3>4. m \in BOOLEAN
      BY <3>3
    <3>5. user' = [user EXCEPT !.pc = "put", !.job = [user.job EXCEPT !.sched = s, !.managed = m]]
      BY <3>2
    <3> HIDE DEF m
    <3>6. [user.job EXCEPT !.sched = s, !.managed = m] \in Job
      BY <3>1, <3>4 DEF Job
    <3> QED
      BY <3>1, <3>5, <3>6 DEF UserType
  <2>2. ASSUME NEW i \in Id, ReadJob(i) PROVE UserType'
    <3>1. mem[i] \in Job
      BY <2>2 DEF ReadJob, StoreType, JobOrNone
    <3> QED
      BY <2>2, <3>1 DEF ReadJob, UserType
  <2>3. CASE PutJob
    BY <2>3 DEF PutJob, UserType
  <2>4. ASSUME NEW i \in Id,
               AddJob(i) \/ RemoveJob(i) \/ \E e \in BOOLEAN : EnableJob(i, e)
        PROVE  UserType'
    BY <2>4 DEF AddJob, RemoveJob, EnableJob, UserType
  <2> QED
    BY <1>1, <2>1, <2>2, <2>3, <2>4 DEF UserStep
<1>2. CASE SyncStep
  BY <1>2 DEF SyncStep, Discover, AdoptPass, UpdatePass, RetirePass, Pass, SyncEnds, SyncFrame,
              Adopt, Update, RetireFrequent, RetireVanished, BySync, UserType
<1>3. CASE Crash \/ PowerLoss
  BY <1>3 DEF Crash, PowerLoss, Down, UserType
<1>4. CASE WriterStep \/ WriteFails \/ Writeback \/ Load \/ HandEdit \/ SourceMoves
  BY <1>4 DEF WriterStep, WriteTemp, SyncTemp, Rename, WriteFails, Writeback, Load, HandEdit,
              SourceMoves, UserType
<1> QED
  BY <1>1, <1>2, <1>3, <1>4 DEF Next

LEMMA SyncTyped ==
    ASSUME IInv, Next
    PROVE  SyncType'
<1> USE DEF IInv
<1> DEFINE Type == [pc : {"idle", "scanned", "adopt", "update", "retire"},
                    entries : [Id -> Entry], ok : BOOLEAN,
                    snap : [Id -> JobOrNone], todo : SUBSET Id]
<1>1. CASE SyncStep
  <2>1. CASE Discover
    <3>1. sync' = [SyncIdle EXCEPT !.pc = "scanned", !.ok = readable,
                                   !.entries = IF readable THEN src ELSE @]
      BY <2>1 DEF Discover
    <3>2. (IF readable THEN src ELSE SyncIdle.entries) \in [Id -> Entry]
      BY IdleTypes DEF SourceType
    <3>3. sync' \in Type /\ sync'.pc = "scanned"
      BY <3>1, <3>2, IdleTypes DEF Budgets
    <3> QED
      BY <3>3 DEF SyncType
  <2>2. ASSUME NEW from, NEW to \in {"adopt", "update", "retire"}, NEW todo \in SUBSET Id,
               Pass(from, to, todo)
        PROVE  /\ sync' \in Type /\ sync'.pc = to /\ sync'.todo = todo
               /\ sync'.entries = sync.entries
               /\ \A i \in todo : sync'.snap[i] = mem[i]
    <3> DEFINE S == [i \in Id |-> IF i \in todo THEN mem[i] ELSE NoJob]
    <3>1. S \in [Id -> JobOrNone] /\ \A i \in todo : S[i] = mem[i]
      BY DEF StoreType, JobOrNone
    <3>2. sync' = [sync EXCEPT !.pc = to, !.todo = todo, !.snap = S]
      BY <2>2 DEF Pass
    <3> HIDE DEF S
    <3> QED
      BY <3>1, <3>2 DEF SyncType
  <2>3. CASE AdoptPass
    <3>1. Adoptable \in SUBSET Id /\ \A i \in Adoptable : sync.entries[i] \in Scheds
      BY DEF Adoptable
    <3> QED
      BY <2>2, <2>3, <3>1 DEF AdoptPass, SyncType
  <2>4. CASE UpdatePass
    <3>1. /\ Changed \in SUBSET Id
          /\ \A i \in Changed : mem[i] \in Job /\ sync.entries[i] \in Scheds \cup {Often}
      BY DEF Changed, StoreType, JobOrNone
    <3>2. Pass("adopt", "update", Changed)
      BY <2>4 DEF UpdatePass
    <3>3. /\ sync' \in Type /\ sync'.pc = "update" /\ sync'.todo = Changed
          /\ sync'.entries = sync.entries
          /\ \A i \in Changed : sync'.snap[i] = mem[i]
      BY <2>2, <3>1, <3>2
    <3>4. \A i \in sync'.todo : sync'.snap[i] \in Job /\ sync'.entries[i] \in Scheds \cup {Often}
      BY <3>1, <3>3
    <3> QED
      BY <3>3, <3>4 DEF SyncType
  <2>5. CASE RetirePass
    <3>1. Vanished \in SUBSET Id
      BY DEF Vanished
    <3> QED
      BY <2>2, <2>5, <3>1 DEF RetirePass, SyncType
  <2>6. CASE SyncEnds
    BY <2>6, IdleTypes DEF SyncEnds, SyncType
  <2>7. ASSUME NEW i \in Id, Adopt(i) \/ Update(i) \/ RetireFrequent(i) \/ RetireVanished(i)
        PROVE  SyncType'
    <3>1. sync' = [sync EXCEPT !.todo = @ \ {i}, !.snap[i] = NoJob]
      BY <2>7 DEF Adopt, Update, RetireFrequent, RetireVanished, BySync
    <3>2. /\ sync' \in Type /\ sync'.pc = sync.pc /\ sync'.entries = sync.entries
          /\ sync'.todo = sync.todo \ {i}
          /\ \A k \in Id \ {i} : sync'.snap[k] = sync.snap[k]
      BY <3>1 DEF SyncType, JobOrNone
    <3> QED
      BY <3>2 DEF SyncType
  <2> QED
    BY <1>1, <2>1, <2>3, <2>4, <2>5, <2>6, <2>7 DEF SyncStep
<1>2. CASE Crash \/ PowerLoss
  BY <1>2, IdleTypes DEF Crash, PowerLoss, Down, SyncType
<1>3. CASE UserStep \/ WriterStep \/ WriteFails \/ Writeback \/ Load \/ HandEdit \/ SourceMoves
  <2>1. sync' = sync
    BY <1>3 DEF UserStep, PutLooks, PutJob, AddJob, ReadJob, RemoveJob, EnableJob, ByUser,
                WriterStep, WriteTemp, SyncTemp, Rename, WriteFails, Writeback, Load, HandEdit,
                SourceMoves
  <2> QED
    BY <2>1 DEF SyncType
<1> QED
  BY <1>1, <1>2, <1>3 DEF Next

LEMMA RestTyped ==
    ASSUME IInv, Next
    PROVE  SourceType' /\ Budgets'
<1> USE DEF IInv, SourceType, Budgets
<1>1. CASE UserStep
  <2>1. UNCHANGED << src, readable, moves, edits, faults >>
    BY <1>1 DEF UserStep, PutLooks, PutJob, AddJob, ReadJob, RemoveJob, EnableJob, ByUser,
                sourceVars, budgetVars
  <2>2. requests' = requests \/ (requests < MaxRequests /\ requests' = requests + 1)
    BY <1>1 DEF UserStep, PutLooks, PutJob, AddJob, ReadJob, RemoveJob, EnableJob, Request,
                budgetVars
  <2>3. touched' \subseteq Id
    BY <1>1 DEF UserStep, PutLooks, PutJob, AddJob, ReadJob, RemoveJob, EnableJob, ByUser,
                SyncType
  <2> QED
    BY <2>1, <2>2, <2>3, BudgetAssumption
<1>2. CASE SyncStep
  <2>1. UNCHANGED << src, readable, requests, moves, edits, faults >>
    BY <1>2 DEF SyncStep, Discover, AdoptPass, UpdatePass, RetirePass, Pass, SyncEnds, SyncFrame,
                Adopt, Update, RetireFrequent, RetireVanished, BySync, sourceVars, budgetVars
  <2>2. touched' \subseteq Id
    BY <1>2 DEF SyncStep, Discover, AdoptPass, UpdatePass, RetirePass, Pass, SyncEnds,
                Adopt, Update, RetireFrequent, RetireVanished, BySync
  <2> QED
    BY <2>1, <2>2
<1>3. CASE Crash \/ PowerLoss
  <2>1. UNCHANGED << src, readable, requests, moves, edits >> /\ touched' = {}
        /\ faults < MaxFaults /\ faults' = faults + 1
    BY <1>3 DEF Crash, PowerLoss, Down, sourceVars
  <2> QED
    BY <2>1, BudgetAssumption
<1>4. CASE WriteFails
  BY <1>4, BudgetAssumption DEF WriteFails, sourceVars
<1>5. CASE HandEdit
  BY <1>5, BudgetAssumption DEF HandEdit, sourceVars
<1>6. CASE SourceMoves
  <2>1. src' \in [Id -> Entry] /\ readable' \in BOOLEAN
    BY <1>6 DEF SourceMoves
  <2> QED
    BY <1>6, <2>1, BudgetAssumption DEF SourceMoves
<1>7. CASE WriterStep \/ Writeback \/ Load
  BY <1>7 DEF WriterStep, WriteTemp, SyncTemp, Rename, Writeback, Load, sourceVars, budgetVars
<1> QED
  BY <1>1, <1>2, <1>3, <1>4, <1>5, <1>6, <1>7 DEF Next

-----------------------------------------------------------------------------
LEMMA InitInv == Init => IInv
<1> SUFFICES ASSUME Init PROVE IInv
  OBVIOUS
<1>1. StoreType
  BY EmptyTypes DEF Init, StoreType
<1>2. InStep /\ Flushed
  BY DEF Init, InStep, Flushed, Free
<1>3. UserType /\ SyncType
  BY IdleTypes DEF Init, UserType, SyncType
<1>4. SourceType /\ Budgets
  BY BudgetAssumption DEF Init, SourceType, Budgets, Entry
<1> QED
  BY <1>1, <1>2, <1>3, <1>4 DEF IInv

LEMMA StepInv == IInv /\ [Next]_vars => IInv'
<1> SUFFICES ASSUME IInv, [Next]_vars PROVE IInv'
  OBVIOUS
<1>1. CASE Next
  BY <1>1, StoreKeeps, UserTyped, SyncTyped, RestTyped DEF IInv
<1>2. CASE UNCHANGED vars
  BY <1>2 DEF vars, storeVars, diskVars, sourceVars, budgetVars, IInv, StoreType, InStep, Flushed,
              UserType, SyncType, SourceType, Budgets
<1> QED
  BY <1>1, <1>2

LEMMA Invariance == Spec => []IInv
<1>1. Init /\ [][Next]_vars => []IInv
  BY InitInv, StepInv, PTL
<1> QED
  BY <1>1, PTL DEF Spec

-----------------------------------------------------------------------------

\* Every variable keeps its type; a call is in the store only while the daemon runs and its
\* file could be read (Store.persistLocked).
THEOREM TypeCorrect == Spec => []TypeOK
<1>1. IInv => TypeOK
  BY DEF IInv, StoreType, UserType, SyncType, SourceType, Budgets, TypeOK
<1> QED
  BY <1>1, Invariance, PTL

\* What was acknowledged is in jobs.json, whatever failed or crashed before (Store.Add, Put,
\* Remove and SetEnabled over writeAtomic).
THEOREM AcknowledgedIsDurable == Spec => []FileIsMemory
<1>1. IInv => FileIsMemory
  BY DEF IInv, InStep, FileIsMemory, Free
<1> QED
  BY <1>1, Invariance, PTL

\* A broken entry stays in jobs.json until its id is registered or a human edits the file
\* (Store.invalid, persistLocked).
THEOREM BrokenEntriesStay == Spec => BrokenEntriesKept
<1> DEFINE Kept == \A i \in BadOf(file) : i \notin BadOf(file')
                     => JobsOf(file')[i] # NoJob \/ edits' # edits \/ faults' # faults
<1>1. ASSUME IInv, Next PROVE Kept
  <2>1. CASE file' = file
    BY <2>1 DEF BadOf
  <2>2. CASE Rename
    <3>1. file' = Listed /\ up /\ ~loadErr
      BY <1>1, <2>2 DEF Rename, IInv, StoreType, Free
    <3>2. file # Unreadable /\ file.bad \subseteq invalid
      BY <1>1, <3>1 DEF IInv, InStep
    <3>3. Listed # Unreadable
      BY <1>1, ListedType, UnreadableAssumption DEF IInv
    <3>4. JobsOf(file') = mem /\ BadOf(file') = {i \in invalid : mem[i] = NoJob}
      BY <3>1, <3>3 DEF JobsOf, BadOf, Listed
    <3>5. BadOf(file) = file.bad
      BY <3>2 DEF BadOf
    <3> QED
      BY <3>2, <3>4, <3>5
  <2>3. CASE PowerLoss
    <3>1. faults' = faults + 1 /\ faults \in Nat
      BY <1>1, <2>3, BudgetAssumption DEF PowerLoss, Down, IInv, Budgets
    <3>2. faults' # faults
      BY <3>1
    <3> QED
      BY <3>2
  <2>4. CASE HandEdit
    <3>1. edits' = edits + 1 /\ edits \in Nat
      BY <1>1, <2>4, BudgetAssumption DEF HandEdit, IInv, Budgets
    <3>2. edits' # edits
      BY <3>1
    <3> QED
      BY <3>2
  <2>5. ASSUME Changes \/ WriteTemp \/ SyncTemp \/ WriteFails \/ Writeback \/ Load \/ Crash
               \/ UNCHANGED storeSide
        PROVE  file' = file
    BY <2>5 DEF Changes, Change, WriteTemp, SyncTemp, WriteFails, Writeback, Load, Crash,
                diskVars, storeSide
  <2> QED
    BY <1>1, <2>1, <2>2, <2>3, <2>4, <2>5, NextCases
<1>2. ASSUME IInv, [Next]_vars PROVE [Kept]_vars
  BY <1>1, <1>2
<1> QED
  BY <1>2, Invariance, PTL DEF Spec, BrokenEntriesKept

\* The store's lock, temporary file, fsync and rename implement the file that only ever
\* changes as a whole (store.go: writeAtomic, persistLocked, Load).
THEOREM RegistryImplementsJobFile == Spec => ImplementsJobFile
<1>1. ASSUME Init PROVE Abstract!Init
  <2>1. file \in Contents \cup {Unreadable}
    BY <1>1, EmptyTypes DEF Init
  <2> QED
    BY <1>1, <2>1 DEF Init, Abstract!Init, Abstract!Nothing, Nothing, Abstract!Contents,
                      Abstract!JobOrNone, Contents, JobOrNone
<1>2. ASSUME IInv, Next PROVE Abstract!Next \/ UNCHANGED Abstract!vars
  <2>1. CASE Changes
    BY <2>1 DEF Changes, Change, Unlocked, diskVars, Abstract!Alter, Abstract!Next,
                Abstract!JobOrNone, JobOrNone
  <2>2. CASE Rename
    <3>1. up /\ ~loadErr
      BY <1>2, <2>2 DEF IInv, StoreType, Rename, Free
    <3> QED
      BY <2>2, <3>1 DEF Rename, Listed, storeVars, Abstract!Commit, Abstract!Merged, Abstract!Next
  <2>3. CASE Writeback
    BY <2>3 DEF Writeback, storeVars, Abstract!Settle, Abstract!Next
  <2>4. CASE Load
    BY <2>4 DEF Load, diskVars, JobsOf, BadOf, Nothing, Abstract!Load, Abstract!JobsOf,
                Abstract!BadOf, Abstract!Nothing, Abstract!Next
  <2>5. CASE Crash
    BY <2>5 DEF Crash, Down, diskVars, Nothing, Abstract!Stop, Abstract!Nothing, Abstract!Next
  <2>6. CASE PowerLoss
    <3>1. file' = durable /\ durable' = durable
      BY <1>2, <2>6 DEF PowerLoss, IInv, Flushed
    <3> QED
      BY <2>6, <3>1 DEF PowerLoss, Down, Nothing, Abstract!Stop, Abstract!Nothing, Abstract!Next
  <2>7. CASE HandEdit
    <3>1. file' \in Abstract!Contents \cup {Unreadable}
      BY <1>2, <2>7, EditType DEF Contents, JobOrNone, Abstract!Contents, Abstract!JobOrNone
    <3> QED
      BY <2>7, <3>1 DEF HandEdit, storeVars, Abstract!Edit, Abstract!Next
  <2>8. CASE UNCHANGED storeSide \/ WriteTemp \/ SyncTemp \/ WriteFails
    BY <2>8 DEF storeSide, storeVars, diskVars, WriteTemp, SyncTemp, WriteFails, Abstract!vars
  <2> QED
    BY <1>2, <2>1, <2>2, <2>3, <2>4, <2>5, <2>6, <2>7, <2>8, NextCases
<1>3. ASSUME IInv, [Next]_vars PROVE [Abstract!Next]_(Abstract!vars)
  <2>1. CASE UNCHANGED vars
    BY <2>1 DEF vars, storeVars, diskVars, Abstract!vars
  <2> QED
    BY <1>2, <1>3, <2>1
<1> QED
  BY <1>1, <1>3, Invariance, PTL DEF Spec, ImplementsJobFile, Abstract!Spec

-----------------------------------------------------------------------------
(* What a sync may do to a job that somebody has registered.               *)

\* While it updates and retires, the sync holds managed jobs only, each as the store has
\* it unless a client has changed it since; a daemon that is down holds none.
SnapInv ==
    /\ ~up => sync.todo = {}
    /\ sync.pc \in {"update", "retire"} =>
        \A i \in sync.todo : /\ sync.snap[i] # NoJob /\ sync.snap[i].managed
                             /\ i \notin touched => mem[i] = sync.snap[i]

LEMMA SnapByUser ==
    ASSUME IInv, SnapInv, UserStep
    PROVE  SnapInv'
<1> USE DEF IInv
<1>1. ASSUME NEW i, NEW j, Change("user", i, j), ByUser(i) PROVE SnapInv'
  <2>1. /\ sync' = sync /\ up' = up
        /\ touched' = touched \cup ({i} \cap sync.todo)
        /\ \A k \in Id \ {i} : mem'[k] = mem[k]
    BY <1>1 DEF Change, ByUser, StoreType
  <2>2. sync.todo \subseteq Id
    BY DEF SyncType
  <2> QED
    BY <2>1, <2>2 DEF SnapInv
<1>2. ASSUME UNCHANGED << up, mem, sync, touched >> PROVE SnapInv'
  BY <1>2 DEF SnapInv
<1>3. CASE PutJob
  BY <1>1, <1>3 DEF PutJob
<1>4. CASE PutLooks \/ \E i \in Id : ReadJob(i)
  BY <1>2, <1>4 DEF PutLooks, ReadJob, storeVars
<1>5. ASSUME NEW i \in Id, AddJob(i) \/ RemoveJob(i) \/ \E e \in BOOLEAN : EnableJob(i, e)
      PROVE  SnapInv'
  BY <1>1, <1>5 DEF AddJob, RemoveJob, EnableJob
<1> QED
  BY <1>3, <1>4, <1>5 DEF UserStep

LEMMA SnapBySync ==
    ASSUME IInv, SnapInv, SyncStep
    PROVE  SnapInv'
<1> USE DEF IInv
<1>1. CASE Discover \/ SyncEnds
  <2>1. sync'.todo = {}
    BY <1>1, IdleTypes DEF Discover, SyncEnds
  <2> QED
    BY <2>1 DEF SnapInv
<1>2. ASSUME NEW from, NEW to \in {"adopt", "update", "retire"}, NEW todo \in SUBSET Id,
             Pass(from, to, todo),
             to # "adopt" => \A i \in todo : mem[i] # NoJob /\ mem[i].managed
      PROVE  SnapInv'
  <2> DEFINE S == [i \in Id |-> IF i \in todo THEN mem[i] ELSE NoJob]
  <2>1. \A i \in todo : S[i] = mem[i]
    OBVIOUS
  <2>2. /\ sync' = [sync EXCEPT !.pc = to, !.todo = todo, !.snap = S]
        /\ up /\ up' = up /\ mem' = mem
    BY <1>2 DEF Pass, Unlocked, storeVars
  <2> HIDE DEF S
  <2>3. /\ sync'.pc = to /\ sync'.todo = todo /\ sync'.snap = S
    BY <2>2 DEF SyncType
  <2> QED
    BY <1>2, <2>1, <2>2, <2>3 DEF SnapInv
<1>3. CASE AdoptPass
  <2>1. Adoptable \in SUBSET Id
    BY DEF Adoptable
  <2> QED
    BY <1>2, <1>3, <2>1 DEF AdoptPass
<1>4. CASE UpdatePass
  <2>1. Changed \in SUBSET Id /\ \A i \in Changed : mem[i] # NoJob /\ mem[i].managed
    BY DEF Changed
  <2> QED
    BY <1>2, <1>4, <2>1 DEF UpdatePass
<1>5. CASE RetirePass
  <2>1. Vanished \in SUBSET Id /\ \A i \in Vanished : mem[i] # NoJob /\ mem[i].managed
    BY DEF Vanished
  <2> QED
    BY <1>2, <1>5, <2>1 DEF RetirePass
<1>6. ASSUME NEW i \in Id, NEW applies, NEW j, BySync(i, applies, j) PROVE SnapInv'
  <2>1. /\ sync' = [sync EXCEPT !.todo = @ \ {i}, !.snap[i] = NoJob]
        /\ touched' = touched \ {i} /\ up' = up
    BY <1>6 DEF BySync, Change
  <2>2. \A k \in Id \ {i} : mem'[k] = mem[k]
    BY <1>6 DEF BySync, Change, StoreType, storeVars
  <2>3. /\ sync'.pc = sync.pc /\ sync'.todo = sync.todo \ {i}
        /\ \A k \in Id \ {i} : sync'.snap[k] = sync.snap[k]
    BY <2>1 DEF SyncType
  <2>4. sync.todo \subseteq Id
    BY DEF SyncType
  <2> QED
    BY <2>1, <2>2, <2>3, <2>4 DEF SnapInv
<1>7. ASSUME NEW i \in Id, Adopt(i) \/ Update(i) \/ RetireFrequent(i) \/ RetireVanished(i)
      PROVE  SnapInv'
  BY <1>6, <1>7 DEF Adopt, Update, RetireFrequent, RetireVanished
<1> QED
  BY <1>1, <1>3, <1>4, <1>5, <1>7 DEF SyncStep

LEMMA SnapStep == IInv /\ SnapInv /\ [Next]_vars => SnapInv'
<1> SUFFICES ASSUME IInv, SnapInv, [Next]_vars PROVE SnapInv'
  OBVIOUS
<1>1. CASE UserStep \/ SyncStep
  BY <1>1, SnapByUser, SnapBySync
<1>2. CASE Crash \/ PowerLoss
  BY <1>2, IdleTypes DEF Crash, PowerLoss, Down, SnapInv
<1>3. CASE Load
  BY <1>3 DEF Load, SnapInv
<1>4. CASE WriterStep \/ WriteFails \/ Writeback \/ HandEdit \/ SourceMoves
  BY <1>4 DEF WriterStep, WriteTemp, SyncTemp, Rename, WriteFails, Writeback, HandEdit,
              SourceMoves, storeVars, SnapInv
<1>5. CASE UNCHANGED vars
  BY <1>5 DEF vars, storeVars, SnapInv
<1> QED
  BY <1>1, <1>2, <1>3, <1>4, <1>5 DEF Next

LEMMA SnapInvariance == Spec => [](IInv /\ SnapInv)
<1>1. Init => SnapInv
  BY IdleTypes DEF Init, SnapInv
<1> QED
  BY <1>1, InitInv, StepInv, SnapStep, PTL DEF Spec

\* A sync leaves a job alone unless its source manages it, and then only mirrors the source
\* or retires the job, unless a client changed the job after the sync had listed it
\* (syncProviders: adopt, update, retire).
THEOREM SyncLeavesHumansJobs == Spec => HumanDecisionStands
<1> DEFINE Stands(i) ==
        SyncStep /\ mem'[i] # mem[i] /\ mem[i] # NoJob /\ i \notin touched
          => /\ mem[i].managed
             /\ mem'[i] # NoJob => mem'[i] = [mem[i] EXCEPT !.sched = sync.entries[i]]
<1>1. ASSUME IInv, SnapInv, NEW i \in Id, SyncStep, mem'[i] # mem[i], mem[i] # NoJob,
             i \notin touched
      PROVE  /\ mem[i].managed
             /\ mem'[i] # NoJob => mem'[i] = [mem[i] EXCEPT !.sched = sync.entries[i]]
  <2>1. CASE Discover \/ AdoptPass \/ UpdatePass \/ RetirePass \/ SyncEnds
    BY <1>1, <2>1 DEF Discover, AdoptPass, UpdatePass, RetirePass, Pass, SyncEnds, storeVars
  <2>2. ASSUME NEW k \in Id, NEW applies, NEW j, BySync(k, applies, j)
        PROVE  applies /\ k = i /\ i \in sync.todo /\ mem'[i] = j
    BY <1>1, <2>2 DEF BySync, Change, IInv, StoreType, storeVars
  <2>3. ASSUME NEW k \in Id, Adopt(k) PROVE FALSE
    BY <1>1, <2>2, <2>3 DEF Adopt
  <2>4. ASSUME NEW k \in Id, Update(k)
        PROVE  mem[i].managed /\ mem'[i] = [mem[i] EXCEPT !.sched = sync.entries[i]]
    <3>1. sync.pc = "update" /\ BySync(k, TRUE, [sync.snap[k] EXCEPT !.sched = sync.entries[k]])
      BY <2>4 DEF Update
    <3>2. k = i /\ i \in sync.todo /\ mem'[i] = [sync.snap[k] EXCEPT !.sched = sync.entries[k]]
      BY <2>2, <3>1
    <3> QED
      BY <1>1, <3>1, <3>2 DEF SnapInv
  <2>5. ASSUME NEW k \in Id, RetireFrequent(k) \/ RetireVanished(k)
        PROVE  mem[i].managed /\ mem'[i] = NoJob
    <3>1. sync.pc \in {"update", "retire"} /\ BySync(k, mem[k] # NoJob, NoJob)
      BY <2>5 DEF RetireFrequent, RetireVanished
    <3>2. k = i /\ i \in sync.todo /\ mem'[i] = NoJob
      BY <2>2, <3>1
    <3> QED
      BY <1>1, <3>1, <3>2 DEF SnapInv
  <2> QED
    BY <1>1, <2>1, <2>3, <2>4, <2>5 DEF SyncStep
<1>2. ASSUME IInv, SnapInv PROVE [\A i \in Id : Stands(i)]_vars
  BY <1>1, <1>2
<1> QED
  BY <1>2, SnapInvariance, PTL DEF HumanDecisionStands

-----------------------------------------------------------------------------
(* Calendar. *)

\* Min and Max of a set of naturals are its least and greatest members.
LEMMA MinNat ==
    ASSUME NEW S, S \subseteq Nat, S # {}
    PROVE  Min(S) \in S /\ \A y \in S : Min(S) <= y
<1>1. \E x \in S : \A y \in S : ~(<<y, x>> \in OpToRel(<, Nat))
  BY NatLessThanWellFounded, WFMin
<1>2. PICK x \in S : \A y \in S : ~(<<y, x>> \in OpToRel(<, Nat))
  BY <1>1
<1>3. ASSUME NEW y \in S PROVE x <= y
  <2>1. ~(<<y, x>> \in OpToRel(<, Nat))
    BY <1>2
  <2>2. ~(y < x)
    BY <2>1 DEF OpToRel
  <2> QED
    BY <2>2, x \in Nat, y \in Nat
<1>4. \E z \in S : \A y \in S : z <= y
  BY <1>3
<1> QED
  BY <1>4 DEF Min

LEMMA MaxNat ==
    ASSUME NEW S, NEW b \in Int, S \subseteq Nat, S # {}, \A x \in S : x <= b
    PROVE  Max(S) \in S /\ \A y \in S : y <= Max(S)
<1> DEFINE T == {b - x : x \in S}
<1>1. T \subseteq Nat /\ T # {}
  <2>1. ASSUME NEW x \in S PROVE b - x \in Nat
    <3>1. x \in Int /\ x <= b
      OBVIOUS
    <3> QED
      BY <3>1
  <2> QED
    BY <2>1
<1>2. Min(T) \in T /\ \A y \in T : Min(T) <= y
  BY <1>1, MinNat
<1>3. PICK x \in S : Min(T) = b - x
  BY <1>2
<1>4. ASSUME NEW y \in S PROVE x >= y
  <2>1. b - x <= b - y
    BY <1>2, <1>3
  <2> QED
    BY <2>1, x \in Nat, y \in Nat
<1>5. \E z \in S : \A y \in S : z >= y
  BY <1>4
<1> QED
  BY <1>5 DEF Max

\* The least of a set is the member that no other is below.
LEMMA LeastIsMin ==
    ASSUME NEW S, S \subseteq Int, NEW m \in S, \A x \in S : m <= x
    PROVE  Min(S) = m
<1>1. Min(S) \in S /\ \A x \in S : Min(S) <= x
  BY DEF Min
<1>2. Min(S) <= m /\ m <= Min(S) /\ Min(S) \in Int /\ m \in Int
  BY <1>1
<1> QED
  BY <1>2

(* An interval. *)

\* The multiples of an interval: the one after t is the first that is later.
LEMMA NextMultiple ==
    ASSUME NEW d \in Nat, NEW g \in Nat \ {0}
    PROVE  LET q == d \div g
           IN  /\ q \in 0 .. d /\ (q + 1) * g > d /\ (q + 1) * g \in Nat
               /\ \A n \in Nat : n * g > d => n * g >= (q + 1) * g
<1> DEFINE q == d \div g
<1>1. q \in Nat /\ q * g <= d /\ d < (q + 1) * g
  BY Z3
<1> HIDE DEF q
<1>2. q <= d
  <2>1. CASE q = 0
    BY <1>1, <2>1
  <2>2. CASE q # 0
    <3>1. q * g >= q
      BY <1>1, Z3
    <3> QED
      BY <1>1, <3>1, Z3
  <2> QED
    BY <2>1, <2>2
<1>3. ASSUME NEW n \in Nat, n * g > d PROVE n * g >= (q + 1) * g
  <2>1. n > q
    BY <1>1, <1>3, Z3
  <2> QED
    BY <1>1, <2>1, Z3
<1>4. (q + 1) * g \in Nat
  BY <1>1
<1> QED
  BY <1>1, <1>2, <1>3, <1>4 DEF q

\* What nextFromAnchor answers is the least time of the lattice that is later.
LEMMA AnchorNext ==
    ASSUME NEW a \in Nat, NEW g \in Nat \ {0}, NEW t \in Nat
    PROVE  (IF a > t THEN a ELSE a + ((t - a) \div g + 1) * g)
             = Min({u \in {a + n * g : n \in 0 .. t + 1} : u > t})
<1> DEFINE S == {u \in {a + n * g : n \in 0 .. t + 1} : u > t}
<1>1. \A n \in 0 .. t + 1 : n * g \in Nat
  OBVIOUS
<1>2. S \subseteq Int
  BY <1>1
<1>3. CASE a > t
  <2>1. a + 0 * g = a /\ 0 \in 0 .. t + 1
    OBVIOUS
  <2>2. a \in S
    BY <1>3, <2>1
  <2>3. \A x \in S : a <= x
    BY <1>1
  <2> QED
    BY <1>2, <1>3, <2>2, <2>3, LeastIsMin
<1>4. CASE ~(a > t)
  <2> DEFINE d == t - a
             q == d \div g
             m == a + (q + 1) * g
  <2>1. d \in Nat /\ d <= t
    BY <1>4
  <2>2. /\ q \in 0 .. d /\ (q + 1) * g > d /\ (q + 1) * g \in Nat
        /\ \A n \in Nat : n * g > d => n * g >= (q + 1) * g
    BY <2>1, NextMultiple
  <2>3. q + 1 \in 0 .. t + 1 /\ m > t
    <3> HIDE DEF q
    <3> QED
      BY <2>1, <2>2
  <2>4. m \in S
    BY <2>3
  <2>5. ASSUME NEW x \in S PROVE m <= x
    <3>1. PICK n \in 0 .. t + 1 : x = a + n * g /\ x > t
      OBVIOUS
    <3>2. n \in Nat /\ n * g \in Nat /\ n * g > d
      BY <1>1, <3>1
    <3>3. n * g >= (q + 1) * g
      BY <2>2, <3>2
    <3> HIDE DEF q
    <3> QED
      BY <2>2, <3>1, <3>2, <3>3
  <2>6. Min(S) = m
    <3> HIDE DEF m, S
    <3> QED
      BY <1>2, <2>4, <2>5, LeastIsMin
  <2> QED
    BY <1>4, <2>6
<1> QED
  BY <1>3, <1>4

(* A calendar, in a zone whose clock is changed. *)

\* Division by a positive number, and that its quotient and remainder are the only ones.
LEMMA Division ==
    ASSUME NEW a \in Int, NEW b \in Nat \ {0}
    PROVE  /\ a \div b \in Int /\ a % b \in 0 .. b - 1
           /\ a = b * (a \div b) + (a % b)
OBVIOUS

LEMMA QuotientUnique ==
    ASSUME NEW b \in Nat \ {0}, NEW p \in Int, NEW q \in Int, NEW r \in 0 .. b - 1, NEW s \in 0 .. b - 1,
           b * p + r = b * q + s
    PROVE  p = q /\ r = s
<1>1. b * (p - q) = s - r
  OBVIOUS
<1>2. ASSUME p - q >= 1 PROVE FALSE
  <2>1. b * (p - q) >= b
    BY <1>2, Z3
  <2> QED
    BY <1>1, <2>1
<1>3. ASSUME q - p >= 1 PROVE FALSE
  <2>1. b * (q - p) >= b
    BY <1>3, Z3
  <2>2. b * (q - p) = r - s
    BY <1>1
  <2> QED
    BY <2>1, <2>2
<1> QED
  BY <1>2, <1>3

\* A calendar fires by the week: what fires does so any number of weeks later or earlier ...
LEMMA FiresAgain ==
    ASSUME NEW e, NEW w \in Int, NEW k \in Int, Fires(e, w)
    PROVE  Fires(e, w + (7 * DayLength) * k)
<1> DEFINE v == w + (7 * DayLength) * k
           q == w \div DayLength
           r == w % DayLength
<1>1. DayLength \in Nat \ {0}
  BY CalendarAssumption
<1>2. q \in Int /\ r \in 0 .. DayLength - 1 /\ w = DayLength * q + r
  BY <1>1, Division
<1>3. v \in Int /\ v = DayLength * (q + 7 * k) + r
  <2> HIDE DEF q, r
  <2> QED
    BY <1>1, <1>2, Z3
<1>4. /\ v \div DayLength \in Int /\ v % DayLength \in 0 .. DayLength - 1
      /\ v = DayLength * (v \div DayLength) + (v % DayLength)
  <2> HIDE DEF v
  <2> QED
    BY <1>1, <1>3, Division
<1>5. v \div DayLength = q + 7 * k /\ v % DayLength = r
  <2> HIDE DEF v, q, r
  <2> DEFINE m == v \div DayLength
             s == v % DayLength
             p == q + 7 * k
  <2>1. p \in Int
    BY <1>2
  <2>2. DayLength * m + s = DayLength * p + r
    BY <1>3, <1>4
  <2> HIDE DEF m, s, p
  <2>3. m \in Int /\ s \in 0 .. DayLength - 1
    BY <1>4 DEF m, s
  <2>4. m = p /\ s = r
    BY <1>1, <1>2, <2>1, <2>2, <2>3, QuotientUnique
  <2> QED
    BY <2>4 DEF m, s, p
<1>6. (q + 7 * k) % 7 = q % 7
  <2> HIDE DEF q
  <2> QED
    BY <1>2
<1>7. Fires(e, v)
  <2> HIDE DEF v
  <2> QED
    BY <1>5, <1>6 DEF Fires, TimeOfDay
<1> QED
  BY <1>7

\* ... so that every week has one.
LEMMA WeeklyFire ==
    ASSUME NEW e, NEW w \in Int, Fires(e, w), NEW x \in Int
    PROVE  \E v \in x + 1 .. x + 7 * DayLength : Fires(e, v)
<1> DEFINE P == 7 * DayLength
           d == w - x - 1
<1>1. P \in Nat \ {0} /\ d \in Int
  BY CalendarAssumption
<1>2. /\ d \div P \in Int /\ d % P \in 0 .. P - 1
      /\ d = P * (d \div P) + (d % P)
  <2> HIDE DEF P, d
  <2> QED
    BY <1>1, Division
<1> DEFINE k == -(d \div P)
<1>3. k \in Int
  BY <1>2
<1>4. w + P * k = x + 1 + (d % P)
  <2>1. P * k = -(P * (d \div P))
    <3> HIDE DEF P, d
    <3> QED
      BY <1>1, <1>2
  <2> HIDE DEF k, P
  <2> QED
    BY <1>1, <1>2, <1>3, <2>1
<1>5. w + P * k \in x + 1 .. x + P
  <2> HIDE DEF P, k, d
  <2> QED
    BY <1>1, <1>2, <1>4
<1>6. Fires(e, w + P * k)
  <2> HIDE DEF k
  <2> QED
    BY <1>3, FiresAgain
<1> HIDE DEF k
<1> QED
  BY <1>5, <1>6

\* What a sequence of a set holds is of the set.
LEMMA ElementOf ==
    ASSUME NEW R, NEW s \in Seq(R), NEW i \in DOMAIN s
    PROVE  s[i] \in R
OBVIOUS

Place(z, t) == Max({i \in DOMAIN z : z[i].at <= t})

\* The offset at t is that of the last change by then.
LEMMA PlaceInZone ==
    ASSUME NEW z \in Zones, NEW t \in Nat
    PROVE  /\ Place(z, t) \in DOMAIN z /\ z[Place(z, t)].at <= t
           /\ \A k \in DOMAIN z : z[k].at <= t => k <= Place(z, t)
           /\ Offset(z, t) = z[Place(z, t)].offset
<1> DEFINE S == {i \in DOMAIN z : z[i].at <= t}
<1>1. /\ z \in Seq([at : Nat, offset : Int]) /\ z # << >> /\ z[1].at = 0
  BY ZonesAssumption
<1>2. Len(z) \in Nat /\ DOMAIN z = 1 .. Len(z) /\ 1 \in DOMAIN z
  BY <1>1
<1>3. S \subseteq Nat /\ S # {} /\ \A i \in S : i <= Len(z)
  <2>1. 1 \in S
    BY <1>1, <1>2
  <2> QED
    BY <1>2, <2>1
<1>4. Max(S) \in S /\ \A k \in S : k <= Max(S)
  <2> DEFINE b == Len(z)
  <2>1. b \in Int /\ \A i \in S : i <= b
    BY <1>2, <1>3
  <2> HIDE DEF S, b
  <2> QED
    BY <1>3, <2>1, MaxNat
<1> QED
  BY <1>4 DEF Place, Offset

\* Offsets are integers that differ by less than a day, so that a day later the wall clock
\* is later too.
LEMMA WallMovesOn ==
    ASSUME NEW z \in Zones, NEW t \in Nat, NEW u \in Nat
    PROVE  /\ Offset(z, t) \in Int /\ Wall(z, t) \in Int /\ Wall(z, t) = t + Offset(z, t)
           /\ Offset(z, t) - Offset(z, u) < DayLength
           /\ u >= t + DayLength => Wall(z, t) < Wall(z, u)
<1>1. z \in Seq([at : Nat, offset : Int])
      /\ \A i, k \in DOMAIN z : z[k].offset - z[i].offset < DayLength
  BY ZonesAssumption
<1>2. \A x \in Nat : Place(z, x) \in DOMAIN z /\ Offset(z, x) = z[Place(z, x)].offset
  BY PlaceInZone
<1>3. ASSUME NEW i \in DOMAIN z PROVE z[i].offset \in Int
  <2>1. z[i] \in [at : Nat, offset : Int]
    BY <1>1, ElementOf
  <2> QED
    BY <2>1
<1>4. Offset(z, t) \in Int /\ Offset(z, u) \in Int /\ Offset(z, t) - Offset(z, u) < DayLength
  BY <1>1, <1>2, <1>3
<1>5. DayLength \in Nat
  BY CalendarAssumption
<1> QED
  BY <1>4, <1>5 DEF Wall

\* In the four weeks after t the clock is changed once, or not at all.
OneChange(z, t, c, o1, o2) ==
    /\ c > t /\ c >= DayLength
    /\ o2 - o1 < DayLength /\ o1 - o2 < DayLength
    /\ \A u \in t .. t + 28 * DayLength : Offset(z, u) = IF u < c THEN o1 ELSE o2
    /\ \/ o2 = o1
       \/ \E i \in 2 .. Len(z) : o1 = z[i - 1].offset /\ o2 = z[i].offset

LEMMA OneChangeAhead ==
    ASSUME NEW z \in Zones, NEW t \in Nat
    PROVE  \E c \in Nat, o1 \in Int, o2 \in Int : OneChange(z, t, c, o1, o2)
<1> DEFINE p == Place(z, t)
           D == 28 * DayLength
<1>1. DayLength \in Nat \ {0} /\ D \in Nat
  BY CalendarAssumption
<1>2. /\ z \in Seq([at : Nat, offset : Int]) /\ z # << >> /\ z[1].at = 0
      /\ \A i \in 2 .. Len(z) : z[i].at >= DayLength
      /\ \A i, k \in 2 .. Len(z) : i < k => z[k].at - z[i].at >= D
      /\ \A i, k \in DOMAIN z : z[k].offset - z[i].offset < DayLength
  BY ZonesAssumption
<1>3. /\ Len(z) \in Nat /\ DOMAIN z = 1 .. Len(z)
      /\ \A i \in 1 .. Len(z) : z[i].at \in Nat /\ z[i].offset \in Int
  <2>1. ASSUME NEW i \in 1 .. Len(z) PROVE z[i].at \in Nat /\ z[i].offset \in Int
    <3>1. z[i] \in [at : Nat, offset : Int]
      <4>1. i \in DOMAIN z
        BY <1>2
      <4> QED
        BY <1>2, <4>1, ElementOf
    <3> QED
      BY <3>1
  <2> QED
    BY <1>2, <2>1
<1>4. p \in 1 .. Len(z)
  BY <1>3, PlaceInZone
<1>5. \A u \in Nat : /\ Place(z, u) \in 1 .. Len(z) /\ z[Place(z, u)].at <= u
                     /\ \A k \in 1 .. Len(z) : z[k].at <= u => k <= Place(z, u)
                     /\ Offset(z, u) = z[Place(z, u)].offset
  BY <1>3, PlaceInZone
<1>6. ASSUME NEW u \in Nat, u >= t PROVE p <= Place(z, u)
  <2>1. z[p].at <= t /\ z[p].at \in Nat
    BY <1>3, <1>4, <1>5
  <2>2. z[p].at <= u
    BY <1>6, <2>1
  <2> QED
    BY <1>4, <1>5, <2>2
<1> HIDE DEF p, D
<1>7. CASE p = Len(z)
  <2> DEFINE c == t + D + DayLength
             o == z[p].offset
  <2>1. ASSUME NEW u \in t .. t + D PROVE Offset(z, u) = o
    <3>1. u \in Nat /\ Place(z, u) = p
      BY <1>1, <1>3, <1>4, <1>5, <1>6, <1>7
    <3> QED
      BY <1>5, <3>1
  <2>2. OneChange(z, t, c, o, o)
    BY <1>1, <1>3, <1>4, <2>1 DEF OneChange, D
  <2>3. c \in Nat /\ o \in Int
    BY <1>1, <1>3, <1>4
  <2> HIDE DEF c, o
  <2> QED
    BY <2>2, <2>3
<1>8. CASE p < Len(z)
  <2> DEFINE c == z[p + 1].at
             o1 == z[p].offset
             o2 == z[p + 1].offset
  <2>1. p + 1 \in 2 .. Len(z) /\ p + 1 \in 1 .. Len(z)
    BY <1>3, <1>4, <1>8
  <2>2. c \in Nat /\ o1 \in Int /\ o2 \in Int
    BY <1>3, <1>4, <2>1
  <2>3. c > t
    <3>1. \A k \in 1 .. Len(z) : z[k].at <= t => k <= p
      BY <1>5 DEF p
    <3>2. ~(p + 1 <= p)
      BY <1>4
    <3>3. ~(z[p + 1].at <= t)
      BY <2>1, <3>1, <3>2
    <3> QED
      BY <2>2, <3>3
  <2>4. c >= DayLength /\ o2 - o1 < DayLength /\ o1 - o2 < DayLength
    BY <1>2, <1>3, <1>4, <2>1
  <2>5. ASSUME NEW u \in t .. t + D PROVE Offset(z, u) = IF u < c THEN o1 ELSE o2
    <3> DEFINE q == Place(z, u)
    <3>1. u \in Nat
      BY <1>1
    <3>2. /\ q \in 1 .. Len(z) /\ p <= q /\ z[q].at <= u /\ Offset(z, u) = z[q].offset
          /\ \A k \in 1 .. Len(z) : z[k].at <= u => k <= q
      BY <1>5, <1>6, <3>1
    <3> HIDE DEF q
    <3>3. CASE u < c
      <4>1. ASSUME q > p PROVE FALSE
        <5>1. CASE q = p + 1
          BY <2>2, <3>1, <3>2, <3>3, <5>1
        <5>2. CASE q > p + 1
          <6> DEFINE r == p + 1
          <6>1. r \in 2 .. Len(z) /\ q \in 2 .. Len(z) /\ r < q
            BY <1>4, <2>1, <3>2, <5>2
          <6>2. z[q].at - z[r].at >= D
            <7> HIDE DEF r
            <7> QED
              BY <1>2, <6>1
          <6> QED
            BY <1>1, <1>3, <2>2, <3>1, <3>2, <3>3, <6>2
        <5> QED
          BY <1>4, <3>2, <4>1, <5>1, <5>2
      <4> QED
        BY <1>4, <3>2, <3>3, <4>1
    <3>4. CASE ~(u < c)
      <4>1. p + 1 <= q
        BY <2>1, <2>2, <3>1, <3>2, <3>4
      <4>2. ASSUME q > p + 1 PROVE FALSE
        <5> DEFINE r == p + 1
        <5>1. r \in 2 .. Len(z) /\ q \in 2 .. Len(z) /\ r < q
          BY <1>4, <2>1, <3>2, <4>2
        <5>2. z[q].at - z[r].at >= D
          <6> HIDE DEF r
          <6> QED
            BY <1>2, <5>1
        <5> QED
          BY <1>1, <1>3, <2>2, <2>3, <3>1, <3>2, <5>2
      <4>3. q = p + 1
        BY <1>4, <3>2, <4>1, <4>2
      <4> QED
        BY <3>2, <3>4, <4>3
    <3> QED
      BY <3>3, <3>4
  <2>6. OneChange(z, t, c, o1, o2)
    <3>1. p + 1 \in 2 .. Len(z) /\ (p + 1) - 1 = p
      BY <1>4, <2>1
    <3>2. \E i \in 2 .. Len(z) : o1 = z[i - 1].offset /\ o2 = z[i].offset
      BY <3>1
    <3> HIDE DEF c, o1, o2
    <3> QED
      BY <2>3, <2>4, <2>5, <3>2 DEF OneChange, D
  <2> HIDE DEF c, o1, o2
  <2> QED
    BY <2>2, <2>6
<1>9. p = Len(z) \/ p < Len(z)
  <2>1. Len(z) \in Nat
    BY <1>3
  <2> DEFINE n == Len(z)
  <2>2. n \in Nat /\ p \in 1 .. n
    BY <1>4, <2>1
  <2> HIDE DEF n
  <2>3. p = n \/ p < n
    BY <2>2
  <2> QED
    BY <2>3 DEF n
<1> QED
  BY <1>7, <1>8, <1>9

\* Earliest of a set of times is its least, or that there is none.
LEMMA EarliestOf ==
    ASSUME NEW S, S \subseteq Nat
    PROVE  \/ S = {} /\ Earliest(S) = NoTime
           \/ Earliest(S) \in S /\ Earliest(S) # NoTime /\ \A x \in S : Earliest(S) <= x
<1>1. CASE S = {}
  BY <1>1 DEF Earliest
<1>2. CASE S # {}
  <2>1. Min(S) \in S /\ \A x \in S : Min(S) <= x
    BY <1>2, MinNat
  <2> QED
    BY <1>2, <2>1 DEF Earliest, NoTime
<1> QED
  BY <1>1, <1>2

\* What the cron library answers.
Library(e, z, t, n) ==
    /\ n \in Nat /\ n # NoTime /\ n > t /\ n <= t + Ahead
    /\ Fires(e, Wall(z, n))
    /\ \A u \in Nat : u > t /\ u < n => ~Fires(e, Wall(z, u))

LEMMA InnerNextIs ==
    ASSUME NEW e, NEW z, NEW t \in Nat
    PROVE  \/ InnerNext(e, z, t) = NoTime
              /\ \A u \in Nat : u > t /\ u <= t + Ahead => ~Fires(e, Wall(z, u))
           \/ Library(e, z, t, InnerNext(e, z, t))
<1> DEFINE S == {u \in t + 1 .. t + Ahead : Fires(e, Wall(z, u))}
<1>1. Ahead \in Nat /\ S \subseteq Nat
  BY CalendarAssumption DEF Ahead
<1>2. InnerNext(e, z, t) = Earliest(S)
  BY DEF InnerNext
<1>3. \A u \in Nat : u > t /\ u <= t + Ahead /\ Fires(e, Wall(z, u)) => u \in S
  BY <1>1
<1>4. \A u \in S : u \in Nat /\ u > t /\ u <= t + Ahead /\ Fires(e, Wall(z, u))
  BY <1>1
<1> HIDE DEF S
<1>5. CASE S = {} /\ Earliest(S) = NoTime
  BY <1>2, <1>3, <1>5
<1>6. CASE Earliest(S) \in S /\ Earliest(S) # NoTime /\ \A x \in S : Earliest(S) <= x
  <2> DEFINE n == Earliest(S)
  <2>1. n \in Nat /\ n # NoTime /\ n > t /\ n <= t + Ahead /\ Fires(e, Wall(z, n))
    BY <1>4, <1>6
  <2>2. \A x \in S : n <= x
    BY <1>6
  <2> HIDE DEF n
  <2>3. ASSUME NEW u \in Nat, u > t, u < n, Fires(e, Wall(z, u)) PROVE FALSE
    <3>1. u \in S
      BY <1>1, <1>3, <2>1, <2>3
    <3> QED
      BY <2>1, <2>2, <2>3, <3>1
  <2>4. Library(e, z, t, n)
    BY <2>1, <2>3 DEF Library
  <2> QED
    BY <1>2, <2>4 DEF n
<1> QED
  BY <1>1, <1>5, <1>6, EarliestOf

\* The same in a fixed offset.
LEMMA FixedNextIs ==
    ASSUME NEW e, NEW o \in Int, NEW t \in Nat
    PROVE  LET n == FixedNext(e, o, t)
           IN  \/ n = NoTime /\ \A u \in Nat : u > t /\ u <= t + Ahead => ~Fires(e, u + o)
               \/ /\ n \in Nat /\ n # NoTime /\ n > t /\ n <= t + Ahead /\ Fires(e, n + o)
                  /\ \A u \in Nat : u > t /\ u < n => ~Fires(e, u + o)
<1> DEFINE S == {u \in t + 1 .. t + Ahead : Fires(e, u + o)}
           n == FixedNext(e, o, t)
<1>1. Ahead \in Nat /\ S \subseteq Nat
  BY CalendarAssumption DEF Ahead
<1>2. n = Earliest(S)
  BY DEF FixedNext
<1>3. \A u \in Nat : u > t /\ u <= t + Ahead /\ Fires(e, u + o) => u \in S
  BY <1>1
<1>4. \A u \in S : u \in Nat /\ u > t /\ u <= t + Ahead /\ Fires(e, u + o)
  BY <1>1
<1> HIDE DEF S, n
<1>5. CASE S = {} /\ n = NoTime
  BY <1>3, <1>5 DEF n
<1>6. CASE n \in S /\ n # NoTime /\ \A x \in S : n <= x
  <2>1. n \in Nat /\ n # NoTime /\ n > t /\ n <= t + Ahead /\ Fires(e, n + o)
    BY <1>4, <1>6
  <2>2. ASSUME NEW u \in Nat, u > t, u < n, Fires(e, u + o) PROVE FALSE
    <3>1. u \in S
      BY <1>1, <1>3, <2>1, <2>2
    <3> QED
      BY <1>6, <2>1, <2>2, <3>1
  <2> QED
    BY <2>1, <2>2 DEF n
<1> QED
  BY <1>1, <1>2, <1>5, <1>6, EarliestOf

\* An expression that fires at all does so within two weeks of any instant: the week before a
\* change of the clock may lose its fire to it, the one after does not.
LEMMA NextWithinTwoWeeks ==
    ASSUME NEW e, NEW z \in Zones, NEW t \in Nat, NEW w \in Int, Fires(e, w)
    PROVE  LET n == InnerNext(e, z, t)
           IN  Library(e, z, t, n) /\ n <= t + 14 * DayLength
<1> DEFINE P == 7 * DayLength
<1>1. PICK c \in Nat, o1 \in Int, o2 \in Int : OneChange(z, t, c, o1, o2)
  BY OneChangeAhead
<1>2. P \in Nat /\ DayLength \in Nat
  BY CalendarAssumption
<1>3. \E u \in Nat : u > t /\ u <= t + 2 * P /\ Fires(e, Wall(z, u))
  <2>1. CASE c > t + P
    <3> DEFINE x == t + o1
    <3>1. x \in Int
      OBVIOUS
    <3>2. PICK v \in x + 1 .. x + P : Fires(e, v)
      <4> HIDE DEF x
      <4> QED
        BY <3>1, WeeklyFire
    <3> DEFINE u == v - o1
    <3>3. u \in Nat /\ u > t /\ u <= t + P /\ u < c /\ u \in t .. t + 28 * DayLength
      BY <1>2, <2>1
    <3>4. Wall(z, u) = v
      BY <1>1, <3>3 DEF OneChange, Wall
    <3> HIDE DEF u
    <3> QED
      BY <1>2, <3>2, <3>3, <3>4
  <2>2. CASE c <= t + P
    <3> DEFINE x == t + P + o2
    <3>1. x \in Int
      BY <1>2
    <3>2. PICK v \in x + 1 .. x + P : Fires(e, v)
      <4> HIDE DEF x
      <4> QED
        BY <3>1, WeeklyFire
    <3> DEFINE u == v - o2
    <3>3. u \in Nat /\ u > t /\ u <= t + 2 * P /\ u >= c /\ u \in t .. t + 28 * DayLength
      BY <1>2, <2>2
    <3>4. Wall(z, u) = v
      BY <1>1, <3>3 DEF OneChange, Wall
    <3> HIDE DEF u
    <3> QED
      BY <1>2, <3>2, <3>3, <3>4
  <2> QED
    BY <1>2, <2>1, <2>2
<1>4. PICK u \in Nat : u > t /\ u <= t + 2 * P /\ Fires(e, Wall(z, u))
  BY <1>3
<1> DEFINE n == InnerNext(e, z, t)
<1>5. u <= t + Ahead
  BY <1>2, <1>4 DEF Ahead
<1>6. Library(e, z, t, n)
  BY <1>4, <1>5, InnerNextIs
<1>7. n \in Nat /\ n <= u
  <2> HIDE DEF n
  <2> QED
    BY <1>4, <1>6 DEF Library
<1>8. n <= t + 14 * DayLength
  <2> HIDE DEF n
  <2> QED
    BY <1>2, <1>4, <1>7
<1> QED
  BY <1>6, <1>8

\* After a fire that is repeated the clock is not changed again before the next, of which Next
\* thinks no more.
LEMMA AfterRepeat ==
    ASSUME NEW e, NEW z \in Zones, NEW t \in Nat, NEW n, Library(e, z, t, n), IsRepeat(z, t, n)
    PROVE  LET m == InnerNext(e, z, n)
           IN  /\ n \in Nat /\ m \in Nat /\ m # NoTime
               /\ ~InSkippedHour(e, z, n, m) /\ ~IsRepeat(z, n, m)
<1> DEFINE m == InnerNext(e, z, n)
<1>1. PICK c \in Nat, o1 \in Int, o2 \in Int : OneChange(z, t, c, o1, o2)
  BY OneChangeAhead
<1>2. DayLength \in Nat
  BY CalendarAssumption
<1>3. n \in Nat /\ n > t /\ Fires(e, Wall(z, n)) /\ Wall(z, n) \in Int
  BY WallMovesOn DEF Library
<1>4. n <= t + 14 * DayLength
  <2>1. InnerNext(e, z, t) \in Nat /\ Library(e, z, t, InnerNext(e, z, t))
        /\ InnerNext(e, z, t) <= t + 14 * DayLength
    BY <1>3, NextWithinTwoWeeks DEF Library
  <2> DEFINE k == InnerNext(e, z, t)
  <2> HIDE DEF k
  <2>2. k \in Nat /\ Library(e, z, t, k) /\ k <= t + 14 * DayLength
    BY <2>1 DEF k
  <2>3. ~(k < n)
    BY <1>3, <2>2 DEF Library
  <2> QED
    BY <1>2, <1>3, <2>2, <2>3
<1>5. Library(e, z, n, m) /\ m <= n + 14 * DayLength
  BY <1>3, NextWithinTwoWeeks
<1>6. m \in Nat /\ m > n
  BY <1>5 DEF Library
<1> HIDE DEF m
<1>7. n \in t .. t + 28 * DayLength /\ m \in t .. t + 28 * DayLength /\ t \in t .. t + 28 * DayLength
  BY <1>2, <1>3, <1>4, <1>5, <1>6
<1>8. n >= c
  <2>1. Offset(z, n) < Offset(z, t)
    BY DEF IsRepeat
  <2> QED
    BY <1>1, <1>3, <1>7, <2>1 DEF OneChange
<1>9. Offset(z, m) = Offset(z, n)
  BY <1>1, <1>3, <1>6, <1>7, <1>8 DEF OneChange
<1>10. Offset(z, m) \in Int
  BY <1>6, WallMovesOn
<1>11. ~InSkippedHour(e, z, n, m) /\ ~IsRepeat(z, n, m)
  BY <1>9, <1>10 DEF InSkippedHour, IsRepeat
<1> QED
  BY <1>3, <1>5, <1>6, <1>11 DEF m, Library

\* So Next calls itself once at most, and this is what it answers.
Answer(e, z, t) ==
    LET n == InnerNext(e, z, t)
    IN  IF n = NoTime THEN NoTime
        ELSE IF InSkippedHour(e, z, t, n) THEN findTransition(z, t, n)
        ELSE IF IsRepeat(z, t, n) THEN InnerNext(e, z, n)
        ELSE n

\* A recursive function is one that satisfies its equation, if there is any: g is one, and what
\* one more step says of any that does is Answer.
LEMMA CalendarNextIs ==
    ASSUME NEW e, NEW z \in Zones
    PROVE  \A t \in Nat : CalendarNext(e, z)[t] = Answer(e, z, t)
<1> DEFINE Step(f, t) ==
             LET n == InnerNext(e, z, t)
             IN  IF n = NoTime THEN NoTime
                 ELSE IF InSkippedHour(e, z, t, n) THEN findTransition(z, t, n)
                 ELSE IF IsRepeat(z, t, n) THEN f[n]
                 ELSE n
           g == [t \in Nat |-> Answer(e, z, t)]
           Is(f) == f = [t \in Nat |-> Step(f, t)]
<1>1. ASSUME NEW t \in Nat PROVE Answer(e, z, t) = Step(g, t)
  <2> DEFINE n == InnerNext(e, z, t)
             m == InnerNext(e, z, n)
  <2>1. CASE n # NoTime /\ IsRepeat(z, t, n) /\ ~InSkippedHour(e, z, t, n)
    <3>1. Library(e, z, t, n)
      BY <2>1, InnerNextIs
    <3>2. n \in Nat /\ m # NoTime /\ ~InSkippedHour(e, z, n, m) /\ ~IsRepeat(z, n, m)
      BY <2>1, <3>1, AfterRepeat
    <3>3. Answer(e, z, n) = m
      BY <3>2 DEF Answer
    <3>4. g[n] = m
      <4> HIDE DEF n, m
      <4> QED
        BY <3>2, <3>3
    <3>5. Answer(e, z, t) = m
      BY <2>1 DEF Answer
    <3>6. Step(g, t) = g[n]
      <4> HIDE DEF g
      <4> QED
        BY <2>1
    <3> QED
      BY <3>4, <3>5, <3>6
  <2>2. CASE ~(n # NoTime /\ IsRepeat(z, t, n) /\ ~InSkippedHour(e, z, t, n))
    <3> HIDE DEF g
    <3> QED
      BY <2>2 DEF Answer
  <2> QED
    BY <2>1, <2>2
<1>2. Is(g)
  <2> HIDE DEF Step
  <2> QED
    BY <1>1
<1>3. \E f : Is(f)
  <2> HIDE DEF Is, g
  <2> QED
    BY <1>2
<1>4. CalendarNext(e, z) = CHOOSE f : Is(f)
  BY DEF CalendarNext
<1>5. Is(CalendarNext(e, z))
  <2> HIDE DEF Is
  <2> QED
    BY <1>3, <1>4
<1> DEFINE h == CalendarNext(e, z)
<1>6. \A t \in Nat : h[t] = Step(h, t)
  <2> HIDE DEF Step, h
  <2> QED
    BY <1>5 DEF h
<1> HIDE DEF h
<1>7. ASSUME NEW t \in Nat PROVE h[t] = Answer(e, z, t)
  <2> DEFINE n == InnerNext(e, z, t)
             m == InnerNext(e, z, n)
  <2>0. h[t] = Step(h, t)
    BY <1>6
  <2>1. CASE n # NoTime /\ IsRepeat(z, t, n) /\ ~InSkippedHour(e, z, t, n)
    <3>1. Library(e, z, t, n)
      BY <2>1, InnerNextIs
    <3>2. n \in Nat /\ m # NoTime /\ ~InSkippedHour(e, z, n, m) /\ ~IsRepeat(z, n, m)
      BY <2>1, <3>1, AfterRepeat
    <3>3. h[n] = Step(h, n)
      <4> HIDE DEF Step, n
      <4> QED
        BY <1>6, <3>2
    <3>4. Step(h, n) = m
      BY <3>2
    <3>5. Step(h, t) = h[n]
      BY <2>1
    <3>6. Answer(e, z, t) = m
      BY <2>1 DEF Answer
    <3> QED
      BY <2>0, <3>3, <3>4, <3>5, <3>6
  <2>2. CASE ~(n # NoTime /\ IsRepeat(z, t, n) /\ ~InSkippedHour(e, z, t, n))
    BY <2>0, <2>2 DEF Answer
  <2> QED
    BY <2>1, <2>2
<1> QED
  BY <1>7 DEF h

\* What the wall clock shows now it has not shown before, if this is not a repeated stretch.
LEMMA NotShownYet ==
    ASSUME zone \in Zones, clock \in Nat, ~Repeating(clock), NEW u \in Nat, u <= clock
    PROVE  Wall(zone, u) <= Wall(zone, clock)
<1> DEFINE S == {0, clock - DayLength}
           b == IF clock - DayLength > 0 THEN clock - DayLength ELSE 0
<1>1. DayLength \in Nat
  BY CalendarAssumption
<1>2. Max(S) = b
  <2>1. b \in S /\ \A y \in S : b >= y /\ S \subseteq Int
    BY <1>1
  <2>2. Max(S) \in S /\ \A y \in S : Max(S) >= y
    <3> HIDE DEF b, S
    <3> QED
      BY <2>1 DEF Max
  <2>3. Max(S) >= b /\ b >= Max(S) /\ b \in Int /\ Max(S) \in Int
    <3> HIDE DEF b, S
    <3> QED
      BY <2>1, <2>2
  <2> HIDE DEF b, S
  <2> QED
    BY <2>3
<1>3. /\ Wall(zone, u) \in Int /\ Wall(zone, clock) \in Int
      /\ clock >= u + DayLength => Wall(zone, u) < Wall(zone, clock)
  BY WallMovesOn
<1>4. CASE u < clock /\ u > clock - DayLength
  <2>1. u \in b .. clock - 1
    BY <1>1, <1>4
  <2>2. ~(Wall(zone, u) >= Wall(zone, clock))
    <3> HIDE DEF b
    <3> QED
      BY <1>2, <2>1 DEF Repeating
  <2> QED
    BY <1>3, <2>2
<1>5. CASE u = clock
  BY <1>3, <1>5
<1>6. CASE u <= clock - DayLength
  BY <1>1, <1>3, <1>6
<1> QED
  BY <1>1, <1>4, <1>5, <1>6

\* A fire a that is promised, and before which every other that is comes too late or is past.
LEMMA LeastPromised ==
    ASSUME zone \in Zones, clock \in Nat, clock <= LastInstant, expr.kind # "every",
           NEW a \in Nat, a > clock, a <= clock + Ahead,
           NEW w \in Int, Fires(expr, w), Shows(a, w),
           \A u \in Nat : u < a => ~Shows(u, w),
           Wall(zone, clock) - DayLength <= w, w <= Wall(zone, clock) + Ahead + DayLength,
           \A p \in Nat, x \in Int : clock < p /\ p < a /\ Shows(p, x) /\ Fires(expr, x)
              => \E u \in 1 .. clock : Shows(u, x)
    PROVE  a = Min({u \in Promised : u > clock})
<1> DEFINE around == Wall(zone, clock) - DayLength .. Wall(zone, clock) + Ahead + DayLength
           H == clock + Ahead + DayLength
           First(x) == Min({u \in 1 .. H : Shows(u, x)} \cup {LastMoment})
           S == {u \in Promised : u > clock}
<1>1. /\ DayLength \in Nat \ {0} /\ Ahead \in Nat /\ LastMoment \in Nat
      /\ clock + Ahead <= LastMoment /\ H \in Nat /\ Wall(zone, clock) \in Int
  BY CalendarAssumption, WallMovesOn DEF Ahead, LastMoment
<1>2. Promised = {First(x) : x \in {y \in around : Fires(expr, y)}}
  BY DEF Promised
<1>3. ASSUME NEW x
      PROVE  /\ First(x) \in Nat
             /\ First(x) = LastMoment \/ (First(x) \in 1 .. H /\ Shows(First(x), x))
             /\ \A u \in 1 .. H : Shows(u, x) => First(x) <= u
             /\ First(x) <= LastMoment
  <2> DEFINE T == {u \in 1 .. H : Shows(u, x)} \cup {LastMoment}
  <2>1. T \subseteq Nat /\ T # {}
    BY <1>1
  <2>2. Min(T) \in T /\ \A u \in T : Min(T) <= u
    <3> HIDE DEF T
    <3> QED
      BY <2>1, MinNat
  <2> QED
    BY <1>1, <2>2
<1> HIDE DEF First
<1>4. First(w) = a
  <2>1. a \in 1 .. H
    BY <1>1
  <2>2. First(w) <= a /\ First(w) \in Nat
    BY <1>3, <2>1
  <2>3. ~(First(w) < a)
    <3> SUFFICES ASSUME First(w) < a PROVE FALSE
      OBVIOUS
    <3>1. First(w) # LastMoment
      BY <1>1, <2>2
    <3> QED
      BY <1>3, <2>2, <3>1
  <2> QED
    BY <2>2, <2>3
<1>5. a \in S
  <2>1. w \in around
    BY <1>1
  <2> HIDE DEF around
  <2>2. a \in Promised
    BY <1>2, <1>4, <2>1
  <2> QED
    BY <2>2
<1>6. ASSUME NEW p \in S PROVE a <= p
  <2>1. PICK x \in around : Fires(expr, x) /\ p = First(x)
    <3> HIDE DEF around
    <3> QED
      BY <1>2
  <2>2. x \in Int /\ p \in Nat /\ p > clock
    BY <1>1, <1>3, <2>1
  <2> SUFFICES ASSUME p < a PROVE FALSE
    BY <2>2
  <2>3. p # LastMoment
    BY <1>1, <2>2
  <2>4. Shows(p, x)
    BY <1>3, <2>1, <2>3
  <2>5. PICK u \in 1 .. clock : Shows(u, x)
    BY <2>1, <2>2, <2>4
  <2>6. u \in 1 .. H
    BY <1>1
  <2>7. p <= u
    <3> HIDE DEF H
    <3> QED
      BY <1>3, <2>1, <2>5, <2>6
  <2> QED
    BY <2>2, <2>7
<1>7. S \subseteq Int
  BY <1>2, <1>3
<1> HIDE DEF S
<1>8. Min(S) = a
  BY <1>5, <1>6, <1>7, LeastIsMin
<1> QED
  BY <1>8 DEF S

\* A tick asks for a calendar, where the wall clock does not repeat itself; c is the next
\* change of the clock and n the library's answer.
Asked(c, o1, o2, n) ==
    /\ zone \in Zones /\ clock \in Nat /\ clock <= LastInstant /\ expr.kind # "every"
    /\ ~Repeating(clock)
    /\ c \in Nat /\ o1 \in Int /\ o2 \in Int /\ OneChange(zone, clock, c, o1, o2)
    /\ n \in Nat /\ n > clock /\ n <= clock + 14 * DayLength
    /\ Library(expr, zone, clock, n)

LEMMA WallAround ==
    ASSUME NEW c, NEW o1, NEW o2, NEW n, Asked(c, o1, o2, n)
    PROVE  /\ DayLength \in Nat \ {0} /\ c > clock /\ c >= DayLength
           /\ o2 - o1 < DayLength /\ o1 - o2 < DayLength
           /\ Ahead = 16 * DayLength
           /\ \A u \in Nat : clock <= u /\ u <= clock + 28 * DayLength =>
                 /\ u < c => Offset(zone, u) = o1 /\ Wall(zone, u) = u + o1
                 /\ u >= c => Offset(zone, u) = o2 /\ Wall(zone, u) = u + o2
           /\ \A u \in Nat : u <= clock => Wall(zone, u) \in Int /\ Wall(zone, u) <= clock + o1
           /\ \A u \in Nat : clock < u /\ u < n => ~Fires(expr, Wall(zone, u))
           /\ Fires(expr, Wall(zone, n))
<1>1. DayLength \in Nat \ {0} /\ Ahead = 16 * DayLength
  BY CalendarAssumption DEF Ahead
<1>2. ASSUME NEW u \in Nat, clock <= u, u <= clock + 28 * DayLength
      PROVE  /\ u < c => Offset(zone, u) = o1 /\ Wall(zone, u) = u + o1
             /\ u >= c => Offset(zone, u) = o2 /\ Wall(zone, u) = u + o2
  <2>1. u \in clock .. clock + 28 * DayLength
    BY <1>1, <1>2 DEF Asked
  <2>2. Offset(zone, u) = IF u < c THEN o1 ELSE o2
    BY <2>1 DEF Asked, OneChange
  <2> QED
    BY <2>2 DEF Asked, Wall
<1>3. Wall(zone, clock) = clock + o1
  <2>1. clock \in Nat /\ clock < c /\ clock <= clock + 28 * DayLength /\ clock <= clock
    BY <1>1 DEF Asked, OneChange
  <2> QED
    BY <1>2, <2>1
<1>4. ASSUME NEW u \in Nat, u <= clock
      PROVE  Wall(zone, u) \in Int /\ Wall(zone, u) <= clock + o1
  BY <1>3, <1>4, NotShownYet, WallMovesOn DEF Asked
<1> QED
  BY <1>1, <1>2, <1>4 DEF Asked, OneChange, Library

\* While the clock is not changed, it shows each time as it comes.
LEMMA ShownOnce ==
    ASSUME NEW c, NEW o1, NEW o2, NEW n, Asked(c, o1, o2, n),
           NEW p \in Nat, clock < p, p <= clock + 28 * DayLength, p # c \/ o2 <= o1,
           NEW x \in Int, Shows(p, x)
    PROVE  x = Wall(zone, p)
<1>1. p - 1 \in Nat /\ clock <= p - 1 /\ p - 1 <= clock + 28 * DayLength
  BY WallAround DEF Asked
<1>2. /\ c \in Nat /\ o1 \in Int /\ o2 \in Int
      /\ \A u \in Nat : clock <= u /\ u <= clock + 28 * DayLength =>
            /\ u < c => Wall(zone, u) = u + o1
            /\ u >= c => Wall(zone, u) = u + o2
  <2>1. c \in Nat /\ o1 \in Int /\ o2 \in Int
    BY DEF Asked
  <2>2. \A u \in Nat : clock <= u /\ u <= clock + 28 * DayLength =>
            /\ u < c => Offset(zone, u) = o1 /\ Wall(zone, u) = u + o1
            /\ u >= c => Offset(zone, u) = o2 /\ Wall(zone, u) = u + o2
    BY WallAround
  <2> QED
    BY <2>1, <2>2
<1>3. /\ p < c => Wall(zone, p) = p + o1
      /\ p >= c => Wall(zone, p) = p + o2
      /\ p - 1 < c => Wall(zone, p - 1) = p - 1 + o1
      /\ p - 1 >= c => Wall(zone, p - 1) = p - 1 + o2
  <2> DEFINE q == p - 1
  <2> HIDE DEF q
  <2>1. q \in Nat /\ clock <= q /\ q <= clock + 28 * DayLength
    BY <1>1 DEF q
  <2>2. clock <= p
    BY DEF Asked
  <2>3. /\ q < c => Wall(zone, q) = q + o1
        /\ q >= c => Wall(zone, q) = q + o2
    BY <1>2, <2>1
  <2> QED
    BY <1>2, <2>2, <2>3 DEF q
<1> QED
  BY <1>1, <1>2, <1>3 DEF Shows

\* No change of the clock before the fire.
LEMMA PlainFire ==
    ASSUME NEW c, NEW o1, NEW o2, NEW n, Asked(c, o1, o2, n), n < c \/ o1 = o2
    PROVE  Answer(expr, zone, clock) = n => n = Min({u \in Promised : u > clock})
<1> DEFINE w == Wall(zone, n)
<1>1. /\ DayLength \in Nat \ {0} /\ Ahead = 16 * DayLength /\ Fires(expr, w)
      /\ \A u \in Nat : clock <= u /\ u <= n => Wall(zone, u) = u + o1
      /\ \A u \in Nat : u <= clock => Wall(zone, u) \in Int /\ Wall(zone, u) <= clock + o1
      /\ \A u \in Nat : clock < u /\ u < n => ~Fires(expr, Wall(zone, u))
  <2>0. /\ DayLength \in Nat /\ c \in Nat /\ n \in Nat /\ clock \in Nat
        /\ n <= clock + 14 * DayLength
    BY CalendarAssumption DEF Asked
  <2>1. ASSUME NEW u \in Nat, clock <= u, u <= n PROVE Wall(zone, u) = u + o1
    <3>1. u <= clock + 28 * DayLength
      BY <2>0, <2>1
    <3>2. /\ u < c => Wall(zone, u) = u + o1
          /\ u >= c => Wall(zone, u) = u + o2
      BY <2>1, <3>1, WallAround
    <3> QED
      BY <2>0, <2>1, <3>2
  <2> QED
    BY <2>1, WallAround
<1>2. n \in Nat /\ clock \in Nat /\ o1 \in Int /\ n > clock /\ n <= clock + 14 * DayLength
  BY DEF Asked
<1>3. w = n + o1 /\ Wall(zone, clock) = clock + o1
  BY <1>1, <1>2
<1>4. Shows(n, w)
  BY DEF Shows
<1>5. ASSUME NEW u \in Nat, u < n PROVE ~Shows(u, w)
  <2>1. Wall(zone, u) \in Int /\ Wall(zone, u) < w
    <3>1. CASE u <= clock
      BY <1>1, <1>2, <1>3, <3>1
    <3>2. CASE u > clock
      BY <1>1, <1>2, <1>3, <1>5, <3>2
    <3> QED
      BY <1>2, <3>1, <3>2
  <2>2. w \in Int
    BY <1>2, <1>3
  <2> HIDE DEF w
  <2> QED
    BY <2>1, <2>2 DEF Shows
<1>6. ASSUME NEW p \in Nat, NEW x \in Int, clock < p, p < n, Shows(p, x), Fires(expr, x)
      PROVE  FALSE
  <2>1. x = Wall(zone, p)
    <3>1. p # c \/ o2 <= o1
      BY <1>2, <1>6 DEF Asked
    <3>2. p <= clock + 28 * DayLength
      BY <1>1, <1>2, <1>6
    <3> QED
      BY <1>6, <3>1, <3>2, ShownOnce
  <2> QED
    BY <1>1, <1>6, <2>1
<1>7. w \in Int /\ Wall(zone, clock) - DayLength <= w /\ w <= Wall(zone, clock) + Ahead + DayLength
      /\ n <= clock + Ahead
  BY <1>1, <1>2, <1>3
<1> HIDE DEF w
<1>8. n = Min({u \in Promised : u > clock})
  BY <1>1, <1>2, <1>4, <1>5, <1>6, <1>7, LeastPromised DEF Asked
<1> QED
  BY <1>8

\* The transition that Next finds is the change.
LEMMA TransitionFound ==
    ASSUME NEW c, NEW o1, NEW o2, NEW n, Asked(c, o1, o2, n), n >= c, o1 # o2
    PROVE  /\ Offset(zone, clock) = o1 /\ Offset(zone, n) = o2
           /\ findTransition(zone, clock, n) = c
<1>1. /\ c \in Nat /\ o1 \in Int /\ o2 \in Int /\ n \in Nat /\ clock \in Nat
      /\ n > clock /\ n <= clock + 14 * DayLength
  BY DEF Asked
<1>2. DayLength \in Nat \ {0} /\ c > clock
  BY WallAround
<1>3. ASSUME NEW u \in Nat, clock <= u, u <= n
      PROVE  Offset(zone, u) = IF u < c THEN o1 ELSE o2
  <2>1. u <= clock + 28 * DayLength
    BY <1>1, <1>2, <1>3
  <2>2. /\ u < c => Offset(zone, u) = o1
        /\ u >= c => Offset(zone, u) = o2
    BY <1>3, <2>1, WallAround
  <2> QED
    BY <1>1, <2>2
<1>4. Offset(zone, clock) = o1 /\ Offset(zone, n) = o2
  BY <1>1, <1>2, <1>3
<1> DEFINE S == {u \in clock + 1 .. n : Offset(zone, u) # Offset(zone, clock)}
<1>5. S \subseteq Nat /\ c \in S
  BY <1>1, <1>2, <1>3, <1>4
<1>6. \A u \in S : c <= u
  BY <1>1, <1>2, <1>3, <1>4
<1>7. findTransition(zone, clock, n) = Earliest(S)
  BY DEF findTransition
<1>8. Earliest(S) = c
  <2> HIDE DEF S
  <2>1. S # {}
    BY <1>5
  <2>2. Earliest(S) = Min(S) /\ S \subseteq Int
    BY <1>5, <2>1 DEF Earliest
  <2> QED
    BY <1>5, <1>6, <2>2, LeastIsMin
<1> QED
  BY <1>4, <1>7, <1>8

\* The clock jumps forward before the library's fire.
LEMMA JumpForward ==
    ASSUME NEW c, NEW o1, NEW o2, NEW n, Asked(c, o1, o2, n), n >= c, o2 > o1
    PROVE  IF InSkippedHour(expr, zone, clock, n)
           THEN c = Min({u \in Promised : u > clock})
           ELSE n = Min({u \in Promised : u > clock})
<1> DEFINE s == FixedNext(expr, o1, clock)
<1>1. /\ c \in Nat /\ o1 \in Int /\ o2 \in Int /\ n \in Nat /\ clock \in Nat
      /\ n > clock /\ n <= clock + 14 * DayLength
  BY DEF Asked
<1>2. /\ DayLength \in Nat \ {0} /\ c > clock /\ o2 - o1 < DayLength
      /\ Ahead = 16 * DayLength
  BY WallAround
<1>3. ASSUME NEW u \in Nat, clock <= u, u <= n
      PROVE  /\ u < c => Wall(zone, u) = u + o1
             /\ u >= c => Wall(zone, u) = u + o2
  <2>1. u <= clock + 28 * DayLength
    BY <1>1, <1>2, <1>3
  <2> QED
    BY <1>3, <2>1, WallAround
<1>4. /\ \A u \in Nat : u <= clock => Wall(zone, u) \in Int /\ Wall(zone, u) <= clock + o1
      /\ \A u \in Nat : clock < u /\ u < n => ~Fires(expr, Wall(zone, u))
      /\ Fires(expr, Wall(zone, n))
  BY WallAround
<1>5. Wall(zone, clock) = clock + o1 /\ Wall(zone, n) = n + o2 /\ Wall(zone, c) = c + o2
      /\ Wall(zone, c - 1) = c - 1 + o1
  <2>1. c - 1 \in Nat /\ clock <= c - 1 /\ c - 1 <= n /\ c - 1 < c
    BY <1>1, <1>2
  <2>2. Wall(zone, c - 1) = c - 1 + o1
    BY <1>3, <2>1
  <2> QED
    BY <1>1, <1>2, <1>3, <2>2
<1>6. \/ s = NoTime /\ \A u \in Nat : u > clock /\ u <= clock + Ahead => ~Fires(expr, u + o1)
      \/ /\ s \in Nat /\ s # NoTime /\ s > clock /\ s <= clock + Ahead /\ Fires(expr, s + o1)
         /\ \A u \in Nat : u > clock /\ u < s => ~Fires(expr, u + o1)
  BY <1>1, FixedNextIs
<1>7. InSkippedHour(expr, zone, clock, n) <=> s # NoTime /\ s >= c /\ s < c + (o2 - o1)
  <2>1. /\ Offset(zone, clock) = o1 /\ Offset(zone, n) = o2
        /\ findTransition(zone, clock, n) = c
    BY <1>1, TransitionFound
  <2> QED
    BY <2>1 DEF InSkippedHour
<1> HIDE DEF s
\* Until the change, and then until the fire, what the clock shows as it comes does not fire.
<1>8. ASSUME NEW p \in Nat, NEW x \in Int, clock < p, p < n, p # c, Shows(p, x), Fires(expr, x)
      PROVE  FALSE
  <2>1. p <= clock + 28 * DayLength
    BY <1>1, <1>2, <1>8
  <2>2. x = Wall(zone, p)
    BY <1>8, <2>1, ShownOnce
  <2> QED
    BY <1>4, <1>8, <2>2
<1>9. CASE InSkippedHour(expr, zone, clock, n)
  <2> DEFINE w == s + o1
  <2>1. s \in Nat /\ s >= c /\ s < c + (o2 - o1) /\ Fires(expr, w)
    BY <1>6, <1>7, <1>9
  <2>2. Shows(c, w)
    BY <1>1, <1>5, <2>1 DEF Shows
  <2>3. ASSUME NEW u \in Nat, u < c PROVE ~Shows(u, w)
    <3>1. Wall(zone, u) \in Int /\ Wall(zone, u) < w
      <4>1. CASE u <= clock
        BY <1>1, <1>2, <1>4, <2>1, <4>1
      <4>2. CASE u > clock
        BY <1>1, <1>3, <2>1, <2>3, <4>2
      <4> QED
        BY <1>1, <4>1, <4>2
    <3>2. w \in Int
      BY <1>1, <2>1
    <3> HIDE DEF w
    <3> QED
      BY <3>1, <3>2 DEF Shows
  <2>4. \A p \in Nat, x \in Int : clock < p /\ p < c /\ Shows(p, x) /\ Fires(expr, x) => FALSE
    BY <1>1, <1>8
  <2>5. w \in Int /\ Wall(zone, clock) - DayLength <= w
        /\ w <= Wall(zone, clock) + Ahead + DayLength /\ c <= clock + Ahead
    BY <1>1, <1>2, <1>5, <2>1
  <2> HIDE DEF w
  <2>6. c = Min({u \in Promised : u > clock})
    BY <1>1, <1>2, <2>1, <2>2, <2>3, <2>4, <2>5, LeastPromised DEF Asked
  <2> QED
    BY <1>9, <2>6
<1>10. CASE ~InSkippedHour(expr, zone, clock, n)
  <2> DEFINE w == n + o2
  <2>1. w \in Int /\ Fires(expr, w) /\ Shows(n, w)
    BY <1>1, <1>4, <1>5 DEF Shows
  <2>2. ASSUME NEW u \in Nat, u < n PROVE ~Shows(u, w)
    <3>1. Wall(zone, u) \in Int /\ Wall(zone, u) < w
      <4>1. CASE u <= clock
        BY <1>1, <1>2, <1>4, <4>1
      <4>2. CASE u > clock /\ u < c
        BY <1>1, <1>3, <2>2, <4>2
      <4>3. CASE u > clock /\ u >= c
        BY <1>1, <1>3, <2>2, <4>3
      <4> QED
        BY <1>1, <4>1, <4>2, <4>3
    <3> HIDE DEF w
    <3> QED
      BY <2>1, <3>1 DEF Shows
  <2>3. ASSUME NEW x \in Int, c < n, Shows(c, x), Fires(expr, x) PROVE FALSE
    <3>1. x # c + o2
      BY <1>1, <1>2, <1>4, <1>5, <2>3
    <3>2. c - 1 + o1 < x /\ x < c + o2
      BY <1>5, <2>3, <3>1 DEF Shows
    <3> DEFINE v == x - o1
    <3>3. v \in Nat /\ v >= c /\ v < c + (o2 - o1) /\ v > clock /\ v <= clock + Ahead
          /\ v + o1 = x
      BY <1>1, <1>2, <3>2
    <3> HIDE DEF v
    <3>4. s \in Nat /\ s # NoTime /\ s > clock /\ s <= v /\ Fires(expr, s + o1)
      BY <1>6, <2>3, <3>3
    <3>5. ~(s < c)
      <4> SUFFICES ASSUME s < c PROVE FALSE
        OBVIOUS
      <4>1. clock <= s /\ s <= n /\ s < n
        BY <1>1, <3>4
      <4>2. Wall(zone, s) = s + o1
        BY <1>3, <3>4, <4>1
      <4> QED
        BY <1>4, <3>4, <4>1, <4>2
    <3> QED
      BY <1>1, <1>7, <1>10, <3>3, <3>4, <3>5
  <2>4. \A p \in Nat, x \in Int : clock < p /\ p < n /\ Shows(p, x) /\ Fires(expr, x) => FALSE
    BY <1>8, <2>3
  <2>5. Wall(zone, clock) - DayLength <= w
        /\ w <= Wall(zone, clock) + Ahead + DayLength /\ n <= clock + Ahead
    BY <1>1, <1>2, <1>5
  <2> HIDE DEF w
  <2>6. n = Min({u \in Promised : u > clock})
    BY <1>1, <2>1, <2>2, <2>4, <2>5, LeastPromised DEF Asked
  <2> QED
    BY <1>10, <2>6
<1> QED
  BY <1>9, <1>10

\* Two fires that lie apart by less than their times of day may: times of day are a day apart,
\* or by what one is later than the other.
LEMMA TimesApart ==
    ASSUME NEW x \in Int, NEW y \in Int, x < y
    PROVE  /\ TimeOfDay(x) = TimeOfDay(y) => y - x >= DayLength
           /\ y - x >= (TimeOfDay(y) - TimeOfDay(x)) % DayLength
<1> DEFINE q == x \div DayLength
           r == x % DayLength
           p == y \div DayLength
           s == y % DayLength
           d == s - r
<1>1. DayLength \in Nat \ {0}
  BY CalendarAssumption
<1>2. /\ q \in Int /\ r \in 0 .. DayLength - 1 /\ x = DayLength * q + r
      /\ p \in Int /\ s \in 0 .. DayLength - 1 /\ y = DayLength * p + s
  BY <1>1, Division
<1> HIDE DEF q, r, p, s
<1>3. p >= q
  <2> SUFFICES ASSUME p + 1 <= q PROVE FALSE
    BY <1>2
  <2>1. DayLength * (p + 1) <= DayLength * q
    BY <1>1, <1>2, Z3
  <2>2. DayLength * (p + 1) = DayLength * p + DayLength
    BY <1>1, <1>2
  <2>3. DayLength * p \in Int /\ DayLength * q \in Int
    BY <1>1, <1>2
  <2> DEFINE A == DayLength * p
             B == DayLength * q
  <2> HIDE DEF A, B
  <2>4. A \in Int /\ B \in Int /\ A + DayLength <= B /\ x = B + r /\ y = A + s
    BY <1>2, <2>1, <2>2, <2>3 DEF A, B
  <2> QED
    BY <1>1, <1>2, <2>4
<1>4. y - x = DayLength * (p - q) + d
  <2>1. DayLength * (p - q) = DayLength * p - DayLength * q
    BY <1>1, <1>2
  <2> QED
    BY <1>1, <1>2, <2>1
<1>5. p # q => DayLength * (p - q) >= DayLength
  <2> SUFFICES ASSUME p - q >= 1 PROVE DayLength * (p - q) >= DayLength
    BY <1>2, <1>3
  <2> QED
    BY <1>1, <1>2, Z3
<1>6. r = s => y - x >= DayLength
  <2> SUFFICES ASSUME r = s PROVE y - x >= DayLength
    OBVIOUS
  <2>1. d = 0
    BY <1>2
  <2>2. p # q
    <3>1. p = q => DayLength * (p - q) = 0
      BY <1>1, <1>2
    <3> QED
      BY <1>2, <1>4, <2>1, <3>1
  <2>3. DayLength * (p - q) \in Int
    BY <1>1, <1>2
  <2> QED
    BY <1>1, <1>2, <1>4, <1>5, <2>1, <2>2, <2>3
<1>7. d \in Int /\ d % DayLength = IF d >= 0 THEN d ELSE d + DayLength
  <2>1. d \in Int /\ d < DayLength /\ d > -DayLength
    BY <1>1, <1>2
  <2> HIDE DEF d
  <2>2. /\ d \div DayLength \in Int /\ d % DayLength \in 0 .. DayLength - 1
        /\ d = DayLength * (d \div DayLength) + (d % DayLength)
    BY <1>1, <2>1, Division
  <2> DEFINE k == d \div DayLength
             m == d % DayLength
  <2>3. k \in Int /\ m \in 0 .. DayLength - 1 /\ d = DayLength * k + m
    BY <2>2
  <2> HIDE DEF k, m
  <2>4. CASE d >= 0
    <3>1. DayLength * k + m = DayLength * 0 + d
      BY <1>1, <2>1, <2>3, <2>4
    <3>2. d \in 0 .. DayLength - 1
      BY <1>1, <2>1, <2>4
    <3>3. m = d
      BY <1>1, <2>3, <3>1, <3>2, QuotientUnique
    <3> QED
      BY <2>1, <2>4, <3>3 DEF m
  <2>5. CASE d < 0
    <3> DEFINE f == d + DayLength
    <3>1. DayLength * k + m = DayLength * (-1) + f
      BY <1>1, <2>1, <2>3, <2>5
    <3>2. f \in 0 .. DayLength - 1
      BY <1>1, <2>1, <2>5
    <3>3. m = f
      <4> HIDE DEF f
      <4> QED
        BY <1>1, <2>3, <3>1, <3>2, QuotientUnique
    <3> QED
      BY <2>1, <2>5, <3>3 DEF m
  <2> QED
    BY <2>1, <2>4, <2>5
<1>8. y - x >= d % DayLength
  <2>1. DayLength * (p - q) \in Int /\ (p = q => DayLength * (p - q) = 0)
    BY <1>1, <1>2
  <2> DEFINE M == DayLength * (p - q)
  <2> HIDE DEF M, d
  <2>2. M \in Int /\ (p = q => M = 0) /\ (p # q => M >= DayLength) /\ y - x = M + d
    BY <1>4, <1>5, <2>1 DEF M
  <2>3. d < DayLength /\ d > -DayLength
    BY <1>1, <1>2 DEF d
  <2> QED
    BY <1>1, <1>7, <2>2, <2>3
<1> QED
  BY <1>6, <1>8 DEF TimeOfDay, r, s

\* The twin of a repeated fire showed the same time, before the change.
LEMMA TwinShown ==
    ASSUME NEW c, NEW o1, NEW o2, NEW n, Asked(c, o1, o2, n), n >= c, o2 < o1,
           n - (o1 - o2) <= clock
    PROVE  n - (o1 - o2) \in 1 .. clock /\ Wall(zone, n - (o1 - o2)) = n + o2
<1> DEFINE twin == n - (o1 - o2)
<1>1. /\ c \in Nat /\ o1 \in Int /\ o2 \in Int /\ n \in Nat /\ clock \in Nat
      /\ n > clock /\ n <= clock + 14 * DayLength /\ zone \in Zones
  BY DEF Asked
<1>2. DayLength \in Nat \ {0} /\ c >= DayLength /\ o1 - o2 < DayLength
  BY WallAround
<1>3. twin \in 1 .. clock /\ twin \in Nat /\ n = twin + (o1 - o2)
  BY <1>1, <1>2
<1> HIDE DEF twin
<1>4. PICK d \in Nat, p1 \in Int, p2 \in Int : OneChange(zone, twin, d, p1, p2)
  BY <1>1, <1>3, OneChangeAhead
<1>5. /\ twin \in twin .. twin + 28 * DayLength
      /\ clock \in twin .. twin + 28 * DayLength
      /\ n \in twin .. twin + 28 * DayLength
  BY <1>1, <1>2, <1>3
<1>6. /\ Offset(zone, twin) = IF twin < d THEN p1 ELSE p2
      /\ Offset(zone, clock) = IF clock < d THEN p1 ELSE p2
      /\ Offset(zone, n) = IF n < d THEN p1 ELSE p2
  BY <1>4, <1>5 DEF OneChange
<1>7. Offset(zone, clock) = o1 /\ Offset(zone, n) = o2
  BY <1>1, TransitionFound
<1>8. Offset(zone, twin) = o1
  BY <1>1, <1>3, <1>4, <1>6, <1>7
<1>9. Wall(zone, twin) = n + o2
  BY <1>1, <1>3, <1>8 DEF Wall
<1> QED
  BY <1>3, <1>9 DEF twin

\* The clock falls back before the library's fire.
LEMMA FallBack ==
    ASSUME NEW c, NEW o1, NEW o2, NEW n, Asked(c, o1, o2, n), n >= c, o2 < o1,
           expr.kind = "cron", Sparse
    PROVE  IF IsRepeat(zone, clock, n)
           THEN InnerNext(expr, zone, n) = Min({u \in Promised : u > clock})
           ELSE n = Min({u \in Promised : u > clock})
<1> DEFINE k == o1 - o2
           twin == n - k
           m == InnerNext(expr, zone, n)
<1>1. /\ c \in Nat /\ o1 \in Int /\ o2 \in Int /\ n \in Nat /\ clock \in Nat
      /\ n > clock /\ n <= clock + 14 * DayLength /\ zone \in Zones
  BY DEF Asked
<1>2. /\ DayLength \in Nat \ {0} /\ c > clock /\ c >= DayLength /\ k < DayLength
      /\ Ahead = 16 * DayLength /\ k \in Nat /\ k > 0
  BY <1>1, WallAround
<1>3. ASSUME NEW u \in Nat, clock <= u, u <= clock + 28 * DayLength
      PROVE  /\ u < c => Wall(zone, u) = u + o1
             /\ u >= c => Wall(zone, u) = u + o2
  BY <1>3, WallAround
<1>4. /\ \A u \in Nat : u <= clock => Wall(zone, u) \in Int /\ Wall(zone, u) <= clock + o1
      /\ \A u \in Nat : clock < u /\ u < n => ~Fires(expr, Wall(zone, u))
      /\ Fires(expr, Wall(zone, n))
  BY WallAround
<1>5. Wall(zone, clock) = clock + o1 /\ Wall(zone, n) = n + o2
  BY <1>1, <1>2, <1>3
<1>6. ASSUME NEW p \in Nat, NEW x \in Int, clock < p, p <= clock + 28 * DayLength, Shows(p, x)
      PROVE  x = Wall(zone, p)
  BY <1>1, <1>6, ShownOnce
<1>7. twin <= clock => twin \in 1 .. clock /\ Wall(zone, twin) = n + o2
  BY TwinShown
<1>8. IsRepeat(zone, clock, n) <=> twin <= clock
  <2>1. Offset(zone, clock) = o1 /\ Offset(zone, n) = o2
    BY <1>1, TransitionFound
  <2>2. IsRepeat(zone, clock, n)
          <=> twin <= clock /\ TimeOfDay(Wall(zone, twin)) = TimeOfDay(Wall(zone, n))
    BY <2>1 DEF IsRepeat
  <2> HIDE DEF twin
  <2> QED
    BY <1>5, <1>7, <2>2
\* What the clock shows at a, after n or at it, it has not shown before if a is late enough.
<1>9. ASSUME NEW a \in Nat, a >= c + k, a <= clock + 28 * DayLength, NEW u \in Nat, u < a
      PROVE  ~Shows(u, a + o2)
  <2> DEFINE w == a + o2
  <2>1. Wall(zone, u) \in Int /\ Wall(zone, u) < w
    <3>1. CASE u <= clock
      <4>1. Wall(zone, u) \in Int /\ Wall(zone, u) <= clock + o1
        BY <1>4, <3>1
      <4> QED
        BY <1>1, <1>2, <1>9, <4>1
    <3>2. CASE u > clock /\ u < c
      BY <1>1, <1>2, <1>3, <1>9, <3>2
    <3>3. CASE u > clock /\ u >= c
      BY <1>1, <1>2, <1>3, <1>9, <3>3
    <3> QED
      BY <1>1, <3>1, <3>2, <3>3
  <2>2. w \in Int
    BY <1>1, <1>9
  <2> HIDE DEF w
  <2>3. ~Shows(u, w)
    BY <2>1, <2>2 DEF Shows
  <2> QED
    BY <2>3 DEF w
<1>10. CASE IsRepeat(zone, clock, n)
  <2> DEFINE w == m + o2
  <2>1. twin \in 1 .. clock /\ Wall(zone, twin) = n + o2
    BY <1>7, <1>8, <1>10
  <2>2. Library(expr, zone, n, m) /\ m <= n + 14 * DayLength
    BY <1>1, <1>4, <1>5, NextWithinTwoWeeks
  <2> HIDE DEF m
  <2>3. /\ m \in Nat /\ m > n /\ Fires(expr, Wall(zone, m))
        /\ \A u \in Nat : u > n /\ u < m => ~Fires(expr, Wall(zone, u))
    BY <2>2 DEF Library
  <2>4. m <= clock + Ahead /\ m <= clock + 28 * DayLength
    BY <1>1, <1>2, <2>1, <2>2, <2>3
  <2>5. Wall(zone, m) = w
    BY <1>1, <1>3, <2>3, <2>4
  <2>6. m - n > k
    <3> DEFINE x == n + o2
    <3>1. x \in Int /\ w \in Int /\ x < w /\ w - x = m - n
      BY <1>1, <2>3
    <3>2. Fires(expr, x) /\ Fires(expr, w)
      BY <1>4, <1>5, <2>3, <2>5
    <3> HIDE DEF x, w
    <3>3. TimeOfDay(x) \in expr.times /\ TimeOfDay(w) \in expr.times
      BY <3>2 DEF Fires
    <3>4. CASE TimeOfDay(x) = TimeOfDay(w)
      <4>1. w - x >= DayLength
        BY <3>1, <3>4, TimesApart
      <4> QED
        BY <1>1, <1>2, <2>3, <3>1, <4>1
    <3>5. CASE TimeOfDay(x) # TimeOfDay(w)
      <4>1. PICK i \in 2 .. Len(zone) : o1 = zone[i - 1].offset /\ o2 = zone[i].offset
        BY <1>1 DEF Asked, OneChange
      <4>2. (TimeOfDay(w) - TimeOfDay(x)) % DayLength > -(o2 - o1)
        BY <3>3, <3>5, <4>1 DEF Sparse
      <4>3. w - x >= (TimeOfDay(w) - TimeOfDay(x)) % DayLength
        BY <3>1, TimesApart
      <4>4. TimeOfDay(w) \in Int /\ TimeOfDay(x) \in Int
        BY <1>2, <3>1, Division DEF TimeOfDay
      <4>5. (TimeOfDay(w) - TimeOfDay(x)) % DayLength \in Int
        BY <1>2, <4>4
      <4> QED
        BY <1>1, <1>2, <2>3, <3>1, <4>2, <4>3, <4>5
    <3> QED
      BY <3>4, <3>5
  <2>7. \A u \in Nat : u < m => ~Shows(u, w)
    <3>1. m >= c + k
      BY <1>1, <1>2, <2>3, <2>6
    <3> QED
      BY <1>9, <2>3, <2>4, <3>1
  <2>8. ASSUME NEW p \in Nat, NEW x \in Int, clock < p, p < m, Shows(p, x), Fires(expr, x)
        PROVE  \E u \in 1 .. clock : Shows(u, x)
    <3>1. x = Wall(zone, p)
      BY <1>1, <1>2, <1>6, <2>3, <2>4, <2>8
    <3>2. p = n
      BY <1>1, <1>4, <2>3, <2>8, <3>1
    <3>3. Shows(twin, x)
      <4>1. Wall(zone, twin) = x
        BY <1>5, <2>1, <3>1, <3>2
      <4> HIDE DEF twin
      <4> QED
        BY <4>1 DEF Shows
    <3> HIDE DEF twin
    <3> QED
      BY <2>1, <3>3
  <2>9. w \in Int /\ Shows(m, w) /\ Wall(zone, clock) - DayLength <= w
        /\ w <= Wall(zone, clock) + Ahead + DayLength
    <3>1. Shows(m, w)
      BY <2>5 DEF Shows
    <3> QED
      BY <1>1, <1>2, <1>5, <2>3, <2>4, <3>1
  <2>10. Fires(expr, w) /\ m > clock
    BY <1>1, <2>3, <2>5
  <2> HIDE DEF w
  <2>11. m = Min({u \in Promised : u > clock})
    BY <1>1, <2>3, <2>4, <2>7, <2>8, <2>9, <2>10, LeastPromised DEF Asked
  <2> QED
    BY <1>10, <2>11 DEF m
<1>11. CASE ~IsRepeat(zone, clock, n)
  <2> DEFINE w == n + o2
  <2>1. twin > clock /\ twin \in Nat
    BY <1>1, <1>2, <1>8, <1>11
  <2>2. twin >= c
    <3> SUFFICES ASSUME twin < c PROVE FALSE
      BY <1>1, <2>1
    <3>1. twin < n /\ clock <= twin /\ twin <= clock + 28 * DayLength
      BY <1>1, <1>2, <2>1
    <3>2. Wall(zone, twin) = twin + o1 /\ twin + o1 = n + o2
      BY <1>1, <1>3, <2>1, <3>1
    <3> HIDE DEF twin
    <3> QED
      BY <1>4, <1>5, <2>1, <3>1, <3>2
  <2>3. n >= c + k /\ n <= clock + 28 * DayLength
    BY <1>1, <1>2, <2>2
  <2>4. \A u \in Nat : u < n => ~Shows(u, w)
    BY <1>1, <1>9, <2>3
  <2>5. ASSUME NEW p \in Nat, NEW x \in Int, clock < p, p < n, Shows(p, x), Fires(expr, x)
        PROVE  FALSE
    <3>1. x = Wall(zone, p)
      BY <1>1, <1>2, <1>6, <2>3, <2>5
    <3> QED
      BY <1>4, <2>5, <3>1
  <2>6. w \in Int /\ Shows(n, w) /\ Fires(expr, w) /\ Wall(zone, clock) - DayLength <= w
        /\ w <= Wall(zone, clock) + Ahead + DayLength /\ n <= clock + Ahead
    <3>1. Shows(n, w)
      BY <1>5 DEF Shows
    <3> QED
      BY <1>1, <1>2, <1>4, <1>5, <3>1
  <2> HIDE DEF w
  <2>7. n = Min({u \in Promised : u > clock})
    BY <1>1, <2>4, <2>5, <2>6, LeastPromised DEF Asked
  <2> QED
    BY <1>11, <2>7
<1> QED
  BY <1>10, <1>11

\* What Next answers of a calendar is the least fire that is promised.
LEMMA CalendarFires ==
    ASSUME zone \in Zones, clock \in Nat, clock <= LastInstant, expr.kind = "cron",
           NEW v \in Int, Fires(expr, v), Sparse, ~Repeating(clock)
    PROVE  CalendarNext(expr, zone)[clock] = Min({u \in Promised : u > clock})
<1> DEFINE n == InnerNext(expr, zone, clock)
           least == Min({u \in Promised : u > clock})
<1>1. PICK c \in Nat, o1 \in Int, o2 \in Int : OneChange(zone, clock, c, o1, o2)
  BY OneChangeAhead
<1>2. Library(expr, zone, clock, n) /\ n <= clock + 14 * DayLength
  BY NextWithinTwoWeeks
<1> HIDE DEF n, least
<1>3. Asked(c, o1, o2, n)
  BY <1>1, <1>2 DEF Asked, Library
<1>4. n \in Nat /\ n # NoTime
  BY <1>2 DEF Library
<1>5. Answer(expr, zone, clock) = IF InSkippedHour(expr, zone, clock, n)
                                  THEN findTransition(zone, clock, n)
                                  ELSE IF IsRepeat(zone, clock, n) THEN InnerNext(expr, zone, n)
                                  ELSE n
  BY <1>4 DEF Answer, n
<1>6. Answer(expr, zone, clock) = least
  <2>1. CASE n < c \/ o1 = o2
    <3>1. Offset(zone, clock) = o1 /\ Offset(zone, n) = o1
      <4>1. n <= clock + 28 * DayLength /\ clock <= n /\ clock <= clock + 28 * DayLength
            /\ clock < c
        <5>1. DayLength \in Nat /\ c > clock
          BY <1>3, WallAround
        <5>2. n > clock /\ n <= clock + 14 * DayLength /\ clock \in Nat /\ c \in Nat
          BY <1>3 DEF Asked
        <5> QED
          BY <1>4, <5>1, <5>2
      <4>2. \A u \in Nat : clock <= u /\ u <= clock + 28 * DayLength =>
              /\ u < c => Offset(zone, u) = o1
              /\ u >= c => Offset(zone, u) = o2
        BY <1>3, WallAround
      <4> QED
        BY <1>4, <2>1, <4>1, <4>2
    <3>2. ~InSkippedHour(expr, zone, clock, n) /\ ~IsRepeat(zone, clock, n)
      BY <3>1 DEF InSkippedHour, IsRepeat
    <3> QED
      BY <1>3, <1>5, <2>1, <3>2, PlainFire DEF least
  <2>2. CASE n >= c /\ o2 > o1
    <3>1. /\ Offset(zone, clock) = o1 /\ Offset(zone, n) = o2
          /\ findTransition(zone, clock, n) = c
      BY <1>3, <2>2, TransitionFound
    <3>2. ~IsRepeat(zone, clock, n)
      BY <2>2, <3>1 DEF IsRepeat
    <3>3. IF InSkippedHour(expr, zone, clock, n) THEN c = least ELSE n = least
      BY <1>3, <2>2, JumpForward DEF least
    <3> QED
      BY <1>5, <3>1, <3>2, <3>3
  <2>3. CASE n >= c /\ o2 < o1
    <3>1. Offset(zone, clock) = o1 /\ Offset(zone, n) = o2
      BY <1>3, <2>3, TransitionFound
    <3>2. ~InSkippedHour(expr, zone, clock, n)
      BY <2>3, <3>1 DEF InSkippedHour
    <3>3. IF IsRepeat(zone, clock, n) THEN InnerNext(expr, zone, n) = least ELSE n = least
      BY <1>3, <2>3, FallBack DEF least
    <3> QED
      BY <1>5, <3>2, <3>3
  <2> QED
    BY <1>1, <1>4, <2>1, <2>2, <2>3
<1> QED
  BY <1>6, CalendarNextIs DEF least

CalendarInv ==
    /\ clock \in Nat /\ clock <= LastInstant /\ expr \in Expressions /\ zone \in Zones
    /\ Parses(expr, zone) /\ answer = Next_(expr, zone, clock)

\* The next fire is the least that vixie cron promises: of an interval, its anchor and every
\* multiple of it from there; of a calendar, each time of each day once, a skipped one at the
\* jump and a repeated one in its first pass. For any intervals and anchors, for calendars whose
\* times are further apart than the clock ever jumps, and zones whose clock is not changed twice
\* within four weeks; but not of an ask within the hour that is repeated, where the code answers
\* with the repeat (nextCron).
THEOREM SchedulesFireAsPromised == CalendarSpec => []FireAsPromised
<1>1. CalendarInit => CalendarInv
  BY CalendarAssumption DEF CalendarInit, CalendarInv
<1>2. CalendarInv /\ [ClockTick]_calendarVars => CalendarInv'
  <2> SUFFICES ASSUME CalendarInv, [ClockTick]_calendarVars PROVE CalendarInv'
    OBVIOUS
  <2>1. CASE ClockTick
    <3>1. clock' = clock + 1 /\ clock' \in Nat /\ clock' <= LastInstant /\ expr' = expr /\ zone' = zone
      BY <2>1, CalendarAssumption DEF CalendarInv, ClockTick
    <3>2. answer' = Next_(expr', zone', clock')
      BY <2>1 DEF ClockTick
    <3> QED
      BY <3>1, <3>2 DEF CalendarInv
  <2>2. CASE UNCHANGED calendarVars
    BY <2>2 DEF CalendarInv, calendarVars
  <2> QED
    BY <2>1, <2>2
<1>3. CalendarInv /\ expr.kind = "every" => FireAsPromised
  <2> SUFFICES ASSUME CalendarInv, expr.kind = "every" PROVE FireAsPromised
    OBVIOUS
  <2> DEFINE a == usableAnchor(expr)
  <2>1. a \in Nat /\ expr.gap \in Nat \ {0} /\ clock \in Nat
    BY CalendarAssumption DEF CalendarInv, usableAnchor, Parses
  <2>2. answer = IF a > clock THEN a ELSE a + ((clock - a) \div expr.gap + 1) * expr.gap
    BY DEF CalendarInv, Next_, nextFromAnchor
  <2>3. Promised = {a + n * expr.gap : n \in 0 .. clock + 1}
    BY DEF Promised
  <2>4. answer = Min({u \in Promised : u > clock})
    <3> HIDE DEF a
    <3> QED
      BY <2>1, <2>2, <2>3, AnchorNext
  <2> QED
    BY <2>4 DEF FireAsPromised
<1>4. CalendarInv /\ expr.kind = "cron" => FireAsPromised
  <2> SUFFICES ASSUME CalendarInv, expr.kind = "cron", Sparse, ~Repeating(clock)
               PROVE  answer = Min({u \in Promised : u > clock})
    BY DEF FireAsPromised
  <2> DEFINE f == InnerNext(expr, zone, 0)
  <2>1. /\ zone \in Zones /\ clock \in Nat /\ clock <= LastInstant
        /\ answer = CalendarNext(expr, zone)[clock]
        /\ CalendarNext(expr, zone)[0] # NoTime
    BY DEF CalendarInv, Parses, Next_
  <2>2. f # NoTime
    BY <2>1, CalendarNextIs DEF Answer
  <2>3. f \in Nat /\ Fires(expr, Wall(zone, f))
    BY <2>2, InnerNextIs DEF Library
  <2> HIDE DEF f
  <2>4. Wall(zone, f) \in Int
    BY <2>1, <2>3, WallMovesOn
  <2> QED
    BY <2>1, <2>3, <2>4, CalendarFires
<1>5. CalendarInv => expr.kind \in {"every", "cron"}
  BY DEF CalendarInv, Parses
<1>6. CalendarInv => FireAsPromised
  BY <1>3, <1>4, <1>5
<1> QED
  BY <1>1, <1>2, <1>6, PTL DEF CalendarSpec

=============================================================================
