----------------------------- MODULE AgentHooks -----------------------------
(***************************************************************************)
(* The hooks that goguma puts into a coding agent's own configuration      *)
(* (internal/agenthooks, internal/daemon/agenthooks.go,                    *)
(* internal/cli/hookscmd.go): `goguma hooks install` and `hooks remove`    *)
(* edit the file, and so does the daemon at every start, unless the user   *)
(* has had them removed.                                                   *)
(*                                                                         *)
(* One agent's file.  The command and the daemon share no lock; each call  *)
(* can fail, each of the two can die between two calls, and the user edits *)
(* the file as well.  os.WriteFile empties a file when it opens it and     *)
(* writes it after that, wherever a rename has put it in the meantime.     *)
(***************************************************************************)
EXTENDS Integers, FiniteSets, Sequences

CONSTANTS
    RenewOn, StopOn,    \* the agent's events, by what they tell of its work
    Dirs,               \* where goguma may be installed
    UserHooks,          \* the commands of the user's own hooks
    UsersFile,          \* the user's hooks to begin with: [event -> sequence of UserHooks]
    MaxFailures         \* bounds edits, moves, failed calls and crashes, together

VARIABLES
    config,     \* the configuration: [is, hooks], where is is "absent", "empty", "json" or "broken"
    backup,     \* the copy of it that is kept
    rewrite,    \* the new version, before it takes the file's place
    optOut,     \* HooksOptOut: is the removal on record
    binDir,     \* where goguma is
    proc,       \* the command and the daemon: [pc, doc, copy, remove, done, dir, to]: what each
                \* is to write, the old version it keeps or Absent, whether it is done, and
                \* where the file it has open is: "tmp", "file" (config) or "gone"
    theirs,     \* history: the user's hooks, as the user left them
    promise,    \* history: what the user may rely on, "installed", "removed" or "nothing"
    failures, userRaced, together, userBroke,   \* history
    cutShort    \* history: a restore stopped halfway

agentHooksVars == << config, backup, rewrite, optOut, binDir, proc, theirs, promise, failures, userRaced,
                     together, userBroke, cutShort >>
hookHistory == << theirs, promise, failures, userRaced, together, userBroke, cutShort >>

Procs == {"command", "daemon"}
Events == RenewOn \cup StopOn
NoHooks == [e \in Events |-> << >>]
Absent == [is |-> "absent", hooks |-> NoHooks]
Empty == [is |-> "empty", hooks |-> NoHooks]
Torn == [is |-> "broken", hooks |-> NoHooks]
Json(hooks) == [is |-> "json", hooks |-> hooks]

Rests(p) == proc[p].pc = "idle"
At(p, pc) == proc[p].pc = pc
\* What a process knows, it knows until it rests.
Resting == [pc |-> "idle"]
NowAt(known, pc) == IF pc = "idle" THEN Resting ELSE [known EXCEPT !.pc = pc]
GoesTo(p, pc) == proc' = [proc EXCEPT ![p] = NowAt(@, pc)]

Failure == failures < MaxFailures /\ failures' = failures + 1
FailsTo(p, pc) ==
    Failure /\ GoesTo(p, pc) /\ UNCHANGED << theirs, promise, userRaced, together, userBroke, cutShort >>

\* What a file may hold once text is written from its start: longer text may be left at its end.
Written(old, text) == IF old.is \in {"absent", "empty"} \/ old = text THEN {text} ELSE {text, Torn}

\* A write through the file that a process has open.
Writes(p, text) ==
    /\ config' \in IF proc[p].to = "file" THEN Written(config, text) ELSE {config}
    /\ rewrite' \in IF proc[p].to = "tmp" THEN Written(rewrite, text) ELSE {rewrite}

\* An open file goes where a rename, or a removal, of the new version puts it.
Moved(k, to) ==
    IF k.pc \notin {"fill", "put back"} THEN k
    ELSE [k EXCEPT !.to = IF @ = "tmp" THEN to ELSE IF to = "file" THEN "gone" ELSE @]

-----------------------------------------------------------------------------
(* internal/agenthooks. *)

\* A block of hooks: a command, and another that the user may have put beside it.
Block(who, does) == [by |-> who, does |-> does, beside |-> "nothing"]

\* Commands: the path of goguma is in them.
Commands(dir, e) == Block(dir, IF e \in RenewOn THEN "renew" ELSE "stop")

\* A block with a command of goguma's is goguma's, whatever else is in it.
blockIsGoguma(b) == b.by \in Dirs

\* The places of goguma's blocks in a list; what is at the places I of a list, in its order.
OursIn(s) == {i \in DOMAIN s : blockIsGoguma(s[i])}
Picked(s, I) == [n \in 1 .. Cardinality(I) |->
                    s[CHOOSE i \in I : Cardinality({j \in I : j < i}) = n - 1]]
Ours(s) == Picked(s, OursIn(s))
Theirs(s) == Picked(s, DOMAIN s \ OursIn(s))

\* Inspect: how many of the commands are goguma's, and how many of those are the wanted ones.
Found(doc) == UNION {{e} \X OursIn(doc[e]) : e \in Events}
Matching(doc, dir) ==
    {x \in Found(doc) : [doc[x[1]][x[2]] EXCEPT !.beside = "nothing"] \in {Commands(dir, e) : e \in Events}}
Stale(doc, dir) == Cardinality(Matching(doc, dir)) < Cardinality(Events)
InstalledAndCurrent(doc, dir) == Found(doc) # {} /\ ~Stale(doc, dir)

\* Mutant: what is there already is not taken out first.
Apply_Appending(doc, dir, remove) ==
    [e \in Events |-> IF remove THEN Theirs(doc[e]) ELSE Append(doc[e], Commands(dir, e))]

\* Apply: goguma's blocks are dropped whole, and put at the end afresh.
Apply(doc, dir, remove) ==
    [e \in Events |-> IF remove THEN Theirs(doc[e]) ELSE Append(Theirs(doc[e]), Commands(dir, e))]

-----------------------------------------------------------------------------
\* The user's hooks are not goguma's.
ASSUME HooksAssumption ==
    /\ "user" \notin Dirs
    /\ UserHooks \subseteq STRING /\ UsersFile \in [Events -> Seq(STRING)]

\* The user's hooks that are in blocks of their own.
UsersOwn(hooks) == [e \in Events |-> Theirs(hooks[e])]

AgentHooksInit ==
    /\ config \in {Absent, Json([e \in Events |-> [i \in DOMAIN UsersFile[e] |-> Block("user", UsersFile[e][i])]])}
    /\ backup = Absent /\ rewrite = Absent /\ optOut = FALSE
    /\ binDir \in Dirs
    /\ proc = [p \in Procs |-> Resting]
    /\ theirs = UsersOwn(config.hooks) /\ promise = "nothing"
    /\ failures = 0 /\ userRaced = FALSE /\ together = FALSE /\ userBroke = FALSE /\ cutShort = FALSE

Begin(p, pc, remove) ==
    /\ Rests(p)
    /\ proc' = [proc EXCEPT ![p] = [pc |-> pc, doc |-> NoHooks, copy |-> Absent, remove |-> remove,
                                    done |-> FALSE, dir |-> binDir, to |-> "tmp"]]
    /\ together' = (together \/ \E q \in Procs \ {p} : ~Rests(q))

\* `goguma hooks install` or `hooks remove`.
hooksApply(remove) ==
    /\ Begin("command", "read", remove)
    /\ promise' = IF promise = (IF remove THEN "removed" ELSE "installed") THEN promise ELSE "nothing"
    /\ UNCHANGED << config, backup, rewrite, optOut, binDir, theirs, failures, userRaced, userBroke, cutShort >>

\* The daemon starts. reconcileAgentHooks does nothing after a removal.
reconcileAgentHooks ==
    /\ ~optOut
    /\ Begin("daemon", "inspect", FALSE)
    /\ UNCHANGED << config, backup, rewrite, optOut, binDir, theirs, promise, failures, userRaced, userBroke,
                    cutShort >>

\* Inspect: a file that cannot be parsed is left alone, and so is one that needs nothing.
Inspect ==
    /\ At("daemon", "inspect")
    /\ GoesTo("daemon", IF \/ config.is = "broken"
                         \/ InstalledAndCurrent(config.hooks, proc["daemon"].dir)
                      THEN "idle" ELSE "read")
    /\ UNCHANGED << config, backup, rewrite, optOut, binDir, hookHistory >>

\* Where a process goes on after its edit, or without one.
After(p) == IF p = "command" THEN "opt out" ELSE "idle"

\* ReadConfig, and Apply to what was read.
ReadConfig(p) ==
    /\ At(p, "read")
    /\ IF config.is = "broken"
       THEN GoesTo(p, After(p))
       ELSE proc' = [proc EXCEPT ![p].pc = "back up",
                                 ![p].doc = Apply(config.hooks, proc[p].dir, proc[p].remove)]
    /\ UNCHANGED << config, backup, rewrite, optOut, binDir, hookHistory >>

\* WriteConfig, call by call.  A file that is not there, or cannot be read now, is not copied.
BackUp(p) ==
    /\ At(p, "back up")
    /\ \/ config.is = "absent" /\ GoesTo(p, "write") /\ UNCHANGED << backup, hookHistory >>
       \/ FailsTo(p, "write") /\ UNCHANGED backup
       \/ /\ config.is # "absent"
          /\ proc' = [proc EXCEPT ![p].pc = "copy", ![p].copy = config]
          /\ backup' = Empty /\ UNCHANGED hookHistory
       \/ FailsTo(p, After(p)) /\ UNCHANGED backup
    /\ UNCHANGED << config, rewrite, optOut, binDir >>

FillBackup(p) ==
    /\ At(p, "copy")
    /\ \/ GoesTo(p, "write") /\ backup' \in Written(backup, proc[p].copy) /\ UNCHANGED hookHistory
       \/ FailsTo(p, After(p)) /\ backup' \in {backup, Torn}
    /\ UNCHANGED << config, rewrite, optOut, binDir >>

\* The new version has one name for both processes, and is emptied for the other as well.
OpenTmp(p) ==
    /\ At(p, "write")
    /\ \/ /\ proc' = [proc EXCEPT ![p].pc = "fill", ![p].to = "tmp"]
          /\ rewrite' = Empty /\ UNCHANGED hookHistory
       \/ FailsTo(p, After(p)) /\ UNCHANGED rewrite
    /\ UNCHANGED << config, backup, optOut, binDir >>

FillTmp(p) ==
    /\ At(p, "fill")
    /\ \/ GoesTo(p, "rename") /\ Writes(p, Json(proc[p].doc)) /\ UNCHANGED hookHistory
       \/ FailsTo(p, After(p)) /\ (Writes(p, Torn) \/ UNCHANGED << config, rewrite >>)
    /\ UNCHANGED << backup, optOut, binDir >>

\* It may be the other's version by now, or have been renamed away.
Rename(p) ==
    /\ At(p, "rename")
    /\ \/ /\ rewrite # Absent
          /\ config' = rewrite /\ rewrite' = Absent /\ UNCHANGED hookHistory
          /\ proc' = [q \in Procs |-> IF q = p THEN NowAt(proc[q], "verify") ELSE Moved(proc[q], "file")]
       \/ /\ rewrite = Absent
          /\ GoesTo(p, After(p)) /\ UNCHANGED << config, rewrite, hookHistory >>
       \/ /\ rewrite # Absent
          /\ Failure /\ rewrite' = Absent
          /\ proc' = [q \in Procs |-> IF q = p THEN NowAt(proc[q], After(q)) ELSE Moved(proc[q], "gone")]
          /\ UNCHANGED << config, theirs, promise, userRaced, together, userBroke, cutShort >>
    /\ UNCHANGED << backup, optOut, binDir >>

\* Verified: an install can now be relied on, and a removal once it is on record.
Verified(p) ==
    /\ At(p, "verify") /\ config.is # "broken"
    /\ proc' = [proc EXCEPT ![p] = NowAt([@ EXCEPT !.done = TRUE], After(p))]
    /\ promise' = IF ~proc[p].remove /\ proc[p].dir = binDir THEN "installed" ELSE promise
    /\ UNCHANGED << config, backup, rewrite, optOut, binDir, theirs, failures, userRaced, together, userBroke,
                    cutShort >>

\* The new version is broken, or cannot be read now: the copy, if there is one that can be
\* read, is written over the file, which is emptied first.
Unverified(p) ==
    /\ At(p, "verify")
    /\ IF config.is = "broken" THEN UNCHANGED failures ELSE Failure
    /\ \/ /\ proc[p].copy # Absent
          /\ proc' = [proc EXCEPT ![p].pc = "put back", ![p].copy = backup, ![p].to = "file"]
          /\ config' = Empty
       \/ /\ proc[p].copy # Absent => failures' > failures
          /\ GoesTo(p, After(p)) /\ UNCHANGED config
    /\ promise' = "nothing"
    /\ UNCHANGED << backup, rewrite, optOut, binDir, theirs, userRaced, together, userBroke, cutShort >>

\* What the copy held, to the file that was opened for it.  An error is not looked at.
PutBack(p) ==
    /\ At(p, "put back")
    /\ GoesTo(p, After(p))
    /\ \/ Writes(p, proc[p].copy) /\ UNCHANGED << failures, cutShort >>
       \/ Failure /\ (Writes(p, Torn) \/ UNCHANGED << config, rewrite >>) /\ cutShort' = TRUE
    /\ UNCHANGED << backup, optOut, binDir, theirs, promise, userRaced, together, userBroke >>

\* The removal is put on record, or off it, whether or not the file was edited.
OptOut ==
    /\ At("command", "opt out")
    /\ \/ /\ optOut' = proc["command"].remove /\ GoesTo("command", "idle")
          /\ promise' = IF proc["command"].remove /\ proc["command"].done THEN "removed" ELSE promise
          /\ UNCHANGED << theirs, failures, userRaced, together, userBroke, cutShort >>
       \/ FailsTo("command", "idle") /\ UNCHANGED optOut
    /\ UNCHANGED << config, backup, rewrite, binDir >>

-----------------------------------------------------------------------------
\* From what a process has read of the file to what it makes of it.
Editing == {"back up", "copy", "write", "fill", "rename", "verify", "put back"}

\* The user, or the agent for the user, writes the file: another hook, in a block of its own or
\* in one of goguma's, one less, goguma's taken out, something that is not JSON, or the repair
\* of that.
UserEdits ==
    /\ Failure
    /\ \/ /\ config.is # "broken"
          /\ \E e \in Events, h \in UserHooks :
                config' = Json([config.hooks EXCEPT ![e] = << Block("user", h) >> \o @])
          /\ UNCHANGED << promise, userBroke >>
       \/ /\ config.is # "broken"
          /\ \E e \in Events, h \in UserHooks : \E i \in OursIn(config.hooks[e]) :
                config' = Json([config.hooks EXCEPT ![e][i].beside = h])
          /\ UNCHANGED << promise, userBroke >>
       \/ /\ config.is # "broken"
          /\ \E e \in Events : /\ config.hooks[e] # << >>
                               /\ config' = Json([config.hooks EXCEPT ![e] = Tail(@)])
          /\ promise' = IF promise = "installed" THEN "nothing" ELSE promise
          /\ UNCHANGED userBroke
       \/ config.is = "json" /\ config' = [config EXCEPT !.is = "broken"] /\ userBroke' = TRUE /\ UNCHANGED promise
       \/ config.is = "broken" /\ config' = [config EXCEPT !.is = "json"] /\ userBroke' = FALSE /\ UNCHANGED promise
    /\ theirs' = UsersOwn(config'.hooks)
    /\ userRaced' = (userRaced \/ \E p \in Procs : proc[p].pc \in Editing)
    /\ UNCHANGED << backup, rewrite, optOut, binDir, proc, together, cutShort >>

\* goguma is installed somewhere else.
Moves ==
    /\ Failure
    /\ binDir' \in Dirs \ {binDir}
    /\ promise' = IF promise = "installed" THEN "nothing" ELSE promise
    /\ UNCHANGED << config, backup, rewrite, optOut, proc, theirs, userRaced, together, userBroke, cutShort >>

Dies(p) ==
    /\ ~Rests(p)
    /\ Failure /\ GoesTo(p, "idle")
    /\ cutShort' = (cutShort \/ At(p, "put back"))
    /\ UNCHANGED << config, backup, rewrite, optOut, binDir, theirs, promise, userRaced, together, userBroke >>

AgentHooksNext ==
    \/ \E remove \in BOOLEAN : hooksApply(remove)
    \/ reconcileAgentHooks \/ Inspect
    \/ \E p \in Procs : \/ ReadConfig(p) \/ BackUp(p) \/ FillBackup(p) \/ OpenTmp(p) \/ FillTmp(p)
                         \/ Rename(p) \/ Verified(p) \/ Unverified(p) \/ PutBack(p) \/ Dies(p)
    \/ OptOut
    \/ UserEdits \/ Moves

AgentHooksSpec == AgentHooksInit /\ [][AgentHooksNext]_agentHooksVars

-----------------------------------------------------------------------------
\* As long as the command and the daemon do not edit the file at once, and the user does not
\* write it in the middle of an edit: whatever fails or dies, it stays a file that the agent can
\* read, and the user's hooks that are in blocks without a command of goguma's stay in it, in
\* their order; only the restore of a version that could not be verified, which empties the file
\* first, can be cut short and lose them.  Hooks that were installed are there once, for the
\* goguma there is, and hooks that were removed stay away, over every start of the daemon.
HooksKeepUsersFile ==
    ~userRaced /\ ~together =>
       /\ ~cutShort /\ (\A p \in Procs : ~At(p, "put back")) =>
             /\ UsersOwn(config.hooks) = theirs
             /\ config.is = "broken" => userBroke
       /\ promise = "installed" /\ config.is = "json" =>
             \A e \in Events : \E h \in UserHooks \cup {"nothing"} :
                Ours(config.hooks[e]) = << [Commands(binDir, e) EXCEPT !.beside = h] >>
       /\ promise = "removed" => Found(config.hooks) = {}
=============================================================================
