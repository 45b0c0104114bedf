------------------------------- MODULE MCParts -------------------------------
(***************************************************************************)
(* The parts of the program that never meet in one process's memory, each  *)
(* with its own state machine, checked one beside the other: a behaviour   *)
(* is one of one part, and the other parts stay in an initial state.       *)
(***************************************************************************)
EXTENDS HoldClock, Settings, Learning, Valve, Calendar, SleepLog, SleepRecord, Import,
        AgentHooks, Install

VARIABLE part

MCKinds == Windowed \cup Wrapped

\* The settings that are tried: below, at and above their bounds, durations that have no
\* whole-second form, and bounds that cross each other.
MCEdits ==
    {<< "wake_buffer", 90500 >>, << "wake_buffer", 9000 >>, << "poll_interval", 59970 >>,
     << "min_ceiling", 3600000 >>, << "max_ceiling", 60000 >>, << "max_ceiling", 5430000 >>,
     << "min_import_interval", 90000000 >>, << "history_window", 2 >>,
     << "min_runs_for_estimate", 5 >>, << "low_battery_cutout_pct", 60 >>,
     << "advisory_checks", FALSE >>, << "auto_adopt", {<< >>} >>}
MCFiles == {{}, {<< >>}, {[poll_interval |-> 1240]},
            {[min_runs_for_estimate |-> 0, low_battery_cutout_pct |-> 3]}}

MCLimits == [history_window |-> 2, min_runs_for_estimate |-> 2, default_ceiling |-> 5,
             wake_only_hold |-> 3, min_ceiling |-> 2, max_ceiling |-> 8,
             ceiling_multiplier |-> 120]

MCThresholds == [thermal_cutout_c |-> 80, cutout_rearm_margin_c |-> 5,
                 low_battery_cutout_pct |-> 2, cutout_rearm_margin_pct |-> 2]

\* Intervals with and without an anchor, and calendars of one to three times a day, on every
\* day, on every other one, once a week, and in a range that wraps; zones that fall back and
\* jump forward.
EveryDay == {[lo |-> 0, hi |-> 6, step |-> 1]}
MCExpressions ==
    {[kind |-> "every", gap |-> 4, anchor |-> a] : a \in {0, 3, 9}}
    \cup {[kind |-> "cron", times |-> T, days |-> EveryDay] :
            T \in {{0}, {1}, {2}, {3}, {4}, {5}, {0, 3}, {1, 4}, {2, 5}, {0, 2, 4}}}
    \cup {[kind |-> "cron", times |-> {s}, days |-> {[lo |-> 5, hi |-> 7, step |-> 2]}] :
            s \in {0, 3}}
    \cup {[kind |-> "cron", times |-> {5}, days |-> {[lo |-> 1, hi |-> 1, step |-> 1]}]}
    \cup {[kind |-> "cron", times |-> {1}, days |-> {[lo |-> 5, hi |-> 4, step |-> 2]}]}
MCZones == {<< [at |-> 0, offset |-> 1], [at |-> 8, offset |-> 0] >>,
            << [at |-> 0, offset |-> 0], [at |-> 11, offset |-> 1] >>,
            << [at |-> 0, offset |-> 1], [at |-> 20, offset |-> -1] >>,
            << [at |-> 0, offset |-> 0], [at |-> 22, offset |-> 2] >>}

\* Two crontab lines whose patterns could be confused, a plist and a job of an application.
MCCandidates ==
    << [id |-> "backup", source |-> "crontab", command |-> << "make", "-s", "backup" >>,
        wrappable |-> TRUE],
       [id |-> "sync", source |-> "crontab", command |-> << "make", "sync" >>, wrappable |-> TRUE],
       [id |-> "report", source |-> "launchd", command |-> << "job", "report" >>,
        wrappable |-> TRUE],
       [id |-> "brief", source |-> "app", command |-> << "app", "brief" >>, wrappable |-> FALSE] >>
MCWord == STRING
MCOther == << "make", "all" >>
MCCrontab == << MCOther, << "make", "-s", "backup" >>, << "make", "sync" >> >>
MCForms == {[program |-> "job", args |-> << >>, needsRoot |-> TRUE],
            [program |-> "", args |-> << "goguma-mark", "report", "job", "report" >>,
             needsRoot |-> FALSE],
            [program |-> "", args |-> << "job", "report" >>, needsRoot |-> FALSE],
            [program |-> "job", args |-> << "job", "report" >>, needsRoot |-> FALSE],
            [program |-> "job", args |-> << "nightly", "report" >>, needsRoot |-> TRUE]}

MCUsersFile == [e \in {"prompt", "stop"} |-> IF e = "stop" THEN << "lint" >> ELSE << >>]

-----------------------------------------------------------------------------
(* A part that does not run is parked: its variables have values that make *)
(* its properties hold at once, and cost little.                           *)
ClockParked ==
    /\ kind = "parked" /\ now = 0 /\ loop = "open" /\ stall = 0 /\ hold = NoHold /\ served = 0
    /\ cmd = [alive |-> FALSE] /\ exec = 0 /\ rec = 0 /\ late = NoHold
    /\ records = {} /\ ran = {} /\ closed = {} /\ other = FALSE /\ sleepBack = 0 /\ deaths = 0

SettingsParked ==
    file = {} /\ tmp = {} /\ cfg = 0 /\ setter = 0 /\ edits = 0 /\ overlapped = FALSE

LearningParked == job = 0 /\ runs = << >>

ValveParked ==
    /\ reading = 0 /\ latch = "none" /\ holding = FALSE /\ cut = FALSE
    /\ night = [pc |-> "none"] /\ costs = 0 /\ fired = 0 /\ eased = TRUE

CalendarParked ==
    /\ expr = [kind |-> "every", gap |-> 1, anchor |-> 1] /\ zone = << >> /\ clock = 0 /\ answer = 1

SleepLogParked ==
    /\ second = 0 /\ machine = "parked"
    /\ journal = 0 /\ pmsetLog = 0 /\ down = 0 /\ dangling = 0

SleepRecordParked ==
    /\ wall = 0 /\ due = 0 /\ overdue = 0 /\ lastTick = 0 /\ busy = 0 /\ stalled = 0
    /\ servedUpTo = 0 /\ lines = {} /\ torn = FALSE /\ naps = {} /\ troubles = 0
    /\ overran = TRUE /\ stepped = TRUE /\ lost = TRUE /\ trimmed = TRUE

ImportParked ==
    /\ at = [pc |-> "parked"] /\ registered = {} /\ report = [i \in DOMAIN Candidates |-> "none"]
    /\ crontab = 0 /\ copy = 0 /\ crontabBackup = 0
    /\ plist = 0 /\ loaded = {} /\ plistBackup = 0 /\ toDo = 0 /\ draft = 0
    /\ plain = 0 /\ plainCopy = 0 /\ original = 0 /\ unreported = TRUE /\ userEdits = 0

AgentHooksParked ==
    /\ config = [is |-> "parked"] /\ backup = 0 /\ rewrite = 0 /\ optOut = FALSE /\ binDir = 0
    /\ proc = 0 /\ theirs = 0 /\ promise = "nothing"
    /\ failures = 0 /\ userRaced = TRUE /\ together = TRUE /\ userBroke = TRUE /\ cutShort = TRUE

InstallParked ==
    /\ platform = "parked" /\ binaries = 0 /\ helperBinary = 0 /\ units = 0 /\ partial = {} /\ running = [s \in Services |-> NoVersion]
    /\ script = 0 /\ claim = "nothing" /\ refused = 0 /\ abandoned = TRUE
    /\ scripts = 0 /\ mishaps = 0

MCInit ==
    /\ part \in {"clock", "settings", "learning", "valve", "calendar", "sleepLog",
                 "sleepRecord", "import", "agentHooks", "install"}
    /\ IF part = "clock" THEN Init ELSE ClockParked
    /\ IF part = "settings" THEN SettingsInit ELSE SettingsParked
    /\ IF part = "learning" THEN LearningInit ELSE LearningParked
    /\ IF part = "valve" THEN ValveInit ELSE ValveParked
    /\ IF part = "calendar" THEN CalendarInit ELSE CalendarParked
    /\ IF part = "sleepLog" THEN SleepLogInit ELSE SleepLogParked
    /\ IF part = "sleepRecord" THEN SleepRecordInit ELSE SleepRecordParked
    /\ IF part = "import" THEN ImportInit ELSE ImportParked
    \* The two directories are alike, and the agent has a configuration.
    /\ IF part = "agentHooks" THEN AgentHooksInit /\ binDir = "old" /\ config # Absent
       ELSE AgentHooksParked
    /\ IF part = "install" THEN InstallInit ELSE InstallParked

Only(p) == part = p /\ UNCHANGED part

\* A command or session that begins later does nothing that one of the first unit does not.
Next1 == /\ Only("clock") /\ Next /\ (kind \in Wrapped => cmd'.began <= 1)
         /\ UNCHANGED << settingsVars, learningVars, valveVars, calendarVars, sleepLogVars,
                         sleepRecordVars, importVars, agentHooksVars, installVars >>
Next2 == /\ Only("settings") /\ SettingsNext
         /\ UNCHANGED << vars, learningVars, valveVars, calendarVars, sleepLogVars,
                         sleepRecordVars, importVars, agentHooksVars, installVars >>
Next3 == /\ Only("learning") /\ LearningNext
         /\ UNCHANGED << vars, settingsVars, valveVars, calendarVars, sleepLogVars,
                         sleepRecordVars, importVars, agentHooksVars, installVars >>
Next4 == /\ Only("valve") /\ ValveNext
         /\ UNCHANGED << vars, settingsVars, learningVars, calendarVars, sleepLogVars,
                         sleepRecordVars, importVars, agentHooksVars, installVars >>
Next5 == /\ Only("calendar") /\ ClockTick
         /\ UNCHANGED << vars, settingsVars, learningVars, valveVars, sleepLogVars,
                         sleepRecordVars, importVars, agentHooksVars, installVars >>
Next6 == /\ Only("sleepLog") /\ SleepLogNext
         /\ UNCHANGED << vars, settingsVars, learningVars, valveVars, calendarVars,
                         sleepRecordVars, importVars, agentHooksVars, installVars >>
Next7 == /\ Only("sleepRecord") /\ SleepRecordNext
         /\ UNCHANGED << vars, settingsVars, learningVars, valveVars, calendarVars,
                         sleepLogVars, importVars, agentHooksVars, installVars >>
Next8 == /\ Only("import") /\ ImportNext
         /\ UNCHANGED << vars, settingsVars, learningVars, valveVars, calendarVars,
                         sleepLogVars, sleepRecordVars, agentHooksVars, installVars >>
\* The two at once are followed until both rest, where nothing fails: nothing is claimed of them.
Next9 == /\ Only("agentHooks") /\ AgentHooksNext
         /\ together' => failures' = 0 /\ ~(together /\ \A p \in Procs : Rests(p))
         /\ UNCHANGED << vars, settingsVars, learningVars, valveVars, calendarVars,
                         sleepLogVars, sleepRecordVars, importVars, installVars >>
Next10 == /\ Only("install") /\ InstallNext
          /\ UNCHANGED << vars, settingsVars, learningVars, valveVars, calendarVars,
                          sleepLogVars, sleepRecordVars, importVars, agentHooksVars >>

MCNext == Next1 \/ Next2 \/ Next3 \/ Next4 \/ Next5 \/ Next6 \/ Next7 \/ Next8 \/ Next9 \/ Next10

MCSpec == MCInit /\ [][MCNext]_<< vars, settingsVars, learningVars, valveVars, calendarVars,
                                  sleepLogVars, sleepRecordVars, importVars, agentHooksVars,
                                  installVars, part >>
=============================================================================
