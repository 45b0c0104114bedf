------------------------------ MODULE Install ------------------------------
(***************************************************************************)
(* `goguma install` and `goguma uninstall` (internal/cli/install.go,       *)
(* internal/install): a plan of steps, of which the first that fails ends  *)
(* the installation, and a list of removals, of which each is tried.       *)
(*                                                                         *)
(* Either may be killed and run again, from a release or from where goguma *)
(* was installed; and the machine may be rebooted at any time.             *)
(***************************************************************************)
EXTENDS Integers, FiniteSets, Sequences, SequencesExt

CONSTANTS
    Versions,       \* the releases
    MaxCommands,    \* bounds the commands that the user runs
    MaxMishaps      \* bounds the failed calls, kills and reboots, together

VARIABLES
    platform,       \* "darwin" or "linux"
    binaries,       \* what is in BinDir: [name -> version or NoVersion]
    helperBinary,   \* HelperBinary, the copy that root runs
    units,          \* which of "daemon" and "helper" have their plist or unit file
    partial,        \* the steps whose file was opened and is not written: copyFile's `.new`,
                    \* and the daemon's unit
    running,        \* the services that are loaded: [service -> version or NoVersion]
    script,         \* the command that runs: [does, from, withHelper, left, problems]
    claim,          \* history: what the last command reported, if it holds still
    refused,        \* history: the command that last failed to stop a service, or 0
    abandoned,      \* history: did a copy end before its rename, and leave its `.new`
    scripts, mishaps    \* history

installVars == << platform, binaries, helperBinary, units, partial, running, script, claim,
                  refused, abandoned, scripts, mishaps >>

NoVersion == "none"
Names == {"goguma", "goguma-daemon", "goguma-mark", "goguma-helper"}
Services == {"daemon", "helper"}

NoScript == [does |-> "nothing", from |-> [n \in Names |-> NoVersion], withHelper |-> FALSE,
              left |-> << >>, problems |-> 0]

Mishap == mishaps < MaxMishaps /\ mishaps' = mishaps + 1

-----------------------------------------------------------------------------
\* BuildPlan. The helper is copied twice: to where a later run finds it, and to where root
\* runs it.
BuildPlan(withHelper) ==
    IF withHelper
    THEN << "goguma", "goguma-daemon", "goguma-mark", "goguma-helper", "write daemon unit",
            "load daemon", "install helper", "write helper unit", "load helper" >>
    ELSE << "goguma", "goguma-daemon", "goguma-mark", "write daemon unit", "load daemon" >>

\* Mutant: the copy of the helper that a later run would find is forgotten.
Removals_Forgetful ==
    << "stop daemon", "stop helper", "remove daemon unit", "goguma-daemon", "goguma-mark",
       "goguma", "remove helper unit", "remove helper" >>

\* Uninstall: the order of its removals.
Removals ==
    << "stop daemon", "stop helper", "remove daemon unit", "goguma-daemon", "goguma-mark",
       "goguma-helper", "goguma", "remove helper unit", "remove helper" >>

-----------------------------------------------------------------------------
InstallInit ==
    /\ platform \in {"darwin", "linux"}
    /\ binaries = [n \in Names |-> NoVersion] /\ helperBinary = NoVersion
    /\ units = {} /\ partial = {} /\ running = [s \in Services |-> NoVersion]
    /\ script = NoScript /\ claim = "nothing"
    /\ refused = [s \in Services |-> 0] /\ abandoned = FALSE
    /\ scripts = 0 /\ mishaps = 0

\* findBinary: what is next to the goguma that was called, or for the helper in BinDir.
Trees == {[n \in Names |-> v] : v \in Versions} \cup
         (IF binaries["goguma"] = NoVersion THEN {} ELSE {binaries})

BeginCommand(does, from, withHelper, steps) ==
    /\ script = NoScript /\ scripts < MaxCommands /\ scripts' = scripts + 1
    /\ script' = [does |-> does, from |-> from, withHelper |-> withHelper, left |-> steps,
                   problems |-> 0]
    /\ claim' = "nothing"
    /\ UNCHANGED << platform, binaries, helperBinary, units, partial, running, refused,
                    abandoned, mishaps >>

\* runInstall. A plan for which a binary is missing is not begun.
runInstall ==
    \E from \in Trees, withHelper \in BOOLEAN :
       /\ \A n \in Names : from[n] # NoVersion \/ (n = "goguma-helper" /\ ~withHelper)
       /\ BeginCommand("install", from, withHelper, BuildPlan(withHelper))

\* cmdUninstall, after the pause of the daemon and the removal of the hooks.
Uninstall ==
    \E from \in Trees : BeginCommand("uninstall", from, FALSE, Removals)

Binary(s) == IF s = "daemon" THEN binaries["goguma-daemon"] ELSE helperBinary

Step == IF script.left = << >> THEN "end" ELSE Head(script.left)
Rest == [script EXCEPT !.left = Tail(@)]
Service == IF Step \in {"load daemon", "stop daemon"} THEN "daemon" ELSE "helper"

\* What copyFile opens is the `.new` beside the program; what os.WriteFile opens is the unit
\* itself, which is empty from then on. `sudo install` is taken to be whole, or not done.
Opened == Names \cup {"write daemon unit"}

OpensFile ==
    /\ script.does = "install" /\ Step \in Opened \ partial
    /\ partial' = partial \cup {Step}
    /\ units' = IF Step = "write daemon unit" THEN units \ {"daemon"} ELSE units
    /\ UNCHANGED << platform, binaries, helperBinary, running, script, claim, refused, abandoned,
                    scripts, mishaps >>

\* The rest of copyFile, up to its rename, of os.WriteFile, and all of sudoRun and writeFileSudo.
InstallsFile ==
    /\ script.does = "install" /\ (Step \in Opened => Step \in partial)
    /\ \/ /\ Step \in Names
          /\ binaries' = [binaries EXCEPT ![Step] = script.from[Step]]
          /\ UNCHANGED << helperBinary, units >>
       \/ /\ Step = "install helper"
          /\ helperBinary' = script.from["goguma-helper"]
          /\ UNCHANGED << binaries, units >>
       \/ /\ Step = "write daemon unit" /\ units' = units \cup {"daemon"}
          /\ UNCHANGED << binaries, helperBinary >>
       \/ /\ Step = "write helper unit" /\ units' = units \cup {"helper"}
          /\ UNCHANGED << binaries, helperBinary >>
    /\ partial' = partial \ {Step}
    /\ script' = Rest
    /\ UNCHANGED << platform, running, claim, refused, abandoned, scripts, mishaps >>

\* loadAgent and loadDaemon unload the service first; `systemctl enable --now` leaves one that
\* runs as it is.
LoadsService ==
    /\ script.does = "install" /\ Step \in {"load daemon", "load helper"}
    /\ running' = [running EXCEPT ![Service] =
                      IF platform = "linux" /\ @ # NoVersion THEN @ ELSE Binary(Service)]
    /\ refused' = [refused EXCEPT ![Service] = 0]
    /\ script' = Rest
    /\ UNCHANGED << platform, binaries, helperBinary, units, partial, claim, abandoned, scripts,
                    mishaps >>

\* The command ends where it is, and what it copies then stays beside the program.
EndsEarly ==
    /\ script' = NoScript
    /\ abandoned' = (abandoned \/ (script.does = "install" /\ Step \in Names \cap partial'))

\* A step fails, and with it the installation. A service that was unloaded is not loaded then.
\* A copy that fails removes its `.new`, unless it is the rename that fails, or the removal.
InstallFails ==
    /\ script.does = "install" /\ Step # "end" /\ Mishap
    /\ \/ UNCHANGED << running, partial >>
       \/ /\ platform = "darwin" /\ Step \in {"load daemon", "load helper"}
          /\ running' = [running EXCEPT ![Service] = NoVersion] /\ UNCHANGED partial
       \/ Step \in Names /\ partial' = partial \ {Step} /\ UNCHANGED running
    /\ EndsEarly
    /\ UNCHANGED << platform, binaries, helperBinary, units, claim, refused, scripts >>

\* verifyInstall asks each service.
verifyInstall ==
    /\ script.does = "install" /\ Step = "end"
    /\ claim' = IF running["daemon"] = NoVersion \/ (script.withHelper /\ running["helper"] = NoVersion)
                THEN "nothing"
                ELSE IF script.withHelper THEN "installed" ELSE "installed without helper"
    /\ script' = NoScript
    /\ UNCHANGED << platform, binaries, helperBinary, units, partial, running, refused, abandoned,
                    scripts, mishaps >>

-----------------------------------------------------------------------------
\* The helper is stopped only if it has its unit file. That the daemon is not stopped is not
\* taken for a problem.
StopsService ==
    /\ script.does = "uninstall" /\ Step \in {"stop daemon", "stop helper"}
    /\ \/ /\ Service = "helper" /\ "helper" \notin units
          /\ script' = Rest /\ UNCHANGED << running, refused, mishaps >>
       \/ /\ Service = "daemon" \/ "helper" \in units
          /\ running' = [running EXCEPT ![Service] = NoVersion]
          /\ refused' = [refused EXCEPT ![Service] = 0]
          /\ script' = IF Service = "helper" /\ running["helper"] = NoVersion /\ platform = "darwin"
                        THEN [Rest EXCEPT !.problems = @ + 1] ELSE Rest
          /\ UNCHANGED mishaps
       \/ /\ Service = "daemon" \/ "helper" \in units
          /\ running[Service] # NoVersion /\ Mishap
          /\ refused' = [refused EXCEPT ![Service] = scripts]
          /\ script' = IF Service = "daemon" THEN Rest ELSE [Rest EXCEPT !.problems = @ + 1]
          /\ UNCHANGED running
    /\ UNCHANGED << platform, binaries, helperBinary, units, partial, claim, abandoned, scripts >>

\* os.Remove, and `sudo rm -f` of what is there.
RemovesFile ==
    /\ script.does = "uninstall"
    /\ \/ /\ Step \in Names
          /\ binaries' = [binaries EXCEPT ![Step] = NoVersion]
          /\ UNCHANGED << helperBinary, units >>
       \/ /\ Step = "remove helper" /\ helperBinary' = NoVersion
          /\ UNCHANGED << binaries, units >>
       \/ /\ Step = "remove daemon unit" /\ units' = units \ {"daemon"}
          /\ UNCHANGED << binaries, helperBinary >>
       \/ /\ Step = "remove helper unit" /\ units' = units \ {"helper"}
          /\ UNCHANGED << binaries, helperBinary >>
    /\ partial' = IF Step = "remove daemon unit" THEN partial \ {"write daemon unit"} ELSE partial
    /\ script' = Rest
    /\ UNCHANGED << platform, running, claim, refused, abandoned, scripts, mishaps >>

RemovalFails ==
    /\ script.does = "uninstall" /\ Step # "end" /\ Mishap
    /\ \/ Step \in Names /\ binaries[Step] # NoVersion
       \/ Step = "remove daemon unit" /\ ("daemon" \in units \/ "write daemon unit" \in partial)
       \/ Step = "remove helper unit" /\ "helper" \in units
       \/ Step = "remove helper" /\ helperBinary # NoVersion
    /\ script' = [Rest EXCEPT !.problems = @ + 1]
    /\ UNCHANGED << platform, binaries, helperBinary, units, partial, running, claim, refused,
                    abandoned, scripts >>

\* "uninstalled cleanly", unless there were problems.
UninstallEnds ==
    /\ script.does = "uninstall" /\ Step = "end"
    /\ claim' = IF script.problems = 0 THEN "uninstalled" ELSE "nothing"
    /\ script' = NoScript
    /\ UNCHANGED << platform, binaries, helperBinary, units, partial, running, refused, abandoned,
                    scripts, mishaps >>

-----------------------------------------------------------------------------
\* What launchd or systemd starts of a service.
Started(s) == IF s \in units THEN Binary(s) ELSE NoVersion

CommandKilled ==
    /\ script # NoScript /\ Mishap /\ UNCHANGED partial
    /\ EndsEarly
    /\ UNCHANGED << platform, binaries, helperBinary, units, running, claim, refused, scripts >>

\* A service crashes and is started again, from what is on disk by then.
ServiceRestarts ==
    /\ Mishap
    /\ \E s \in Services : running[s] # NoVersion /\ running' = [running EXCEPT ![s] = Binary(s)]
    /\ UNCHANGED << platform, binaries, helperBinary, units, partial, script, claim, refused,
                    abandoned, scripts >>

Reboots ==
    /\ Mishap /\ UNCHANGED partial
    /\ running' = [s \in Services |-> Started(s)]
    /\ refused' = [s \in Services |-> 0] /\ EndsEarly
    /\ UNCHANGED << platform, binaries, helperBinary, units, claim, scripts >>

InstallNext ==
    \/ runInstall \/ OpensFile \/ InstallsFile \/ LoadsService \/ InstallFails \/ verifyInstall
    \/ Uninstall \/ StopsService \/ RemovesFile \/ RemovalFails \/ UninstallEnds
    \/ CommandKilled \/ ServiceRestarts \/ Reboots

InstallSpec == InstallInit /\ [][InstallNext]_installVars

-----------------------------------------------------------------------------
\* What setup and uninstall report is so, and stays so, over crashes and reboots and whatever
\* failed or was killed before. "Running" means that both services run, and are started again,
\* on macOS from what was just installed, and that no copy is left half done, of this command or
\* an earlier one. "Uninstalled cleanly" means that no file of Uninstall's list is left and no
\* service runs; it leaves out the two things that the code leaves behind without a word: the
\* `.new` of a copy that was killed or could not be renamed, which is in no list, and a service
\* that would not stop. For the helper that was under an earlier command, which reported it but
\* removed its plist all the same, so that this one does not ask; for the daemon it may be under
\* this one. And but for that no service runs a program that was taken away under it.
InstallIsHonest ==
    /\ claim = "installed" =>
          /\ units = Services /\ partial = {}
          /\ \A n \in Names : binaries[n] # NoVersion
          /\ helperBinary = binaries["goguma-helper"]
          /\ \A s \in Services : running[s] # NoVersion
          /\ platform = "darwin" => \A s \in Services : running[s] = Started(s)
    /\ claim = "uninstalled" =>
          /\ units = {} /\ helperBinary = NoVersion
          /\ \A n \in Names : binaries[n] = NoVersion
          /\ partial = {} \/ (abandoned /\ partial \subseteq Names)
          /\ \A s \in Services : running[s] # NoVersion => refused[s] # 0
          /\ running["helper"] # NoVersion => refused["helper"] < scripts
    /\ \A s \in Services : running[s] # NoVersion /\ refused[s] = 0 => Binary(s) # NoVersion
=============================================================================
