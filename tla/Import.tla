------------------------------- MODULE Import -------------------------------
(***************************************************************************)
(* `goguma import --register` (internal/cli/import.go, crontab_apply.go,   *)
(* launchd_apply.go): each job that the scan found is registered as the    *)
(* user chooses, and one that is to be wrapped has its crontab line or its *)
(* launchd plist edited in place, with a copy to go back to.               *)
(*                                                                         *)
(* A command is a sequence of words.  Every call can fail, the user may    *)
(* edit the crontab meanwhile, and the command may be interrupted.         *)
(***************************************************************************)
EXTENDS Integers, FiniteSets, Sequences, SequencesExt

CONSTANTS
    Word,           \* what commands are made of
    Candidates,     \* what the scan found: [id, source, command, wrappable], the command of a
                    \* launchd job being that of its plist
    Crontab,        \* the user's crontab at the scan: the commands of its lines
    OtherLine,      \* the command of a line that the user puts into it
    FlagWords,      \* the words that begin with a dash
    NameWords,      \* the words that isIdentifierArg takes for a name
    PlistForms,     \* the forms of the launchd candidate's plist: [program, args, needsRoot],
                    \* the last being whether only root may write it
    MaxUserEdits    \* bounds the user's edits of the crontab

VARIABLES
    at,             \* [pc, i, line]: where the command is, in which candidate, and the line
                    \* that the scan saw it in
    registered,     \* the jobs: [id, detection, match]
    report,        \* what is reported of each candidate's wrapping
    crontab, copy, crontabBackup,   \* the user's crontab, what was read of it, and the copy
    plist, loaded, plistBackup,     \* the plist, what launchd has loaded of it, and the copy
    toDo, draft,    \* the edits that are left, and the copy that a plist of root's is edited in
    plain, plainCopy,  \* history: the crontab and what was read of it, as they would be with
                       \* every line as the user wrote it
    original,       \* history: the plist before
    unreported,     \* history: a restore of the plist, or the reload after it, failed
    userEdits

importVars == << at, registered, report, crontab, copy, crontabBackup, plist, loaded,
                 plistBackup, toDo, draft, plain, plainCopy, original, unreported, userEdits >>

crontabVars == << crontab, copy, crontabBackup >>
plistVars == << plist, loaded, plistBackup, toDo, draft >>
historyVars == << plain, plainCopy, original, unreported, userEdits >>

None == << >>

-----------------------------------------------------------------------------
(* Commands and patterns. *)

markPath == "goguma-mark"

wrapCommand(c) == << markPath, c.id, "--" >> \o c.command

commandOf(p) == IF p.args # None THEN p.args ELSE << p.program >>

Command(i) ==
    IF Candidates[i].source = "launchd" THEN commandOf(original) ELSE Candidates[i].command

\* SuggestPattern: the program and its last two positional names, if any.
SuggestPattern(command) ==
    LET positional == {i \in 2 .. Len(command) : /\ command[i] \in NameWords
                                                 /\ command[i - 1] \notin FlagWords}
        lastTwo == {i \in positional : Cardinality({j \in positional : j > i}) < 2}
    IN  [i \in 1 .. Cardinality(lastTwo) + 1 |->
            IF i = 1 THEN command[1]
            ELSE command[CHOOSE j \in lastTwo : Cardinality({k \in lastTwo : k < j}) = i - 2]]

\* Matcher.Find: the words of the pattern, in order, and never a process of goguma itself.
Matches(pattern, command) ==
    \E f \in [DOMAIN pattern -> DOMAIN command] :
       /\ \A i \in DOMAIN pattern : command[f[i]] = pattern[i]
       /\ \A i, j \in DOMAIN pattern : i < j => f[i] < f[j]

FindsProcess(pattern, command) == command[1] # markPath /\ Matches(pattern, command)

\* Distinctive, over the commands that siblingCommands and registeredCommands collect.
Distinctive(pattern, commands) == Cardinality({c \in commands : Matches(pattern, c)}) = 1

KnownCommands == {Command(i) : i \in DOMAIN Candidates}

Candidate == Candidates[at.i]

-----------------------------------------------------------------------------
(* The crontab. *)

\* Mutant: whatever is now on that line is replaced.
ReplaceCrontabCommand_Blind(text, line, want, replacement) ==
    IF line \notin DOMAIN text THEN None ELSE [text EXCEPT ![line] = replacement]

\* None for a line that has gone, or that runs another command by now.
ReplaceCrontabCommand(text, line, want, replacement) ==
    IF line \notin DOMAIN text \/ text[line] # want THEN None
    ELSE [text EXCEPT ![line] = replacement]

wrappedIsLive(text, line, wrapped) == line \in DOMAIN text /\ text[line] = wrapped

-----------------------------------------------------------------------------
(* The plist. *)

\* insertWrapper: the edits, in order, each a call of PlistBuddy.
insertWrapper(p, id) ==
    (IF p.args = None
     THEN << [key |-> "args", at |-> 1, word |-> markPath], [key |-> "args", at |-> 2, word |-> id],
             [key |-> "args", at |-> 3, word |-> p.program] >>
     ELSE << [key |-> "args", at |-> 1, word |-> markPath], [key |-> "args", at |-> 2, word |-> id] >>)
    \o (IF p.program = "" THEN << >> ELSE << [key |-> "program", at |-> 0, word |-> markPath] >>)

Edited(p, e) ==
    IF e.key = "program" THEN [p EXCEPT !.program = e.word]
    ELSE [p EXCEPT !.args = InsertAt(p.args, e.at, e.word)]

\* What launchd runs: Program if there is one, with ProgramArguments for its arguments.
Runs(p) ==
    LET prog == IF p.program # "" THEN p.program ELSE p.args[1]
    IN  IF prog = markPath
        THEN [wrapper |-> IF Len(p.args) > 1 THEN p.args[2] ELSE "", command |-> SubSeq(p.args, 3, Len(p.args))]
        ELSE [wrapper |-> "", command |-> << prog >> \o Tail(IF p.args = None THEN << prog >> ELSE p.args)]

\* What a write that truncates the file and then fails leaves of it.
Emptied(p) == [p EXCEPT !.program = "", !.args = None]

\* programArguments and programKey as they are read first, and then read back.
AlreadyWrapped(p) == markPath \in {p.program} \cup {p.args[i] : i \in DOMAIN p.args \cap {1}}

IsWrapped(p, id) ==
    /\ Len(p.args) > 1 /\ p.args[1] = markPath /\ p.args[2] = id
    /\ p.program \in {"", markPath}

-----------------------------------------------------------------------------
Plist == [program : Word, args : Seq(Word), needsRoot : BOOLEAN]
Wrappers == {wrapCommand(Candidates[i]) : i \in DOMAIN Candidates}

\* The jobs have names of their own, or the daemon refuses the second; there is one launchd
\* job among them, and only crontab lines and launchd jobs can be wrapped.
ASSUME CandidatesAssumption ==
    /\ {markPath, "--", ""} \subseteq Word
    /\ Candidates # << >>
    /\ Candidates \in Seq([id : Word, source : {"crontab", "launchd", "app"},
                           command : Seq(Word) \ {None}, wrappable : BOOLEAN])
    /\ \A i, j \in DOMAIN Candidates :
          i # j => /\ Candidates[i].id # Candidates[j].id
                   /\ Candidates[i].source # "launchd" \/ Candidates[j].source # "launchd"
    /\ \A i \in DOMAIN Candidates :
          Candidates[i].wrappable => Candidates[i].source \in {"crontab", "launchd"}

\* No line is yet what the wrapping of a candidate would make of it: the name of a job that
\* is wrapped is the one in its wrapper.
ASSUME CrontabAssumption ==
    /\ Crontab \in Seq(Seq(Word)) /\ OtherLine \in Seq(Word)
    /\ \A n \in DOMAIN Crontab : Crontab[n] \notin Wrappers
    /\ OtherLine \notin Wrappers
    /\ \A i \in DOMAIN Candidates : Candidates[i].command \notin Wrappers

\* A plist names a command; one that is wrapped already is wrapped for this job.
ASSUME PlistFormsAssumption ==
    /\ PlistForms \subseteq Plist
    /\ \A p \in PlistForms :
          /\ p.program # "" \/ p.args # None
          /\ AlreadyWrapped(p) => \A i \in DOMAIN Candidates : Candidates[i].source = "launchd" =>
                                     Runs(p).wrapper = Candidates[i].id

LineOf(c) == IF \E n \in DOMAIN crontab : crontab[n] = c.command
             THEN CHOOSE n \in DOMAIN crontab : crontab[n] = c.command ELSE 0

ImportInit ==
    /\ crontab = Crontab
    /\ copy = None /\ crontabBackup = None
    /\ plist \in PlistForms /\ loaded = {plist} /\ plistBackup = {}
    /\ toDo = << >> /\ draft = None
    /\ registered = {} /\ report = [i \in DOMAIN Candidates |-> "none"]
    /\ at = [pc |-> "choose", i |-> 1, line |-> [i \in DOMAIN Candidates |-> LineOf(Candidates[i])]]
    /\ plain = crontab /\ plainCopy = None /\ original = plist
    /\ unreported = FALSE /\ userEdits = 0

\* The next candidate, with what is reported of this one.
Reported(result) ==
    /\ report' = [report EXCEPT ![at.i] = result]
    /\ at' = IF at.i = Len(Candidates) THEN [at EXCEPT !.pc = "done"]
             ELSE [at EXCEPT !.pc = "choose", !.i = at.i + 1]

Goto(pc) == at' = [at EXCEPT !.pc = pc] /\ UNCHANGED report

\* chooseAction and chooseUnwrappableAction: a pattern that does not tell the job apart is
\* not on offer for a job that could be wrapped.
chooseAction ==
    IF Candidate.wrappable
    THEN {"skip", "mark"} \cup
         (IF Distinctive(SuggestPattern(Command(at.i)), KnownCommands) THEN {"pattern"} ELSE {})
    ELSE {"skip", "none", "pattern"}

\* registerCandidate: the daemon adds the job, or refuses it; a wrapper is then put in place.
RegisterCandidate ==
    /\ at.pc = "choose"
    /\ \E choice \in chooseAction :
         \/ choice = "skip" /\ Reported("skipped") /\ UNCHANGED registered
         \/ choice # "skip" /\ Reported("not registered") /\ UNCHANGED registered
         \/ /\ choice # "skip"
            /\ registered' = registered \cup
                  {[id |-> Candidate.id, detection |-> choice, wrappable |-> Candidate.wrappable,
                    match |-> IF choice = "pattern" THEN SuggestPattern(Command(at.i)) ELSE None]}
            /\ IF choice # "mark" THEN Reported("registered")
               ELSE IF Candidate.source = "crontab" THEN Goto("read") ELSE Goto("check")
    /\ UNCHANGED << crontabVars, plistVars, historyVars >>

ReadCrontab ==
    /\ at.pc = "read"
    /\ \/ /\ ReplaceCrontabCommand(crontab, at.line[at.i], Candidate.command, wrapCommand(Candidate)) # None
          /\ copy' = crontab /\ plainCopy' = plain /\ Goto("backup")
       \/ Reported("untouched") /\ UNCHANGED << copy, plainCopy >>
    /\ UNCHANGED << registered, crontab, crontabBackup, plistVars, plain, original, unreported,
                    userEdits >>

BackUpCrontab ==
    /\ at.pc = "backup"
    /\ \/ crontabBackup' = copy /\ Goto("install")
       \/ Reported("untouched") /\ UNCHANGED crontabBackup
    /\ UNCHANGED << registered, crontab, copy, plistVars, historyVars >>

\* installCrontab. What lands may not be what was sent, and replaces what the user has put
\* into the crontab since it was read.
InstallCrontab ==
    /\ at.pc = "install"
    /\ LET after == ReplaceCrontabCommand(copy, at.line[at.i], Candidate.command,
                                          wrapCommand(Candidate))
       IN  \/ /\ crontab' \in {after, [after EXCEPT ![at.line[at.i]] = << >>]}
              /\ plain' = plainCopy /\ Goto("verify")
           \/ Reported("untouched") /\ UNCHANGED << crontab, plain >>
    /\ UNCHANGED << registered, copy, crontabBackup, plistVars, plainCopy, original, unreported,
                    userEdits >>

VerifyCrontab ==
    /\ at.pc = "verify"
    /\ \/ /\ wrappedIsLive(crontab, at.line[at.i], wrapCommand(Candidate))
          /\ Reported("applied")
       \/ Goto("restore")       \* it is not there, or could not be read
    /\ UNCHANGED << registered, crontabVars, plistVars, historyVars >>

RestoreCrontab ==
    /\ at.pc = "restore"
    /\ \/ crontab' = copy /\ plain' = plainCopy /\ Reported("put back")
       \/ Reported("not restored") /\ UNCHANGED << crontab, plain >>
    /\ UNCHANGED << registered, copy, crontabBackup, plistVars, plainCopy, original, unreported,
                    userEdits >>

-----------------------------------------------------------------------------
\* applyLaunchdWrap: nothing is done to a plist that is wrapped, or that has changed.
CheckPlist ==
    /\ at.pc = "check"
    /\ \/ AlreadyWrapped(plist) /\ Reported("applied")
       \/ ~AlreadyWrapped(plist) /\ commandOf(plist) = Command(at.i) /\ Goto("copy")
       \/ ~AlreadyWrapped(plist) /\ Reported("untouched")
    /\ UNCHANGED << registered, crontabVars, plistVars, historyVars >>

BackUpPlist ==
    /\ at.pc = "copy"
    /\ \/ plistBackup' = {plist} /\ toDo' = insertWrapper(plist, Candidate.id)
          /\ draft' = (IF plist.needsRoot THEN plist ELSE None) /\ Goto("edit")
       \/ Reported("untouched") /\ UNCHANGED << plistBackup, toDo, draft >>
    /\ UNCHANGED << registered, crontabVars, plist, loaded, historyVars >>

\* edit: one's own plist is edited in place, root's in a copy that is then installed.
EditPlist ==
    /\ at.pc = "edit"
    /\ \/ /\ toDo' = Tail(toDo)
          /\ IF plist.needsRoot THEN draft' = Edited(draft, Head(toDo)) /\ UNCHANGED plist
             ELSE plist' = Edited(plist, Head(toDo)) /\ UNCHANGED draft
          /\ Goto(IF Len(toDo) > 1 THEN "edit"
                  ELSE IF plist.needsRoot THEN "install plist" ELSE "lint")
       \/ draft' = None /\ Goto("undo") /\ UNCHANGED << plist, toDo >>
    /\ UNCHANGED << registered, crontabVars, loaded, plistBackup, historyVars >>

InstallPlist ==
    /\ at.pc = "install plist"
    /\ \/ plist' = draft /\ Goto("lint")
       \/ plist' \in {plist, Emptied(plist)} /\ Goto("undo")
    /\ draft' = None
    /\ UNCHANGED << registered, crontabVars, loaded, plistBackup, toDo, historyVars >>

LintPlist ==
    /\ at.pc = "lint"
    /\ Goto("bootout") \/ Goto("undo")
    /\ UNCHANGED << registered, crontabVars, plistVars, historyVars >>

Bootout ==
    /\ at.pc \in {"bootout", "bootout again"}
    /\ loaded' = {}
    /\ Goto(IF at.pc = "bootout" THEN "bootstrap" ELSE "bootstrap again")
    /\ UNCHANGED << registered, crontabVars, plist, plistBackup, toDo, draft, historyVars >>

Bootstrap ==
    /\ at.pc = "bootstrap"
    /\ \/ loaded' = {plist} /\ Goto("read back")
       \/ Goto("undo and reload") /\ UNCHANGED loaded
    /\ UNCHANGED << registered, crontabVars, plist, plistBackup, toDo, draft, historyVars >>

ReadBackPlist ==
    /\ at.pc = "read back"
    /\ \/ IsWrapped(plist, Candidate.id) /\ Reported("applied")
       \/ Goto("undo and reload")
    /\ UNCHANGED << registered, crontabVars, plistVars, historyVars >>

\* restore: a failure, which may have truncated the plist, is not looked at, and what is
\* reported is that the plist was put back.
RestorePlist ==
    /\ at.pc \in {"undo", "undo and reload"}
    /\ \/ plist' \in plistBackup /\ UNCHANGED unreported
       \/ plist' \in {plist, Emptied(plist)} /\ unreported' = TRUE
    /\ IF at.pc = "undo" THEN Reported("put back") ELSE Goto("bootout again")
    /\ toDo' = << >>
    /\ UNCHANGED << registered, crontabVars, loaded, plistBackup, draft, plain, plainCopy, original,
                    userEdits >>

\* The second reload, whose failure is not looked at either; one of an empty plist fails.
BootstrapAgain ==
    /\ at.pc = "bootstrap again"
    /\ \/ plist # Emptied(plist) /\ loaded' = {plist} /\ UNCHANGED unreported
       \/ unreported' = TRUE /\ UNCHANGED loaded
    /\ Reported("put back")
    /\ UNCHANGED << registered, crontabVars, plist, plistBackup, toDo, draft, plain, plainCopy,
                    original, userEdits >>

-----------------------------------------------------------------------------
Without(text, n) == IF n \in DOMAIN text THEN RemoveAt(text, n) ELSE text

\* The user edits the crontab: a new line at the top, another command on a line, one less.
UserEditsCrontab ==
    /\ userEdits < MaxUserEdits /\ userEdits' = userEdits + 1
    /\ \/ crontab' = << OtherLine >> \o crontab /\ plain' = << OtherLine >> \o plain
       \/ \E n \in DOMAIN crontab :
             /\ crontab' = [crontab EXCEPT ![n] = OtherLine]
             /\ plain' = [plain EXCEPT ![n] = OtherLine]
       \/ \E n \in DOMAIN crontab : crontab' = Without(crontab, n) /\ plain' = Without(plain, n)
    /\ UNCHANGED << at, registered, report, copy, crontabBackup, plistVars, plainCopy, original,
                    unreported >>

\* The command is interrupted.
Interrupted ==
    /\ at.pc # "done"
    /\ at' = [at EXCEPT !.pc = "done"]
    /\ report' = [report EXCEPT ![at.i] = IF at.pc = "choose" THEN @ ELSE "interrupted"]
    /\ UNCHANGED << registered, crontabVars, plistVars, historyVars >>

ImportNext ==
    \/ RegisterCandidate
    \/ ReadCrontab \/ BackUpCrontab \/ InstallCrontab \/ VerifyCrontab \/ RestoreCrontab
    \/ CheckPlist \/ BackUpPlist \/ EditPlist \/ InstallPlist \/ LintPlist \/ Bootout \/ Bootstrap
    \/ ReadBackPlist \/ RestorePlist \/ BootstrapAgain
    \/ UserEditsCrontab \/ Interrupted

ImportSpec == ImportInit /\ [][ImportNext]_importVars

-----------------------------------------------------------------------------
BetweenJobs == at.pc \in {"choose", "done"}
Bad == {"not restored", "interrupted"}

\* As long as no crontab was left unrestored or half way, it runs what the user put there,
\* each line as it is or in its wrapper; a job reported as wrapped is, unless the user took
\* its line away, and one reported as put back is not.  (The user's edits between a read of
\* the crontab and the last write after it are overwritten: plain is without them.)
CrontabKept ==
    \A i \in DOMAIN Candidates :
       LET c == Candidates[i] IN
       BetweenJobs /\ (\A j \in DOMAIN Candidates : report[j] \notin Bad) =>
          /\ Len(crontab) = Len(plain)
          /\ \A n \in DOMAIN crontab :
                \/ crontab[n] = plain[n]
                \/ \E j \in DOMAIN Candidates : /\ report[j] = "applied"
                                                /\ plain[n] = Candidates[j].command
                                                /\ crontab[n] = wrapCommand(Candidates[j])
          /\ c.source = "crontab" /\ report[i] \in {"untouched", "put back"} =>
                \A n \in DOMAIN crontab : crontab[n] # wrapCommand(c)

\* launchd has loaded the plist as it was, or one that runs all of the command it names in
\* the wrapper, and never half an edit; while the plist differs from what it was, there is a
\* copy to go back to; one reported as wrapped is loaded so, and one reported as untouched or
\* put back is as it was and loaded, unless a restore or a reload failed that nobody reports.
PlistKept ==
    \A i \in DOMAIN Candidates : Candidates[i].source = "launchd" =>
       /\ \A p \in loaded :
             p = original \/ Runs(p) = [wrapper |-> Candidates[i].id, command |-> commandOf(original)]
       /\ plist # original => plistBackup = {original}
       /\ report[i] = "applied" => loaded = {plist} /\ Runs(plist).wrapper = Candidates[i].id
       /\ report[i] = "untouched" \/ (report[i] = "put back" /\ ~unreported) =>
             plist = original /\ loaded = {original}

\* A job that could have been wrapped, is not, and is watched for by a pattern, is told apart
\* from every other job the scan found, by its process and not by its wrapper.
PatternTellsApart ==
    \A j \in registered : j.detection = "pattern" /\ j.wrappable /\ Head(j.match) # markPath =>
       Cardinality({c \in KnownCommands : FindsProcess(j.match, c)}) = 1

\* What `import --register` says it changed, it changed whole, and what it says it did not
\* change or put back is as it was, but for the two cases the parts name: an edit of the user's
\* while a crontab is rewritten, and a plist whose restore or reload failed unreported.  A
\* pattern that it offers for a job it could wrap tells that job apart.
ImportKeepsJobs == CrontabKept /\ PlistKept /\ PatternTellsApart
=============================================================================
