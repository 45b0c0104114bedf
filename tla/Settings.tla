----------------------------- MODULE Settings ------------------------------
(***************************************************************************)
(* The settings (internal/config/config.go, internal/daemon/setconfig.go,  *)
(* internal/model/duration.go): the ranges Normalize repairs them into,    *)
(* `config set` from several connections at once, and config.json, where a *)
(* duration is written the way it is displayed.                            *)
(*                                                                         *)
(* Durations are in milliseconds, the multiplier in hundredths.            *)
(***************************************************************************)
EXTENDS Integers, FiniteSets

CONSTANTS
    Setters,    \* the connections that may set at the same time
    Edits,      \* the <<key, value>> pairs they ask for
    Files,      \* what config.json may hold at first: {} for no file, or {settings},
                \* where a key may be missing
    MaxEdits    \* bounds how many settings are asked for

\* clampDur: a duration of zero is an absent one, any other is clamped.
Clamped ==
    [wake_buffer            |-> [lo |-> 10000, hi |-> 1800000,  def |-> 90000],
     default_ceiling        |-> [lo |-> 10000, hi |-> 43200000, def |-> 300000],
     wake_only_hold         |-> [lo |-> 10000, hi |-> 3600000,  def |-> 180000],
     min_ceiling            |-> [lo |-> 1000,  hi |-> 3600000,  def |-> 30000],
     max_ceiling            |-> [lo |-> 60000, hi |-> 86400000, def |-> 7200000],
     tick_interval          |-> [lo |-> 1000,  hi |-> 300000,   def |-> 10000],
     poll_interval          |-> [lo |-> 250,   hi |-> 60000,    def |-> 2000],
     wake_reassert_interval |-> [lo |-> 10000, hi |-> 600000,   def |-> 60000],
     auto_adopt_interval    |-> [lo |-> 30000, hi |-> 3600000,  def |-> 120000]]

\* The settings that go back to their default when they are out of range.
AnyAbove == 2000000000
Reset ==
    [ceiling_multiplier      |-> [lo |-> 100,   hi |-> 1000,     def |-> 120],
     history_window          |-> [lo |-> 2,     hi |-> 1000,     def |-> 20],
     thermal_cutout_c        |-> [lo |-> 70,    hi |-> 95,       def |-> 80],
     low_battery_cutout_pct  |-> [lo |-> 5,     hi |-> 50,       def |-> 10],
     cutout_rearm_margin_c   |-> [lo |-> 1,     hi |-> AnyAbove, def |-> 5],
     cutout_rearm_margin_pct |-> [lo |-> 1,     hi |-> 50,       def |-> 5],
     event_log_max_bytes     |-> [lo |-> 65536, hi |-> AnyAbove, def |-> 10485760]]

\* The settings Normalize leaves alone: the switches, and the watched sources, where
\* {} is nil, never set, and {s} is the list s.
Free ==
    [use_wake_or_power_on |-> FALSE, notify_on_missed_job |-> TRUE, advisory_checks |-> TRUE,
     agent_hooks |-> TRUE, sleep_after_wake |-> TRUE, keep_display_awake |-> FALSE,
     auto_adopt |-> {}, webhook_url |-> ""]

DayMillis == 86400000
DurationKeys == DOMAIN Clamped \cup {"min_import_interval"}
Keys == DurationKeys \cup DOMAIN Reset \cup DOMAIN Free \cup {"min_runs_for_estimate"}

\* What is asked for, and what a file holds, has been parsed by the setting's type.
ASSUME EditsAssumption ==
    \A e \in Edits : e[1] \in Keys /\ (e[1] \notin DOMAIN Free => e[2] \in Int)
ASSUME FilesAssumption ==
    \A f \in Files : \A s, t \in f :
        s = t /\ \A k \in DOMAIN s \cap (Keys \ DOMAIN Free) : s[k] \in Int

Default ==
    [k \in Keys |-> CASE k \in DOMAIN Clamped -> Clamped[k].def
                      [] k \in DOMAIN Reset -> Reset[k].def
                      [] k \in DOMAIN Free -> Free[k]
                      [] k = "min_import_interval" -> 0
                      [] k = "min_runs_for_estimate" -> 3]

Within(v, lo, hi) == IF v < lo THEN lo ELSE IF v > hi THEN hi ELSE v

clampDur(v, r) == IF v = 0 THEN r.def ELSE Within(v, r.lo, r.hi)

Repaired(v, r) == IF v < r.lo \/ v > r.hi THEN r.def ELSE v

Normalize(c) ==
    LET window == Repaired(c.history_window, Reset.history_window)
        floor == clampDur(c.min_ceiling, Clamped.min_ceiling)
        cap == clampDur(c.max_ceiling, Clamped.max_ceiling)
    IN  [k \in Keys |->
            CASE k = "min_ceiling" -> IF floor > cap THEN cap ELSE floor
              [] k = "max_ceiling" -> IF floor > cap THEN floor ELSE cap
              [] k \in DOMAIN Clamped \ {"min_ceiling", "max_ceiling"} ->
                    clampDur(c[k], Clamped[k])
              [] k \in DOMAIN Reset -> Repaired(c[k], Reset[k])
              [] k = "min_import_interval" -> Within(c[k], 0, DayMillis)
              [] k = "min_runs_for_estimate" ->
                    Repaired(c[k], [lo |-> 1, hi |-> window, def |-> Default[k]])
              [] OTHER -> c[k]]

\* HumanDuration, the text of a duration, read back by ParseDuration: only two units are
\* written. (A tie of the one decimal a text under a minute has is not modelled.)
HumanDuration(d) ==
    CASE d < 1000 -> d
      [] d >= 1000 /\ d < 60000 ->
            IF d % 1000 = 0 THEN d ELSE ((d + 50) \div 100) * 100
      [] d >= 60000 /\ d < 3600000 -> (d \div 1000) * 1000
      [] d >= 3600000 /\ d < DayMillis -> (d \div 60000) * 60000
      [] OTHER -> (d \div 3600000) * 3600000

MarshalJSON(c) == [k \in Keys |-> IF k \in DurationKeys THEN HumanDuration(c[k]) ELSE c[k]]

-----------------------------------------------------------------------------
VARIABLES
    file,           \* config.json: {} or {settings}
    tmp,            \* config.json.tmp, likewise
    cfg,            \* Daemon.cfg
    setter,         \* each connection's handler: idle, or where it is in setConfig
    edits,          \* how many settings were asked for
    overlapped      \* history: were two handlers ever in setConfig at the same time

settingsVars == << file, tmp, cfg, setter, edits, overlapped >>

Idle == [pc |-> "idle", next |-> Default]

\* An install that has a file, but one older than the advisory checks, gets none.
Load(f) ==
    IF f = {} THEN Default
    ELSE LET c == CHOOSE s \in f : TRUE IN
         Normalize([k \in Keys |-> IF k \in DOMAIN c THEN c[k]
                                   ELSE IF k = "advisory_checks" THEN FALSE ELSE Default[k]])

SettingsInit ==
    /\ file \in Files /\ tmp = {}
    /\ cfg = Load(file)
    /\ setter = [s \in Setters |-> Idle]
    /\ edits = 0 /\ overlapped = FALSE

\* setConfig copies the settings under the lock, sets one of them and repairs the copy.
\* (A value that does not parse is an error that changes nothing.)
setConfig(s) ==
    /\ setter[s].pc = "idle" /\ edits < MaxEdits
    /\ \E e \in Edits :
         setter' = [setter EXCEPT ![s] =
            [pc |-> "write", next |-> Normalize([cfg EXCEPT ![e[1]] = e[2]])]]
    /\ edits' = edits + 1
    /\ overlapped' = (overlapped \/ \E t \in Setters \ {s} : setter[t].pc # "idle")
    /\ UNCHANGED << file, tmp, cfg >>

\* Save writes a file beside config.json, whose name every handler uses ...
SaveWrite(s) ==
    /\ setter[s].pc = "write"
    /\ tmp' = {MarshalJSON(setter[s].next)}
    /\ setter' = [setter EXCEPT ![s].pc = "rename"]
    /\ UNCHANGED << file, cfg, edits, overlapped >>

\* ... and renames it. Another handler may have renamed it away: an error, ...
SaveRename(s) ==
    /\ setter[s].pc = "rename"
    /\ \/ /\ tmp # {} /\ file' = tmp /\ tmp' = {}
          /\ setter' = [setter EXCEPT ![s].pc = "store"]
       \/ /\ tmp = {} /\ UNCHANGED << file, tmp >>
          /\ setter' = [setter EXCEPT ![s] = Idle]
    /\ UNCHANGED << cfg, edits, overlapped >>

\* ... as is a full disk; the setting is then not taken.
SaveFails(s) ==
    /\ setter[s].pc \in {"write", "rename"}
    /\ setter' = [setter EXCEPT ![s] = Idle]
    /\ UNCHANGED << file, tmp, cfg, edits, overlapped >>

\* Mutant: the settings are stored as they were asked for.
StoreConfig_Unsaved(s) ==
    /\ setter[s].pc \in {"write", "store"}
    /\ cfg' = setter[s].next
    /\ setter' = [setter EXCEPT ![s] = Idle]
    /\ UNCHANGED << file, tmp, edits, overlapped >>

\* The copy becomes the daemon's settings, over whatever they are by then.
StoreConfig(s) ==
    /\ setter[s].pc = "store"
    /\ cfg' = setter[s].next
    /\ setter' = [setter EXCEPT ![s] = Idle]
    /\ UNCHANGED << file, tmp, edits, overlapped >>

\* The daemon stops, in or out of a handler, and starts: reload.
Restart ==
    /\ cfg' = Load(file)
    /\ setter' = [s \in Setters |-> Idle]
    /\ overlapped' = FALSE
    /\ UNCHANGED << file, tmp, edits >>

SettingsNext ==
    \/ \E s \in Setters :
          setConfig(s) \/ SaveWrite(s) \/ SaveRename(s) \/ SaveFails(s) \/ StoreConfig(s)
    \/ Restart

SettingsSpec == SettingsInit /\ [][SettingsNext]_settingsVars

-----------------------------------------------------------------------------
\* Settings that were set one at a time survive a restart: config.json, if there is one,
\* says what the daemon runs with, to the two units a duration is displayed with, and neither
\* the text nor Normalize moves a value any further, so nothing is repaired, or reported as
\* repaired, that setConfig accepted. Two handlers at once lose this: each stores the copy it
\* made before the other's change, and the file and the daemon may keep different ones.
SettingsSurviveRestart ==
    file # {} =>
        LET onDisk == MarshalJSON(Load(file))
        IN  /\ ~overlapped /\ (\A s \in Setters : setter[s].pc = "idle")
                  => onDisk = MarshalJSON(cfg)
            /\ Normalize(cfg) = cfg
            /\ Normalize(onDisk) = onDisk /\ MarshalJSON(onDisk) = onDisk
=============================================================================
