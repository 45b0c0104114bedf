--------------------------- MODULE SettingsProofs ---------------------------
(***************************************************************************)
(* Theorems about Settings, for any connections, edits and file: nothing   *)
(* out of its range is run with or written, and settings made one at a     *)
(* time survive a restart.  And about Valve, which works with some of      *)
(* them, for any thresholds of their types, readings and costs: a latch    *)
(* does not give way too soon, and a wake is worth its charge.  And about  *)
(* Learning, for any history: what is learned covers the runs it was       *)
(* learned from, and a run that was cut short teaches nothing.  And about  *)
(* AgentHooks, whose removals are one of the settings: the user's hooks    *)
(* stay in the agent's file, and goguma's are there once or gone.          *)
(***************************************************************************)
EXTENDS Settings, Valve, Learning, AgentHooks, SequenceTheorems, FiniteSetTheorems, WellFoundedInduction, TLAPS

\* Settings of the right types, ...
IsConfig(c) ==
    c = [k \in Keys |-> c[k]] /\ \A k \in Keys \ DOMAIN Free : c[k] \in Int

\* ... in the ranges that Normalize leaves as they are. (The default of the least number of
\* runs may be above the window.)
InRange(c) ==
    /\ \A k \in DOMAIN Clamped : Clamped[k].lo <= c[k] /\ c[k] <= Clamped[k].hi
    /\ \A k \in DOMAIN Reset : Reset[k].lo <= c[k] /\ c[k] <= Reset[k].hi
    /\ c["min_ceiling"] <= c["max_ceiling"]
    /\ 0 <= c["min_import_interval"] /\ c["min_import_interval"] <= DayMillis
    /\ \/ 1 <= c["min_runs_for_estimate"] /\ c["min_runs_for_estimate"] <= c["history_window"]
       \/ c["min_runs_for_estimate"] = 3

Settled(c) == IsConfig(c) /\ InRange(c)

ClampKeys == {"wake_buffer", "default_ceiling", "wake_only_hold", "min_ceiling", "max_ceiling",
              "tick_interval", "poll_interval", "wake_reassert_interval", "auto_adopt_interval"}
ResetKeys == {"ceiling_multiplier", "history_window", "thermal_cutout_c",
              "low_battery_cutout_pct", "cutout_rearm_margin_c", "cutout_rearm_margin_pct",
              "event_log_max_bytes"}
FreeKeys == {"use_wake_or_power_on", "notify_on_missed_job", "advisory_checks", "agent_hooks",
             "sleep_after_wake", "keep_display_awake", "auto_adopt", "webhook_url"}

LEMMA KeySets ==
    /\ DOMAIN Clamped = ClampKeys /\ DOMAIN Reset = ResetKeys /\ DOMAIN Free = FreeKeys
    /\ DurationKeys = ClampKeys \cup {"min_import_interval"}
    /\ Keys = ClampKeys \cup {"min_import_interval"} \cup ResetKeys \cup FreeKeys
              \cup {"min_runs_for_estimate"}
<1>1. DOMAIN Clamped = ClampKeys
  BY DEF Clamped, ClampKeys
<1>2. DOMAIN Reset = ResetKeys
  BY DEF Reset, ResetKeys
<1>3. DOMAIN Free = FreeKeys
  BY DEF Free, FreeKeys
<1> QED
  BY <1>1, <1>2, <1>3 DEF DurationKeys, Keys

LEMMA KeyClasses ==
    /\ \A k \in ClampKeys : k \notin ResetKeys /\ k \notin FreeKeys
                            /\ k # "min_import_interval" /\ k # "min_runs_for_estimate"
    /\ \A k \in ResetKeys : k \notin ClampKeys /\ k \notin FreeKeys
                            /\ k # "min_import_interval" /\ k # "min_runs_for_estimate"
    /\ \A k \in FreeKeys : k \notin ClampKeys /\ k \notin ResetKeys
                            /\ k # "min_import_interval" /\ k # "min_runs_for_estimate"
    /\ "min_import_interval" \notin ClampKeys /\ "min_import_interval" \notin ResetKeys
    /\ "min_import_interval" \notin FreeKeys
    /\ "min_runs_for_estimate" \notin ClampKeys /\ "min_runs_for_estimate" \notin ResetKeys
    /\ "min_runs_for_estimate" \notin FreeKeys
  BY DEF ClampKeys, ResetKeys, FreeKeys

-----------------------------------------------------------------------------
(* The text of a duration. *)

LEMMA HumanParts ==
    ASSUME NEW d \in Nat
    PROVE  /\ d < 1000 => HumanDuration(d) = d
           /\ d >= 1000 /\ d < 60000 => /\ HumanDuration(d) = (IF d % 1000 = 0 THEN d
                                                               ELSE ((d + 50) \div 100) * 100)
           /\ d >= 60000 /\ d < 3600000 => HumanDuration(d) = (d \div 1000) * 1000
           /\ d >= 3600000 /\ d < DayMillis => HumanDuration(d) = (d \div 60000) * 60000
           /\ d >= DayMillis => HumanDuration(d) = (d \div 3600000) * 3600000
  BY DEF HumanDuration, DayMillis

\* Under a minute the text is the nearest tenth of a second.
LEMMA HumanTenths ==
    ASSUME NEW d \in Nat, d >= 1000, d < 60000
    PROVE  HumanDuration(d) = ((d + 50) \div 100) * 100
<1>1. d % 1000 = 0 => ((d + 50) \div 100) * 100 = d
  OBVIOUS
<1> QED
  BY <1>1, HumanParts

LEMMA HumanBounds ==
    ASSUME NEW d \in Nat
    PROVE  /\ HumanDuration(d) \in Nat
           /\ d >= 1000 /\ d < 60000 => HumanDuration(d) >= 1000 /\ HumanDuration(d) <= 60000
           /\ d >= 60000 /\ d < 3600000 => HumanDuration(d) >= 60000 /\ HumanDuration(d) < 3600000
           /\ d >= 3600000 /\ d < DayMillis
                => HumanDuration(d) >= 3600000 /\ HumanDuration(d) < DayMillis
           /\ d >= DayMillis => HumanDuration(d) >= DayMillis
  BY HumanParts, HumanTenths DEF DayMillis

LEMMA HumanIdempotent ==
    ASSUME NEW d \in Nat PROVE HumanDuration(HumanDuration(d)) = HumanDuration(d)
<1> DEFINE h == HumanDuration(d)
<1>1. h \in Nat
  BY HumanBounds
<1>2. CASE d < 1000
  BY <1>2, HumanParts
<1>3. CASE d >= 1000 /\ d < 60000
  <2>1. h = ((d + 50) \div 100) * 100 /\ h >= 1000 /\ h <= 60000
    BY <1>3, HumanTenths, HumanBounds
  <2>2. ((h + 50) \div 100) * 100 = h
    BY <2>1
  <2>3. h = 60000 => (h \div 1000) * 1000 = h
    OBVIOUS
  <2> HIDE DEF h
  <2>4. HumanDuration(h) = h
    BY <1>1, <2>1, <2>2, <2>3, HumanTenths, HumanParts DEF DayMillis
  <2> QED
    BY <2>4 DEF h
<1>4. CASE d >= 60000 /\ d < 3600000
  <2>1. h = (d \div 1000) * 1000 /\ h >= 60000 /\ h < 3600000
    BY <1>4, HumanParts, HumanBounds
  <2>2. (h \div 1000) * 1000 = h
    BY <2>1
  <2> QED
    BY <1>1, <2>1, <2>2, HumanParts
<1>5. CASE d >= 3600000 /\ d < DayMillis
  <2>1. h = (d \div 60000) * 60000 /\ h >= 3600000 /\ h < DayMillis
    BY <1>5, HumanParts, HumanBounds
  <2>2. (h \div 60000) * 60000 = h
    BY <2>1
  <2> QED
    BY <1>1, <2>1, <2>2, HumanParts
<1>6. CASE d >= DayMillis
  <2>1. h = (d \div 3600000) * 3600000 /\ h >= DayMillis
    BY <1>6, HumanParts, HumanBounds
  <2>2. (h \div 3600000) * 3600000 = h
    BY <2>1
  <2> QED
    BY <1>1, <2>1, <2>2, HumanParts
<1> QED
  BY <1>2, <1>3, <1>4, <1>5, <1>6 DEF DayMillis

LEMMA HumanMonotone ==
    ASSUME NEW d \in Nat, NEW e \in Nat, d <= e
    PROVE  HumanDuration(d) <= HumanDuration(e)
<1>1. CASE e < 1000
  BY <1>1, HumanParts
<1>2. CASE e >= 1000 /\ e < 60000
  BY <1>2, HumanParts, HumanTenths, HumanBounds
<1>3. CASE e >= 60000 /\ e < 3600000
  BY <1>3, HumanParts, HumanBounds
<1>4. CASE e >= 3600000 /\ e < DayMillis
  BY <1>4, HumanParts, HumanBounds DEF DayMillis
<1>5. CASE e >= DayMillis
  BY <1>5, HumanParts, HumanBounds DEF DayMillis
<1> QED
  BY <1>1, <1>2, <1>3, <1>4, <1>5 DEF DayMillis

-----------------------------------------------------------------------------
(* What Normalize does to one setting. *)

LEMMA ClampRanges ==
    \A k \in ClampKeys :
        LET r == Clamped[k]
        IN  /\ r.lo \in Nat /\ r.hi \in Nat /\ r.def \in Nat
            /\ 0 < r.lo /\ r.lo <= r.def /\ r.def <= r.hi
            /\ HumanDuration(r.lo) = r.lo /\ HumanDuration(r.hi) = r.hi
<1> SUFFICES ASSUME NEW k \in ClampKeys
             PROVE  LET r == Clamped[k]
                    IN  /\ r.lo \in Nat /\ r.hi \in Nat /\ r.def \in Nat
                        /\ 0 < r.lo /\ r.lo <= r.def /\ r.def <= r.hi
                        /\ HumanDuration(r.lo) = r.lo /\ HumanDuration(r.hi) = r.hi
  OBVIOUS
<1>1. CASE k = "wake_buffer"
  BY <1>1 DEF Clamped, HumanDuration, DayMillis
<1>2. CASE k = "default_ceiling"
  BY <1>2 DEF Clamped, HumanDuration, DayMillis
<1>3. CASE k = "wake_only_hold"
  BY <1>3 DEF Clamped, HumanDuration, DayMillis
<1>4. CASE k = "min_ceiling"
  BY <1>4 DEF Clamped, HumanDuration, DayMillis
<1>5. CASE k = "max_ceiling"
  BY <1>5 DEF Clamped, HumanDuration, DayMillis
<1>6. CASE k = "tick_interval"
  BY <1>6 DEF Clamped, HumanDuration, DayMillis
<1>7. CASE k = "poll_interval"
  BY <1>7 DEF Clamped, HumanDuration, DayMillis
<1>8. CASE k = "wake_reassert_interval"
  BY <1>8 DEF Clamped, HumanDuration, DayMillis
<1>9. CASE k = "auto_adopt_interval"
  BY <1>9 DEF Clamped, HumanDuration, DayMillis
<1> QED
  BY <1>1, <1>2, <1>3, <1>4, <1>5, <1>6, <1>7, <1>8, <1>9 DEF ClampKeys

LEMMA ResetRanges ==
    \A k \in ResetKeys :
        LET r == Reset[k]
        IN  /\ r.lo \in Nat /\ r.hi \in Nat /\ r.def \in Nat
            /\ r.lo <= r.def /\ r.def <= r.hi
<1> SUFFICES ASSUME NEW k \in ResetKeys
             PROVE  LET r == Reset[k]
                    IN  /\ r.lo \in Nat /\ r.hi \in Nat /\ r.def \in Nat
                        /\ r.lo <= r.def /\ r.def <= r.hi
  OBVIOUS
<1>1. CASE k = "ceiling_multiplier"
  BY <1>1 DEF Reset, AnyAbove
<1>2. CASE k = "history_window"
  BY <1>2 DEF Reset, AnyAbove
<1>3. CASE k = "thermal_cutout_c"
  BY <1>3 DEF Reset, AnyAbove
<1>4. CASE k = "low_battery_cutout_pct"
  BY <1>4 DEF Reset, AnyAbove
<1>5. CASE k = "cutout_rearm_margin_c"
  BY <1>5 DEF Reset, AnyAbove
<1>6. CASE k = "cutout_rearm_margin_pct"
  BY <1>6 DEF Reset, AnyAbove
<1>7. CASE k = "event_log_max_bytes"
  BY <1>7 DEF Reset, AnyAbove
<1> QED
  BY <1>1, <1>2, <1>3, <1>4, <1>5, <1>6, <1>7 DEF ResetKeys

LEMMA ClampInRange ==
    ASSUME NEW v \in Int, NEW k \in ClampKeys
    PROVE  /\ clampDur(v, Clamped[k]) \in Int
           /\ Clamped[k].lo <= clampDur(v, Clamped[k]) /\ clampDur(v, Clamped[k]) <= Clamped[k].hi
           /\ Clamped[k].lo <= v /\ v <= Clamped[k].hi => clampDur(v, Clamped[k]) = v
  BY ClampRanges DEF clampDur, Within

LEMMA RepairInRange ==
    ASSUME NEW v \in Int, NEW k \in ResetKeys
    PROVE  /\ Repaired(v, Reset[k]) \in Int
           /\ Reset[k].lo <= Repaired(v, Reset[k]) /\ Repaired(v, Reset[k]) <= Reset[k].hi
           /\ Reset[k].lo <= v /\ v <= Reset[k].hi => Repaired(v, Reset[k]) = v
  BY ResetRanges DEF Repaired

LEMMA NormalizeParts ==
    ASSUME NEW c
    PROVE  LET n == Normalize(c)
               floor == clampDur(c["min_ceiling"], Clamped["min_ceiling"])
               cap == clampDur(c["max_ceiling"], Clamped["max_ceiling"])
           IN  /\ n = [k \in Keys |-> n[k]]
               /\ \A k \in ClampKeys \ {"min_ceiling", "max_ceiling"} :
                     n[k] = clampDur(c[k], Clamped[k])
               /\ n["min_ceiling"] = (IF floor > cap THEN cap ELSE floor)
               /\ n["max_ceiling"] = (IF floor > cap THEN floor ELSE cap)
               /\ \A k \in ResetKeys : n[k] = Repaired(c[k], Reset[k])
               /\ \A k \in FreeKeys : n[k] = c[k]
               /\ n["min_import_interval"] = Within(c["min_import_interval"], 0, DayMillis)
               /\ n["min_runs_for_estimate"] =
                     Repaired(c["min_runs_for_estimate"],
                              [lo |-> 1, hi |-> n["history_window"],
                               def |-> Default["min_runs_for_estimate"]])
<1> DEFINE n == Normalize(c)
           window == Repaired(c.history_window, Reset.history_window)
           floor == clampDur(c["min_ceiling"], Clamped["min_ceiling"])
           cap == clampDur(c["max_ceiling"], Clamped["max_ceiling"])
           value(k) ==
            CASE k = "min_ceiling" -> IF floor > cap THEN cap ELSE floor
              [] k = "max_ceiling" -> IF floor > cap THEN floor ELSE cap
              [] k \in DOMAIN Clamped \ {"min_ceiling", "max_ceiling"} ->
                    clampDur(c[k], Clamped[k])
              [] k \in DOMAIN Reset -> Repaired(c[k], Reset[k])
              [] k = "min_import_interval" -> Within(c[k], 0, DayMillis)
              [] k = "min_runs_for_estimate" ->
                    Repaired(c[k], [lo |-> 1, hi |-> window, def |-> Default[k]])
              [] OTHER -> c[k]
<1>1. n = [k \in Keys |-> value(k)]
  BY DEF Normalize
<1>2. \A k \in Keys : n[k] = value(k)
  BY <1>1
<1>3. n = [k \in Keys |-> n[k]]
  BY <1>1
<1> HIDE DEF n
<1>4. "min_ceiling" \in Keys /\ "max_ceiling" \in Keys /\ "history_window" \in Keys
      /\ "min_import_interval" \in Keys /\ "min_runs_for_estimate" \in Keys
      /\ ClampKeys \subseteq Keys /\ ResetKeys \subseteq Keys /\ FreeKeys \subseteq Keys
  BY KeySets DEF ClampKeys, ResetKeys
<1>5. \A k \in ClampKeys \ {"min_ceiling", "max_ceiling"} : n[k] = clampDur(c[k], Clamped[k])
  <2> SUFFICES ASSUME NEW k \in ClampKeys \ {"min_ceiling", "max_ceiling"}
               PROVE  value(k) = clampDur(c[k], Clamped[k])
    BY <1>2, <1>4
  <2>1. k # "min_ceiling" /\ k # "max_ceiling"
        /\ k \in DOMAIN Clamped \ {"min_ceiling", "max_ceiling"} /\ k \notin DOMAIN Reset
        /\ k # "min_import_interval" /\ k # "min_runs_for_estimate"
    BY KeySets, KeyClasses
  <2> QED
    BY <2>1
<1>6. n["min_ceiling"] = (IF floor > cap THEN cap ELSE floor)
      /\ n["max_ceiling"] = (IF floor > cap THEN floor ELSE cap)
  <2>1. "min_ceiling" \notin DOMAIN Clamped \ {"min_ceiling", "max_ceiling"}
        /\ "min_ceiling" \notin DOMAIN Reset
        /\ "max_ceiling" \notin DOMAIN Clamped \ {"min_ceiling", "max_ceiling"}
        /\ "max_ceiling" \notin DOMAIN Reset
    BY KeySets DEF ResetKeys
  <2> QED
    BY <1>2, <1>4, <2>1
<1>7. \A k \in ResetKeys : n[k] = Repaired(c[k], Reset[k])
  <2> SUFFICES ASSUME NEW k \in ResetKeys PROVE value(k) = Repaired(c[k], Reset[k])
    BY <1>2, <1>4
  <2>1. k # "min_ceiling" /\ k # "max_ceiling"
        /\ k \notin DOMAIN Clamped \ {"min_ceiling", "max_ceiling"} /\ k \in DOMAIN Reset
        /\ k # "min_import_interval" /\ k # "min_runs_for_estimate"
    BY KeySets, KeyClasses DEF ClampKeys
  <2> QED
    BY <2>1
<1>8. \A k \in FreeKeys : n[k] = c[k]
  <2> SUFFICES ASSUME NEW k \in FreeKeys PROVE value(k) = c[k]
    BY <1>2, <1>4
  <2>1. k # "min_ceiling" /\ k # "max_ceiling"
        /\ k \notin DOMAIN Clamped \ {"min_ceiling", "max_ceiling"} /\ k \notin DOMAIN Reset
        /\ k # "min_import_interval" /\ k # "min_runs_for_estimate"
    BY KeySets, KeyClasses DEF ClampKeys
  <2> QED
    BY <2>1
<1>9. n["min_import_interval"] = Within(c["min_import_interval"], 0, DayMillis)
  <2>1. "min_import_interval" \notin DOMAIN Clamped \ {"min_ceiling", "max_ceiling"}
        /\ "min_import_interval" \notin DOMAIN Reset
    BY KeySets, KeyClasses
  <2> QED
    BY <1>2, <1>4, <2>1
<1>10. n["history_window"] = window
  BY <1>7 DEF ResetKeys
<1>11. n["min_runs_for_estimate"] =
         Repaired(c["min_runs_for_estimate"],
                  [lo |-> 1, hi |-> window, def |-> Default["min_runs_for_estimate"]])
  <2>1. "min_runs_for_estimate" \notin DOMAIN Clamped \ {"min_ceiling", "max_ceiling"}
        /\ "min_runs_for_estimate" \notin DOMAIN Reset
    BY KeySets, KeyClasses
  <2> QED
    BY <1>2, <1>4, <2>1
<1> QED
  BY <1>3, <1>5, <1>6, <1>7, <1>8, <1>9, <1>10, <1>11 DEF n

LEMMA Defaults ==
    /\ Default = [k \in Keys |-> Default[k]]
    /\ \A k \in ClampKeys : Default[k] = Clamped[k].def
    /\ \A k \in ResetKeys : Default[k] = Reset[k].def
    /\ Default["min_import_interval"] = 0 /\ Default["min_runs_for_estimate"] = 3
<1>1. Default = [k \in Keys |-> Default[k]]
  <2> DEFINE value(k) == CASE k \in DOMAIN Clamped -> Clamped[k].def
                           [] k \in DOMAIN Reset -> Reset[k].def
                           [] k \in DOMAIN Free -> Free[k]
                           [] k = "min_import_interval" -> 0
                           [] k = "min_runs_for_estimate" -> 3
  <2>1. Default = [k \in Keys |-> value(k)]
    BY DEF Default
  <2> HIDE DEF value
  <2> QED
    BY <2>1
<1>2. \A k \in ClampKeys : Default[k] = Clamped[k].def
  <2> SUFFICES ASSUME NEW k \in ClampKeys PROVE Default[k] = Clamped[k].def
    OBVIOUS
  <2>1. k \in Keys /\ k \in DOMAIN Clamped /\ k \notin DOMAIN Reset /\ k \notin DOMAIN Free
        /\ k # "min_import_interval" /\ k # "min_runs_for_estimate"
    BY KeySets, KeyClasses
  <2> QED
    BY <2>1 DEF Default
<1>3. \A k \in ResetKeys : Default[k] = Reset[k].def
  <2> SUFFICES ASSUME NEW k \in ResetKeys PROVE Default[k] = Reset[k].def
    OBVIOUS
  <2>1. k \in Keys /\ k \notin DOMAIN Clamped /\ k \in DOMAIN Reset /\ k \notin DOMAIN Free
        /\ k # "min_import_interval" /\ k # "min_runs_for_estimate"
    BY KeySets, KeyClasses
  <2> QED
    BY <2>1 DEF Default
<1>4. Default["min_import_interval"] = 0 /\ Default["min_runs_for_estimate"] = 3
  <2>1. "min_import_interval" \in Keys /\ "min_runs_for_estimate" \in Keys
        /\ "min_import_interval" \notin DOMAIN Clamped \cup DOMAIN Reset \cup DOMAIN Free
        /\ "min_runs_for_estimate" \notin DOMAIN Clamped \cup DOMAIN Reset \cup DOMAIN Free
    BY KeySets, KeyClasses
  <2> QED
    BY <2>1 DEF Default
<1> QED
  BY <1>1, <1>2, <1>3, <1>4

-----------------------------------------------------------------------------
(* Settled settings: those that neither Normalize nor the text of config.json moves out *)
(* of their ranges.                                                                     *)

LEMMA NormalizeSettles ==
    ASSUME NEW c, \A k \in Keys \ DOMAIN Free : c[k] \in Int
    PROVE  Settled(Normalize(c))
<1> DEFINE n == Normalize(c)
           floor == clampDur(c["min_ceiling"], Clamped["min_ceiling"])
           cap == clampDur(c["max_ceiling"], Clamped["max_ceiling"])
<1>1. /\ \A k \in ClampKeys : c[k] \in Int
      /\ \A k \in ResetKeys : c[k] \in Int
      /\ c["min_import_interval"] \in Int /\ c["min_runs_for_estimate"] \in Int
  BY KeySets, KeyClasses
<1>2. /\ "min_ceiling" \in ClampKeys /\ "max_ceiling" \in ClampKeys
      /\ "history_window" \in ResetKeys
  BY DEF ClampKeys, ResetKeys
<1>3. \A k \in ClampKeys : /\ n[k] \in Int
                           /\ Clamped[k].lo <= n[k] /\ n[k] <= Clamped[k].hi
  <2>1. \A k \in ClampKeys \ {"min_ceiling", "max_ceiling"} :
            /\ n[k] \in Int /\ Clamped[k].lo <= n[k] /\ n[k] <= Clamped[k].hi
    <3> SUFFICES ASSUME NEW k \in ClampKeys \ {"min_ceiling", "max_ceiling"}
                 PROVE  /\ n[k] \in Int /\ Clamped[k].lo <= n[k] /\ n[k] <= Clamped[k].hi
      OBVIOUS
    <3>1. n[k] = clampDur(c[k], Clamped[k]) /\ c[k] \in Int
      BY <1>1, NormalizeParts
    <3> HIDE DEF n
    <3> QED
      BY <3>1, ClampInRange
  <2>2. /\ floor \in Int /\ 1000 <= floor /\ floor <= 3600000
        /\ cap \in Int /\ 60000 <= cap /\ cap <= 86400000
    BY <1>1, <1>2, ClampInRange DEF Clamped
  <2>3. n["min_ceiling"] = (IF floor > cap THEN cap ELSE floor)
        /\ n["max_ceiling"] = (IF floor > cap THEN floor ELSE cap)
    BY NormalizeParts
  <2> HIDE DEF n, floor, cap
  <2>4. /\ n["min_ceiling"] \in Int /\ n["max_ceiling"] \in Int
        /\ 1000 <= n["min_ceiling"] /\ n["min_ceiling"] <= 3600000
        /\ 60000 <= n["max_ceiling"] /\ n["max_ceiling"] <= 86400000
    BY <2>2, <2>3
  <2>5. /\ Clamped["min_ceiling"].lo = 1000 /\ Clamped["min_ceiling"].hi = 3600000
        /\ Clamped["max_ceiling"].lo = 60000 /\ Clamped["max_ceiling"].hi = 86400000
    BY DEF Clamped
  <2> QED
    BY <2>1, <2>4, <2>5
<1>4. n["min_ceiling"] <= n["max_ceiling"]
  <2>1. floor \in Int /\ cap \in Int
    BY <1>1, <1>2, ClampInRange
  <2>2. n["min_ceiling"] = (IF floor > cap THEN cap ELSE floor)
        /\ n["max_ceiling"] = (IF floor > cap THEN floor ELSE cap)
    BY NormalizeParts
  <2> HIDE DEF n, floor, cap
  <2> QED
    BY <2>1, <2>2
<1>5. \A k \in ResetKeys : /\ n[k] \in Int
                           /\ Reset[k].lo <= n[k] /\ n[k] <= Reset[k].hi
  <2> SUFFICES ASSUME NEW k \in ResetKeys
               PROVE  n[k] \in Int /\ Reset[k].lo <= n[k] /\ n[k] <= Reset[k].hi
    OBVIOUS
  <2>1. n[k] = Repaired(c[k], Reset[k]) /\ c[k] \in Int
    BY <1>1, NormalizeParts
  <2> HIDE DEF n
  <2> QED
    BY <2>1, RepairInRange
<1>6. n["min_import_interval"] \in Int
      /\ 0 <= n["min_import_interval"] /\ n["min_import_interval"] <= DayMillis
  <2>1. n["min_import_interval"] = Within(c["min_import_interval"], 0, DayMillis)
    BY NormalizeParts
  <2> HIDE DEF n
  <2> QED
    BY <1>1, <2>1 DEF Within, DayMillis
<1>7. /\ n["min_runs_for_estimate"] \in Int
      /\ \/ 1 <= n["min_runs_for_estimate"] /\ n["min_runs_for_estimate"] <= n["history_window"]
         \/ n["min_runs_for_estimate"] = 3
  <2>1. n["min_runs_for_estimate"] =
            Repaired(c["min_runs_for_estimate"],
                     [lo |-> 1, hi |-> n["history_window"], def |-> 3])
    BY NormalizeParts, Defaults
  <2>2. n["history_window"] \in Int
    BY <1>2, <1>5
  <2> HIDE DEF n
  <2>3. n["min_runs_for_estimate"] =
            (IF c["min_runs_for_estimate"] < 1 \/ c["min_runs_for_estimate"] > n["history_window"]
             THEN 3 ELSE c["min_runs_for_estimate"])
    BY <2>1 DEF Repaired
  <2> QED
    BY <1>1, <2>2, <2>3
<1>8. n = [k \in Keys |-> n[k]]
  BY NormalizeParts
<1> HIDE DEF n
<1>9. \A k \in Keys \ DOMAIN Free : n[k] \in Int
  BY <1>3, <1>5, <1>6, <1>7, KeySets
<1>10. Settled(n)
  BY <1>3, <1>4, <1>5, <1>6, <1>7, <1>8, <1>9, KeySets DEF Settled, IsConfig, InRange
<1> QED
  BY <1>10 DEF n

LEMMA SettledParts ==
    ASSUME NEW c, Settled(c)
    PROVE  /\ c = [k \in Keys |-> c[k]]
           /\ \A k \in ClampKeys :
                 c[k] \in Int /\ Clamped[k].lo <= c[k] /\ c[k] <= Clamped[k].hi
           /\ \A k \in ResetKeys :
                 c[k] \in Int /\ Reset[k].lo <= c[k] /\ c[k] <= Reset[k].hi
           /\ c["min_ceiling"] <= c["max_ceiling"]
           /\ c["min_import_interval"] \in Int
           /\ 0 <= c["min_import_interval"] /\ c["min_import_interval"] <= DayMillis
           /\ c["min_runs_for_estimate"] \in Int
           /\ \/ 1 <= c["min_runs_for_estimate"]
                 /\ c["min_runs_for_estimate"] <= c["history_window"]
              \/ c["min_runs_for_estimate"] = 3
<1>1. /\ ClampKeys \subseteq Keys \ DOMAIN Free /\ ResetKeys \subseteq Keys \ DOMAIN Free
      /\ "min_import_interval" \in Keys \ DOMAIN Free
      /\ "min_runs_for_estimate" \in Keys \ DOMAIN Free
  BY KeySets, KeyClasses
<1> QED
  BY <1>1, KeySets DEF Settled, IsConfig, InRange

\* What is settled is not repaired ...
LEMMA SettledStays ==
    ASSUME NEW c, Settled(c) PROVE Normalize(c) = c
<1> DEFINE n == Normalize(c)
<1>1. n = [k \in Keys |-> n[k]] /\ c = [k \in Keys |-> c[k]]
  BY NormalizeParts, SettledParts
<1>2. "min_ceiling" \in ClampKeys /\ "max_ceiling" \in ClampKeys /\ "history_window" \in ResetKeys
  BY DEF ClampKeys, ResetKeys
<1>3. \A k \in ClampKeys : clampDur(c[k], Clamped[k]) = c[k]
  BY SettledParts, ClampInRange
<1>4. \A k \in ClampKeys : n[k] = c[k]
  <2>1. \A k \in ClampKeys \ {"min_ceiling", "max_ceiling"} : n[k] = c[k]
    BY <1>3, NormalizeParts
  <2>2. c["min_ceiling"] \in Int /\ c["max_ceiling"] \in Int
        /\ c["min_ceiling"] <= c["max_ceiling"]
    BY <1>2, SettledParts
  <2>3. clampDur(c["min_ceiling"], Clamped["min_ceiling"]) = c["min_ceiling"]
        /\ clampDur(c["max_ceiling"], Clamped["max_ceiling"]) = c["max_ceiling"]
    BY <1>2, <1>3
  <2>4. n["min_ceiling"] = (IF c["min_ceiling"] > c["max_ceiling"] THEN c["max_ceiling"]
                            ELSE c["min_ceiling"])
        /\ n["max_ceiling"] = (IF c["min_ceiling"] > c["max_ceiling"] THEN c["min_ceiling"]
                               ELSE c["max_ceiling"])
    BY <2>3, NormalizeParts
  <2> HIDE DEF n
  <2>5. n["min_ceiling"] = c["min_ceiling"] /\ n["max_ceiling"] = c["max_ceiling"]
    BY <2>2, <2>4
  <2> QED
    BY <2>1, <2>5
<1>5. \A k \in ResetKeys : n[k] = c[k]
  <2> SUFFICES ASSUME NEW k \in ResetKeys PROVE n[k] = c[k]
    OBVIOUS
  <2>1. n[k] = Repaired(c[k], Reset[k])
    BY NormalizeParts
  <2>2. c[k] \in Int /\ Reset[k].lo <= c[k] /\ c[k] <= Reset[k].hi
    BY SettledParts
  <2> HIDE DEF n
  <2> QED
    BY <2>1, <2>2, RepairInRange
<1>6. n["min_import_interval"] = c["min_import_interval"]
  <2>1. n["min_import_interval"] = Within(c["min_import_interval"], 0, DayMillis)
    BY NormalizeParts
  <2>2. /\ c["min_import_interval"] \in Int
        /\ 0 <= c["min_import_interval"] /\ c["min_import_interval"] <= DayMillis
    BY SettledParts
  <2> HIDE DEF n
  <2> QED
    BY <2>1, <2>2 DEF Within, DayMillis
<1>7. n["min_runs_for_estimate"] = c["min_runs_for_estimate"]
  <2>1. n["min_runs_for_estimate"] =
            Repaired(c["min_runs_for_estimate"],
                     [lo |-> 1, hi |-> n["history_window"], def |-> 3])
    BY NormalizeParts, Defaults
  <2>2. n["history_window"] = c["history_window"] /\ c["history_window"] \in Int
    BY <1>2, <1>5, SettledParts
  <2>3. n["min_runs_for_estimate"] =
            (IF c["min_runs_for_estimate"] < 1 \/ c["min_runs_for_estimate"] > c["history_window"]
             THEN 3 ELSE c["min_runs_for_estimate"])
    BY <2>1, <2>2 DEF Repaired
  <2>4. /\ c["min_runs_for_estimate"] \in Int
        /\ \/ 1 <= c["min_runs_for_estimate"]
              /\ c["min_runs_for_estimate"] <= c["history_window"]
           \/ c["min_runs_for_estimate"] = 3
    BY SettledParts
  <2> QED
    BY <2>2, <2>3, <2>4
<1>8. \A k \in FreeKeys : n[k] = c[k]
  BY NormalizeParts
<1> HIDE DEF n
<1>9. \A k \in Keys : n[k] = c[k]
  BY <1>4, <1>5, <1>6, <1>7, <1>8, KeySets
<1>10. n = c
  BY <1>1, <1>9
<1> QED
  BY <1>10 DEF n

\* ... and stays settled in the text of config.json, ...
LEMMA TextSettled ==
    ASSUME NEW c, Settled(c) PROVE Settled(MarshalJSON(c))
<1> DEFINE m == MarshalJSON(c)
<1>1. m = [k \in Keys |-> m[k]]
  BY DEF MarshalJSON
<1>2. /\ \A k \in ClampKeys : m[k] = HumanDuration(c[k])
      /\ m["min_import_interval"] = HumanDuration(c["min_import_interval"])
      /\ \A k \in ResetKeys : m[k] = c[k]
      /\ m["min_runs_for_estimate"] = c["min_runs_for_estimate"]
  BY KeySets, KeyClasses DEF MarshalJSON
<1>3. "min_ceiling" \in ClampKeys /\ "max_ceiling" \in ClampKeys /\ "history_window" \in ResetKeys
  BY DEF ClampKeys, ResetKeys
<1> HIDE DEF m
<1>4. ASSUME NEW k \in ClampKeys
      PROVE  c[k] \in Nat /\ m[k] \in Int /\ Clamped[k].lo <= m[k] /\ m[k] <= Clamped[k].hi
  <2>1. c[k] \in Int /\ Clamped[k].lo <= c[k] /\ c[k] <= Clamped[k].hi
    BY SettledParts
  <2>2. Clamped[k].lo \in Nat /\ Clamped[k].hi \in Nat
        /\ HumanDuration(Clamped[k].lo) = Clamped[k].lo
        /\ HumanDuration(Clamped[k].hi) = Clamped[k].hi
    BY ClampRanges
  <2>3. c[k] \in Nat
    BY <2>1, <2>2
  <2>4. HumanDuration(c[k]) \in Nat /\ Clamped[k].lo <= HumanDuration(c[k])
        /\ HumanDuration(c[k]) <= Clamped[k].hi
    BY <2>1, <2>2, <2>3, HumanBounds, HumanMonotone
  <2> QED
    BY <1>2, <2>3, <2>4
<1>5. m["min_ceiling"] <= m["max_ceiling"]
  BY <1>2, <1>3, <1>4, SettledParts, HumanMonotone
<1>6. /\ m["min_import_interval"] \in Int
      /\ 0 <= m["min_import_interval"] /\ m["min_import_interval"] <= DayMillis
  <2>1. c["min_import_interval"] \in Nat /\ c["min_import_interval"] <= DayMillis
    BY SettledParts
  <2>2. DayMillis \in Nat /\ HumanDuration(DayMillis) = DayMillis
    BY DEF HumanDuration, DayMillis
  <2> QED
    BY <1>2, <2>1, <2>2, HumanBounds, HumanMonotone
<1>7. \A k \in ResetKeys : m[k] \in Int /\ Reset[k].lo <= m[k] /\ m[k] <= Reset[k].hi
  BY <1>2, SettledParts
<1>8. /\ m["min_runs_for_estimate"] \in Int
      /\ \/ 1 <= m["min_runs_for_estimate"] /\ m["min_runs_for_estimate"] <= m["history_window"]
         \/ m["min_runs_for_estimate"] = 3
  BY <1>2, <1>3, SettledParts
<1>9. \A k \in Keys \ DOMAIN Free : m[k] \in Int
  BY <1>4, <1>6, <1>7, <1>8, KeySets
<1>10. Settled(m)
  BY <1>1, <1>4, <1>5, <1>6, <1>7, <1>8, <1>9, KeySets DEF Settled, IsConfig, InRange
<1> QED
  BY <1>10 DEF m

\* ... which says the same when it is written again.
LEMMA TextStays ==
    ASSUME NEW c, Settled(c) PROVE MarshalJSON(MarshalJSON(c)) = MarshalJSON(c)
<1>1. \A k \in DurationKeys : HumanDuration(HumanDuration(c[k])) = HumanDuration(c[k])
  <2> SUFFICES ASSUME NEW k \in DurationKeys PROVE c[k] \in Nat
    BY HumanIdempotent
  <2>1. CASE k \in ClampKeys
    BY <2>1, SettledParts, ClampRanges
  <2>2. CASE k = "min_import_interval"
    BY <2>2, SettledParts
  <2> QED
    BY <2>1, <2>2, KeySets
<1>2. DurationKeys \subseteq Keys
  BY DEF Keys
<1> QED
  BY <1>1, <1>2 DEF MarshalJSON

-----------------------------------------------------------------------------
(* config.json. *)

\* What a file may hold: settings of the right types, some of them perhaps missing.
IsFile(f) ==
    \A s, t \in f : s = t /\ \A k \in DOMAIN s \cap (Keys \ DOMAIN Free) : s[k] \in Int

LEMMA DefaultSettled == Settled(Default)
<1>1. \A k \in ClampKeys : /\ Default[k] \in Int
                           /\ Clamped[k].lo <= Default[k] /\ Default[k] <= Clamped[k].hi
  BY Defaults, ClampRanges
<1>2. \A k \in ResetKeys : /\ Default[k] \in Int
                           /\ Reset[k].lo <= Default[k] /\ Default[k] <= Reset[k].hi
  BY Defaults, ResetRanges
<1>3. Default["min_ceiling"] <= Default["max_ceiling"]
  <2>1. Default["min_ceiling"] = 30000 /\ Default["max_ceiling"] = 7200000
    BY Defaults DEF ClampKeys, Clamped
  <2> QED
    BY <2>1
<1>4. \A k \in Keys \ DOMAIN Free : Default[k] \in Int
  BY <1>1, <1>2, Defaults, KeySets
<1> QED
  BY <1>1, <1>2, <1>3, <1>4, Defaults, KeySets DEF Settled, IsConfig, InRange, DayMillis

LEMMA LoadSettles ==
    ASSUME NEW f, IsFile(f) PROVE Settled(Load(f))
<1>1. CASE f = {}
  BY <1>1, DefaultSettled DEF Load
<1>2. CASE f # {}
  <2> DEFINE c == CHOOSE s \in f : TRUE
             given == [k \in Keys |-> IF k \in DOMAIN c THEN c[k]
                                      ELSE IF k = "advisory_checks" THEN FALSE
                                      ELSE Default[k]]
  <2>1. c \in f
    BY <1>2
  <2>2. Load(f) = Normalize(given)
    BY <1>2 DEF Load
  <2>3. \A k \in DOMAIN c \cap (Keys \ DOMAIN Free) : c[k] \in Int
    BY <2>1 DEF IsFile
  <2> HIDE DEF c
  <2>4. ASSUME NEW k \in Keys \ DOMAIN Free PROVE given[k] \in Int
    <3>1. k # "advisory_checks"
      BY KeySets DEF FreeKeys
    <3>2. Default[k] \in Int
      BY DefaultSettled DEF Settled, IsConfig
    <3> QED
      BY <2>3, <3>1, <3>2
  <2> HIDE DEF given
  <2> QED
    BY <2>2, <2>4, NormalizeSettles
<1> QED
  BY <1>1, <1>2

\* A file that was saved is read back as it was written.
LEMMA SavedIsRead ==
    ASSUME NEW c, Settled(c) PROVE Load({MarshalJSON(c)}) = MarshalJSON(c)
<1> DEFINE m == MarshalJSON(c)
           given == [k \in Keys |-> IF k \in DOMAIN m THEN m[k]
                                    ELSE IF k = "advisory_checks" THEN FALSE ELSE Default[k]]
<1>1. (CHOOSE s \in {m} : TRUE) = m
  OBVIOUS
<1>2. DOMAIN m = Keys /\ m = [k \in Keys |-> m[k]]
  BY DEF MarshalJSON
<1>3. Normalize(m) = m
  BY TextSettled, SettledStays
<1>4. Load({m}) = Normalize(given)
  BY <1>1 DEF Load
<1> HIDE DEF m
<1>5. given = m
  BY <1>2
<1>6. Load({m}) = m
  BY <1>3, <1>4, <1>5
<1> QED
  BY <1>6 DEF m

LEMMA SavedIsFile ==
    ASSUME NEW c, Settled(c) PROVE IsFile({MarshalJSON(c)})
  BY TextSettled DEF IsFile, Settled, IsConfig

-----------------------------------------------------------------------------
Busy(s) == setter[s].pc # "idle"

SettingsTypeOK ==
    /\ Settled(cfg) /\ IsFile(file) /\ IsFile(tmp) /\ overlapped \in BOOLEAN
    /\ setter = [s \in Setters |-> [pc |-> setter[s].pc, next |-> setter[s].next]]
    /\ \A s \in Setters : /\ setter[s].pc \in {"idle", "write", "rename", "store"}
                          /\ Busy(s) => Settled(setter[s].next)

\* What one handler at a time keeps true of the three copies of the settings: its own, the
\* one on disk and the daemon's.
OneAtATime ==
    ~overlapped =>
        /\ \A s, t \in Setters : Busy(s) /\ Busy(t) => s = t
        /\ \A s \in Setters :
              /\ setter[s].pc = "rename" => tmp = {MarshalJSON(setter[s].next)}
              /\ setter[s].pc = "store" => file = {MarshalJSON(setter[s].next)}
        /\ (\A s \in Setters : setter[s].pc # "store") /\ file # {}
              => MarshalJSON(Load(file)) = MarshalJSON(cfg)

\* The inductive invariant: the daemon's settings, and a handler's copy, are settled at any
\* time, and one handler at a time keeps the file and the daemon in step.
SettingsInv == SettingsTypeOK /\ OneAtATime

LEMMA SettingsStart == SettingsInit => SettingsInv
<1> SUFFICES ASSUME SettingsInit PROVE SettingsInv
  OBVIOUS
<1>1. IsFile(file) /\ IsFile(tmp)
  BY FilesAssumption DEF SettingsInit, IsFile
<1>2. Settled(cfg)
  BY <1>1, LoadSettles DEF SettingsInit
<1>3. \A s \in Setters : setter[s] = [pc |-> "idle", next |-> Default]
  BY DEF SettingsInit, Idle
<1>4. setter = [s \in Setters |-> [pc |-> setter[s].pc, next |-> setter[s].next]]
  BY <1>3 DEF SettingsInit, Idle
<1>5. \A s \in Setters : setter[s].pc = "idle"
  BY <1>3
<1> QED
  BY <1>1, <1>2, <1>4, <1>5 DEF SettingsInit, SettingsInv, SettingsTypeOK, OneAtATime, Busy

\* The handlers when s goes to a state of its own: what it does to the others.
LEMMA OneMoves ==
    ASSUME SettingsTypeOK, NEW s \in Setters, NEW p, NEW n,
           setter' = [setter EXCEPT ![s] = [pc |-> p, next |-> n]]
    PROVE  /\ setter'[s].pc = p /\ setter'[s].next = n
           /\ \A t \in Setters : t # s => setter'[t] = setter[t]
           /\ setter' = [t \in Setters |-> [pc |-> setter'[t].pc, next |-> setter'[t].next]]
<1>1. setter = [t \in Setters |-> [pc |-> setter[t].pc, next |-> setter[t].next]]
  BY DEF SettingsTypeOK
<1>2. DOMAIN setter = Setters
  BY <1>1
<1>3. setter' = [t \in Setters |-> IF t = s THEN [pc |-> p, next |-> n] ELSE setter[t]]
  BY <1>1, <1>2
<1>4. \A t \in Setters : setter[t] = [pc |-> setter[t].pc, next |-> setter[t].next]
  BY <1>1
<1>5. setter'[s] = [pc |-> p, next |-> n] /\ \A t \in Setters : t # s => setter'[t] = setter[t]
  BY <1>3
<1>6. \A t \in Setters : setter'[t] = [pc |-> setter'[t].pc, next |-> setter'[t].next]
  BY <1>4, <1>5
<1>7. setter' = [t \in Setters |-> setter'[t]]
  BY <1>3
<1> QED
  BY <1>5, <1>6, <1>7

LEMMA OneGoesOn ==
    ASSUME SettingsTypeOK, NEW s \in Setters, NEW p, setter' = [setter EXCEPT ![s].pc = p]
    PROVE  /\ setter'[s].pc = p /\ setter'[s].next = setter[s].next
           /\ \A t \in Setters : t # s => setter'[t] = setter[t]
           /\ setter' = [t \in Setters |-> [pc |-> setter'[t].pc, next |-> setter'[t].next]]
<1>1. setter = [t \in Setters |-> [pc |-> setter[t].pc, next |-> setter[t].next]]
  BY DEF SettingsTypeOK
<1>2. \A t \in Setters : setter[t] = [pc |-> setter[t].pc, next |-> setter[t].next]
  BY <1>1
<1>3. [setter[s] EXCEPT !.pc = p] = [pc |-> p, next |-> setter[s].next]
  <2>1. \A q, n : [[pc |-> q, next |-> n] EXCEPT !.pc = p] = [pc |-> p, next |-> n]
    OBVIOUS
  <2>2. setter[s] = [pc |-> setter[s].pc, next |-> setter[s].next]
    BY <1>2
  <2>3. [[pc |-> setter[s].pc, next |-> setter[s].next] EXCEPT !.pc = p]
            = [pc |-> p, next |-> setter[s].next]
    BY <2>1
  <2> QED
    BY <2>2, <2>3
<1>4. DOMAIN setter = Setters
  BY <1>1
<1>5. /\ setter' = [t \in Setters |-> setter'[t]]
      /\ \A t \in Setters : t # s => setter'[t] = setter[t]
      /\ setter'[s] = [setter[s] EXCEPT !.pc = p]
  BY <1>1, <1>4
<1>6. setter'[s] = [pc |-> p, next |-> setter[s].next]
  BY <1>3, <1>5
<1>7. \A t \in Setters : setter'[t] = [pc |-> setter'[t].pc, next |-> setter'[t].next]
  BY <1>2, <1>5, <1>6
<1>8. setter' = [t \in Setters |-> [pc |-> setter'[t].pc, next |-> setter'[t].next]]
  BY <1>5, <1>7
<1> QED
  BY <1>5, <1>6, <1>8

LEMMA OneStops ==
    ASSUME SettingsTypeOK, NEW s \in Setters, setter' = [setter EXCEPT ![s] = Idle]
    PROVE  /\ setter'[s].pc = "idle"
           /\ \A t \in Setters : t # s => setter'[t] = setter[t]
           /\ setter' = [t \in Setters |-> [pc |-> setter'[t].pc, next |-> setter'[t].next]]
  BY OneMoves DEF Idle

LEMMA SetSteps ==
    ASSUME SettingsInv, NEW s \in Setters, setConfig(s) PROVE SettingsInv'
<1>1. PICK e \in Edits :
         setter' = [setter EXCEPT ![s] =
                      [pc |-> "write", next |-> Normalize([cfg EXCEPT ![e[1]] = e[2]])]]
  BY DEF setConfig
<1> DEFINE c == [cfg EXCEPT ![e[1]] = e[2]]
<1>2. /\ setter[s].pc = "idle" /\ UNCHANGED << file, tmp, cfg >>
      /\ overlapped' = (overlapped \/ \E t \in Setters \ {s} : setter[t].pc # "idle")
  BY DEF setConfig
<1>3. Settled(Normalize(c))
  <2>1. e[1] \in Keys /\ (e[1] \notin DOMAIN Free => e[2] \in Int)
    BY EditsAssumption
  <2>2. cfg = [k \in Keys |-> cfg[k]] /\ \A k \in Keys \ DOMAIN Free : cfg[k] \in Int
    BY DEF SettingsInv, SettingsTypeOK, Settled, IsConfig
  <2>3. \A k \in Keys : c[k] = (IF k = e[1] THEN e[2] ELSE cfg[k])
    BY <2>2
  <2>4. \A k \in Keys \ DOMAIN Free : c[k] \in Int
    BY <2>1, <2>2, <2>3
  <2> HIDE DEF c
  <2> QED
    BY <2>4, NormalizeSettles
<1> HIDE DEF c
<1>4. /\ setter'[s].pc = "write" /\ setter'[s].next = Normalize(c)
      /\ \A t \in Setters : t # s => setter'[t] = setter[t]
      /\ setter' = [t \in Setters |-> [pc |-> setter'[t].pc, next |-> setter'[t].next]]
  <2>1. setter' = [setter EXCEPT ![s] = [pc |-> "write", next |-> Normalize(c)]]
    BY <1>1 DEF c
  <2> QED
    BY <2>1, OneMoves DEF SettingsInv
<1>5. SettingsTypeOK'
  BY <1>2, <1>3, <1>4 DEF SettingsInv, SettingsTypeOK, IsFile, Busy
<1>6. OneAtATime'
  <2> SUFFICES ASSUME ~overlapped' PROVE OneAtATime'
    BY DEF OneAtATime
  <2>1. ~overlapped /\ \A t \in Setters \ {s} : setter[t].pc = "idle"
    BY <1>2 DEF SettingsInv, SettingsTypeOK
  <2>2. \A t \in Setters \ {s} : setter'[t].pc = "idle"
    BY <1>4, <2>1
  <2>3. (\A t \in Setters : setter[t].pc # "store")
    BY <1>2, <2>1
  <2>4. file # {} => MarshalJSON(Load(file)) = MarshalJSON(cfg)
    BY <2>1, <2>3 DEF SettingsInv, OneAtATime
  <2> QED
    BY <1>2, <1>4, <2>2, <2>4 DEF OneAtATime, Busy
<1> QED
  BY <1>5, <1>6 DEF SettingsInv

LEMMA WriteSteps ==
    ASSUME SettingsInv, NEW s \in Setters, SaveWrite(s) PROVE SettingsInv'
<1>1. /\ setter[s].pc = "write" /\ tmp' = {MarshalJSON(setter[s].next)}
      /\ setter' = [setter EXCEPT ![s].pc = "rename"]
      /\ UNCHANGED << file, cfg, overlapped >>
  BY DEF SaveWrite
<1>2. /\ setter'[s].pc = "rename" /\ setter'[s].next = setter[s].next
      /\ \A t \in Setters : t # s => setter'[t] = setter[t]
      /\ setter' = [t \in Setters |-> [pc |-> setter'[t].pc, next |-> setter'[t].next]]
  BY <1>1, OneGoesOn DEF SettingsInv
<1>3. Settled(setter[s].next)
  BY <1>1 DEF SettingsInv, SettingsTypeOK, Busy
<1>4. IsFile(tmp')
  BY <1>1, <1>3, SavedIsFile
<1>5. SettingsTypeOK'
  <2>1. IsFile(tmp)'
    BY <1>4 DEF IsFile
  <2>2. (\A t \in Setters : /\ setter[t].pc \in {"idle", "write", "rename", "store"}
                            /\ Busy(t) => Settled(setter[t].next))'
    BY <1>1, <1>2, <1>3 DEF SettingsInv, SettingsTypeOK, Busy
  <2> QED
    BY <1>1, <1>2, <2>1, <2>2 DEF SettingsInv, SettingsTypeOK, IsFile
<1>6. OneAtATime'
  BY <1>1, <1>2 DEF SettingsInv, OneAtATime, Busy
<1> QED
  BY <1>5, <1>6 DEF SettingsInv

LEMMA RenameSteps ==
    ASSUME SettingsInv, NEW s \in Setters, SaveRename(s) PROVE SettingsInv'
<1>1. setter[s].pc = "rename" /\ UNCHANGED << cfg, overlapped >>
  BY DEF SaveRename
<1>2. CASE /\ tmp # {} /\ file' = tmp /\ tmp' = {}
           /\ setter' = [setter EXCEPT ![s].pc = "store"]
  <2>1. /\ setter'[s].pc = "store" /\ setter'[s].next = setter[s].next
        /\ \A t \in Setters : t # s => setter'[t] = setter[t]
        /\ setter' = [t \in Setters |-> [pc |-> setter'[t].pc, next |-> setter'[t].next]]
    BY <1>2, OneGoesOn DEF SettingsInv
  <2>2. SettingsTypeOK'
    <3>1. IsFile(file)' /\ IsFile(tmp)'
      BY <1>2 DEF SettingsInv, SettingsTypeOK, IsFile
    <3>2. (\A t \in Setters : /\ setter[t].pc \in {"idle", "write", "rename", "store"}
                              /\ Busy(t) => Settled(setter[t].next))'
      BY <1>1, <2>1 DEF SettingsInv, SettingsTypeOK, Busy
    <3> QED
      BY <1>1, <2>1, <3>1, <3>2 DEF SettingsInv, SettingsTypeOK
  <2>3. OneAtATime'
    <3> SUFFICES ASSUME ~overlapped PROVE OneAtATime'
      BY <1>1 DEF OneAtATime
    <3>1. /\ \A t, u \in Setters : Busy(t) /\ Busy(u) => t = u
          /\ tmp = {MarshalJSON(setter[s].next)}
      BY <1>1 DEF SettingsInv, OneAtATime
    <3>2. \A t \in Setters : t # s => setter[t].pc = "idle"
      BY <1>1, <3>1 DEF Busy
    <3>3. \A t \in Setters : t # s => setter'[t].pc = "idle"
      BY <2>1, <3>2
    <3>4. file' = {MarshalJSON(setter'[s].next)}
      BY <1>2, <2>1, <3>1
    <3> QED
      BY <2>1, <3>3, <3>4 DEF OneAtATime, Busy
  <2> QED
    BY <2>2, <2>3 DEF SettingsInv
<1>3. CASE tmp = {} /\ UNCHANGED << file, tmp >> /\ setter' = [setter EXCEPT ![s] = Idle]
  <2>1. /\ setter'[s].pc = "idle"
        /\ \A t \in Setters : t # s => setter'[t] = setter[t]
        /\ setter' = [t \in Setters |-> [pc |-> setter'[t].pc, next |-> setter'[t].next]]
    BY <1>3, OneStops DEF SettingsInv
  <2>2. SettingsTypeOK'
    BY <1>1, <1>3, <2>1 DEF SettingsInv, SettingsTypeOK, IsFile, Busy
  <2>3. OneAtATime'
    BY <1>1, <1>3, <2>1 DEF SettingsInv, OneAtATime, Busy
  <2> QED
    BY <2>2, <2>3 DEF SettingsInv
<1> QED
  BY <1>2, <1>3 DEF SaveRename

LEMMA FailSteps ==
    ASSUME SettingsInv, NEW s \in Setters, SaveFails(s) PROVE SettingsInv'
<1>1. /\ setter[s].pc \in {"write", "rename"} /\ setter' = [setter EXCEPT ![s] = Idle]
      /\ UNCHANGED << file, tmp, cfg, overlapped >>
  BY DEF SaveFails
<1>2. /\ setter'[s].pc = "idle"
      /\ \A t \in Setters : t # s => setter'[t] = setter[t]
      /\ setter' = [t \in Setters |-> [pc |-> setter'[t].pc, next |-> setter'[t].next]]
  BY <1>1, OneStops DEF SettingsInv
<1>3. SettingsTypeOK'
  BY <1>1, <1>2 DEF SettingsInv, SettingsTypeOK, IsFile, Busy
<1>4. OneAtATime'
  BY <1>1, <1>2 DEF SettingsInv, OneAtATime, Busy
<1> QED
  BY <1>3, <1>4 DEF SettingsInv

LEMMA StoreSteps ==
    ASSUME SettingsInv, NEW s \in Setters, StoreConfig(s) PROVE SettingsInv'
<1>1. /\ setter[s].pc = "store" /\ cfg' = setter[s].next /\ setter' = [setter EXCEPT ![s] = Idle]
      /\ UNCHANGED << file, tmp, overlapped >>
  BY DEF StoreConfig
<1>2. /\ setter'[s].pc = "idle"
      /\ \A t \in Setters : t # s => setter'[t] = setter[t]
      /\ setter' = [t \in Setters |-> [pc |-> setter'[t].pc, next |-> setter'[t].next]]
  BY <1>1, OneStops DEF SettingsInv
<1>3. Settled(cfg')
  BY <1>1 DEF SettingsInv, SettingsTypeOK, Busy
<1>4. SettingsTypeOK'
  <2>1. Settled(cfg)'
    BY <1>3 DEF Settled, IsConfig, InRange
  <2> QED
    BY <1>1, <1>2, <2>1 DEF SettingsInv, SettingsTypeOK, IsFile, Busy
<1>5. OneAtATime'
  <2> SUFFICES ASSUME ~overlapped PROVE OneAtATime'
    BY <1>1 DEF OneAtATime
  <2>1. file = {MarshalJSON(cfg')}
    BY <1>1 DEF SettingsInv, OneAtATime
  <2>2. MarshalJSON(Load(file)) = MarshalJSON(cfg')
    BY <1>3, <2>1, SavedIsRead, TextStays
  <2>3. \A t \in Setters : t # s => setter[t].pc = "idle"
    BY <1>1 DEF SettingsInv, OneAtATime, Busy
  <2>4. \A t \in Setters : setter'[t].pc = "idle"
    BY <1>2, <2>3
  <2>5. (MarshalJSON(Load(file)) = MarshalJSON(cfg))'
    BY <1>1, <2>2
  <2> QED
    BY <2>4, <2>5 DEF OneAtATime, Busy
<1> QED
  BY <1>4, <1>5 DEF SettingsInv

LEMMA RestartSteps ==
    ASSUME SettingsInv, Restart PROVE SettingsInv'
<1>1. /\ cfg' = Load(file) /\ setter' = [s \in Setters |-> Idle] /\ overlapped' = FALSE
      /\ UNCHANGED << file, tmp >>
  BY DEF Restart
<1>2. Settled(cfg')
  BY <1>1, LoadSettles DEF SettingsInv, SettingsTypeOK
<1>3. Settled(cfg)'
  BY <1>2 DEF Settled, IsConfig, InRange
<1>4. \A s \in Setters : setter'[s] = [pc |-> "idle", next |-> Default]
  BY <1>1 DEF Idle
<1>5. \A s \in Setters : setter'[s].pc = "idle"
  BY <1>4
<1>6. setter' = [s \in Setters |-> [pc |-> setter'[s].pc, next |-> setter'[s].next]]
  BY <1>1, <1>4 DEF Idle
<1>7. (MarshalJSON(Load(file)) = MarshalJSON(cfg))'
  BY <1>1
<1>8. SettingsTypeOK'
  BY <1>1, <1>3, <1>5, <1>6 DEF SettingsInv, SettingsTypeOK, IsFile, Busy
<1>9. OneAtATime'
  BY <1>5, <1>7 DEF OneAtATime, Busy
<1> QED
  BY <1>8, <1>9 DEF SettingsInv

\* The daemon never runs with, and never writes, a setting out of its range, whatever was
\* asked for, wherever a handler stopped and whatever config.json held (config.go,
\* setconfig.go).
THEOREM SettingsInvariant == SettingsSpec => []SettingsInv
<1>1. SettingsInv /\ [SettingsNext]_settingsVars => SettingsInv'
  <2>1. SettingsInv /\ UNCHANGED settingsVars => SettingsInv'
    <3> SUFFICES ASSUME SettingsInv, UNCHANGED settingsVars PROVE SettingsInv'
      OBVIOUS
    <3>1. UNCHANGED << file, tmp, cfg, setter, overlapped >>
      BY DEF settingsVars
    <3>2. Settled(cfg)'
      BY <3>1 DEF SettingsInv, SettingsTypeOK, Settled, IsConfig, InRange
    <3>3. SettingsTypeOK'
      BY <3>1, <3>2 DEF SettingsInv, SettingsTypeOK, IsFile, Busy
    <3>4. OneAtATime'
      BY <3>1 DEF SettingsInv, OneAtATime, Busy
    <3> QED
      BY <3>3, <3>4 DEF SettingsInv
  <2> QED
    BY <2>1, SetSteps, WriteSteps, RenameSteps, FailSteps, StoreSteps, RestartSteps
       DEF SettingsNext
<1> QED
  BY <1>1, SettingsStart, PTL DEF SettingsSpec

\* Settings that were set one at a time survive a restart, and a second writing, reading and
\* repair moves none of them (Normalize, HumanDuration, setConfig, reload).
THEOREM SettingsSurvive == SettingsSpec => []SettingsSurviveRestart
<1>1. SettingsInv => SettingsSurviveRestart
  <2> SUFFICES ASSUME SettingsInv, file # {} PROVE SettingsSurviveRestart
    BY DEF SettingsSurviveRestart
  <2> DEFINE onDisk == MarshalJSON(Load(file))
  <2>1. Settled(cfg) /\ Settled(Load(file))
    BY LoadSettles DEF SettingsInv, SettingsTypeOK
  <2>2. Settled(onDisk) /\ MarshalJSON(onDisk) = onDisk
    BY <2>1, TextSettled, TextStays
  <2>3. ~overlapped /\ (\A s \in Setters : setter[s].pc = "idle") => onDisk = MarshalJSON(cfg)
    BY DEF SettingsInv, OneAtATime
  <2> HIDE DEF onDisk
  <2>4. Normalize(cfg) = cfg /\ Normalize(onDisk) = onDisk
    BY <2>1, <2>2, SettledStays
  <2> QED
    BY <2>2, <2>3, <2>4 DEF SettingsSurviveRestart, onDisk
<1> QED
  BY <1>1, SettingsInvariant, PTL

Level == -1..100
Reading == [lidClosed : BOOLEAN, temp : Int, warn : BOOLEAN, onAC : BOOLEAN, pct : Level]
Sample == [start : Level, end : Level]

-----------------------------------------------------------------------------
(* The valve. *)

\* The type invariant.
ValveTypeOK ==
    /\ reading \in Reading /\ holding \in BOOLEAN /\ cut \in BOOLEAN
    /\ costs \in Seq(Sample)
    /\ night = NoNight
       \/ night \in [pc : {"booked", "running"}, start : 0..100, cost : Nat, expected : Int]

\* The charge that a run may use, and that the valve leaves it.
Budget == IF night.expected > minWakeMarginPct THEN night.expected ELSE minWakeMarginPct

\* A night is on battery, ends within what the run costs of where it began, and began with
\* more than the limit and the budget together; nothing is cut off before it runs.
NightInv ==
    night # NoNight =>
        /\ ~reading.onAC
        /\ night.cost <= night.start /\ night.start - night.cost <= reading.pct
        /\ night.start > Thresholds.low_battery_cutout_pct + Budget
        /\ night.pc = "booked" => ~cut

\* The latch is for what the valve last fired for, and gives way only once that is over.
LatchInv ==
    /\ fired \in [k : {"none", "thermal", "low_battery"}, at : Int] /\ eased \in BOOLEAN
    /\ fired.k = "low_battery" => fired.at <= Thresholds.low_battery_cutout_pct
    /\ latch = "none" => eased
    /\ latch # "none" => fired.k = latch

\* The inductive invariant.
ValveInv ==
    /\ ValveTypeOK /\ NightInv /\ LatchInv
    /\ latch \in {"none", "thermal", "low_battery"} /\ (cut => latch # "none")
    /\ WakeIsWorthIt

-----------------------------------------------------------------------------
\* The readings on which each cutout fires.
LEMMA HazardKinds ==
    ASSUME NEW st
    PROVE  /\ Hazard(st) = "thermal" => st.lidClosed /\ (st.warn \/ (st.temp # NoReading
                                      /\ st.temp >= Thresholds.thermal_cutout_c))
           /\ Hazard(st) = "low_battery" =>
                 st.lidClosed /\ ~st.onAC /\ st.pct >= 0 /\ st.pct <= Thresholds.low_battery_cutout_pct
           /\ Hazard(st) \in {"none", "thermal", "low_battery"}
  BY DEF Hazard

\* A latch gives way only on a reading that shows what it is for to be over.
LEMMA RecoveredEases ==
    ASSUME NEW st \in Reading, NEW f \in [k : {"thermal", "low_battery"}, at : Int],
           f.k = "low_battery" => f.at <= Thresholds.low_battery_cutout_pct,
           Recovered(f.k, st)
    PROVE  Eases(f, st)
<1>1. /\ st.temp \in Int /\ st.pct \in Int /\ f.at \in Int
      /\ Thresholds.thermal_cutout_c \in Int /\ Thresholds.low_battery_cutout_pct \in Int
      /\ Thresholds.cutout_rearm_margin_c \in Int /\ Thresholds.cutout_rearm_margin_pct \in Int
  BY ThresholdsAssumption DEF Reading, Level
<1>2. CASE f.k = "thermal"
  BY <1>1, <1>2 DEF Recovered, Eases
<1>3. CASE f.k = "low_battery"
  BY <1>1, <1>3 DEF Recovered, Eases
<1> QED
  BY <1>2, <1>3

\* When the valve fires, and when its latch gives way, what it last fired for is over.
LEMMA LatchSteps ==
    ASSUME LatchInv, latch \in {"none", "thermal", "low_battery"}, holding \in BOOLEAN,
           NEW st \in Reading, EvaluateCutouts(st)
    PROVE  LatchInv' /\ (latch' \notin {"none", latch} => eased \/ Eases(fired, st))
<1> DEFINE still == latch # "none" /\ ~Recovered(latch, st)
           fires == CutFires(st, still)
<1>1. /\ latch' = IF fires THEN Hazard(st) ELSE IF still THEN latch ELSE "none"
      /\ fired' = IF fires THEN [k |-> Hazard(st), at |-> Measure(st)] ELSE fired
      /\ eased' = (~fires /\ (eased \/ Eases(fired, st)))
  BY DEF EvaluateCutouts
<1>2. fires => ~still /\ Hazard(st) \in {"thermal", "low_battery"}
  BY HazardKinds DEF CutFires
<1> HIDE DEF fires
<1>3. latch # "none" /\ ~still => Eases(fired, st)
  <2> SUFFICES ASSUME latch # "none", ~still PROVE Eases(fired, st)
    OBVIOUS
  <2>1. fired.k = latch /\ latch \in {"thermal", "low_battery"} /\ Recovered(latch, st)
    BY DEF LatchInv
  <2>2. fired \in [k : {"thermal", "low_battery"}, at : Int]
    BY <2>1 DEF LatchInv
  <2> QED
    BY <2>1, <2>2, RecoveredEases DEF LatchInv
<1>4. ~still => eased \/ Eases(fired, st)
  BY <1>3 DEF LatchInv
<1>s. still => latch # "none"
  OBVIOUS
<1> HIDE DEF still
<1>b. eased \in BOOLEAN /\ Eases(fired, st) \in BOOLEAN
  BY DEF LatchInv, Eases, Reading
<1>5. CASE fires
  <2>1. Measure(st) \in Int
    BY DEF Measure, Reading, Level
  <2>2. Hazard(st) = "low_battery" => Measure(st) <= Thresholds.low_battery_cutout_pct
    BY HazardKinds DEF Measure
  <2>3. /\ fired'.k = Hazard(st) /\ fired'.at = Measure(st) /\ latch' = Hazard(st)
        /\ fired' \in [k : {"none", "thermal", "low_battery"}, at : Int]
    BY <1>1, <1>2, <1>5, <2>1
  <2>4. LatchInv'
    BY <1>1, <1>2, <1>5, <2>2, <2>3 DEF LatchInv
  <2> QED
    BY <1>2, <1>4, <1>5, <2>4
<1>6. CASE ~fires
  <2>1. latch' \in {"none", latch} /\ fired' = fired
    BY <1>1, <1>6
  <2>2. eased' \in BOOLEAN /\ (latch' = "none" => eased')
    BY <1>1, <1>4, <1>6, <1>b, <1>s
  <2> QED
    BY <2>1, <2>2 DEF LatchInv
<1> QED
  BY <1>5, <1>6

LEMMA Evaluates ==
    ASSUME NEW st, EvaluateCutouts(st), latch \in {"none", "thermal", "low_battery"}
    PROVE  /\ reading' = st /\ latch' \in {"none", "thermal", "low_battery"}
           /\ cut' = (holding /\ ~(latch # "none" /\ ~Recovered(latch, st)) /\ Hazard(st) # "none")
           /\ cut' => latch' # "none"
           /\ holding' = (holding /\ ~cut') \/ holding' = TRUE
  BY HazardKinds DEF EvaluateCutouts, CutFires

LEMMA ReadingTypes == Readings \subseteq Reading /\ FailedReading \in Reading
<1>1. Levels \cup {Unknown} \subseteq Level /\ Temps \cup {NoReading} \subseteq Int
  BY ReadingsAssumption DEF Level, NoReading, Unknown
<1>2. Readings \subseteq Reading
  BY <1>1 DEF Readings, Reading
<1>3. NoReading \in Int /\ Unknown \in Level
  BY DEF Level, NoReading, Unknown
<1> QED
  BY <1>2, <1>3 DEF FailedReading, Reading

LEMMA Percents ==
    ASSUME NEW n \in 0..100, NEW k \in 0..100, 100 - n <= 100 - k PROVE k <= n
  OBVIOUS

\* A set of natural numbers has a least one: so the costs of the runs have a worst one.
LEMMA Least ==
    ASSUME NEW T, T \subseteq Nat, T # {}
    PROVE  \E m \in T : \A n \in T : m <= n
<1>1. \E m \in T : \A n \in T : ~(<<n, m>> \in OpToRel(<, Nat))
  BY NatLessThanWellFounded, WFMin
<1>2. PICK m \in T : \A n \in T : ~(<<n, m>> \in OpToRel(<, Nat))
  BY <1>1
<1>3. ASSUME NEW n \in T PROVE m <= n
  <2>1. ~(<<n, m>> \in OpToRel(<, Nat))
    BY <1>2
  <2>2. m \in Nat /\ n \in Nat
    OBVIOUS
  <2>3. ~(n < m)
    BY <2>1, <2>2 DEF OpToRel
  <2> QED
    BY <2>2, <2>3
<1> QED
  BY <1>3

\* What a job is expected to use is -1 or what one of its runs used.
LEMMA ExpectedType ==
    ASSUME costs \in Seq(Sample) PROVE expectedDrainPct \in Int
<1> DEFINE recent == IF Len(costs) > DrainWindow
                     THEN SubSeq(costs, Len(costs) - DrainWindow + 1, Len(costs)) ELSE costs
<1>1. recent \in Seq(Sample)
  <2>1. CASE Len(costs) > DrainWindow
    <3>1. Len(costs) \in Nat /\ DrainWindow \in Nat
      BY ReadingsAssumption
    <3>2. \A i \in (Len(costs) - DrainWindow + 1)..Len(costs) : i \in 1..Len(costs)
      BY <3>1, <2>1
    <3>3. \A i \in (Len(costs) - DrainWindow + 1)..Len(costs) : costs[i] \in Sample
      BY <3>2
    <3> QED
      BY <2>1, <3>1, <3>3, SubSeqProperties
  <2> QED
    BY <2>1
<1> DEFINE measured == {i \in DOMAIN recent : /\ recent[i].start >= 0 /\ recent[i].end >= 0
                                              /\ recent[i].start >= recent[i].end}
           used(i) == recent[i].start - recent[i].end
           worst == CHOOSE i \in measured : \A j \in measured : used(j) <= used(i)
<1>d. expectedDrainPct = (IF Cardinality(measured) < minDrainSamples THEN -1 ELSE used(worst))
  BY DEF expectedDrainPct
<1> HIDE DEF recent
<1>2. \A i \in measured : used(i) \in 0..100
  <2>1. \A i \in DOMAIN recent : recent[i] \in Sample
    BY <1>1
  <2>2. \A i \in DOMAIN recent : recent[i].start \in -1..100 /\ recent[i].end \in -1..100
    BY <2>1 DEF Sample, Level
  <2>3. ASSUME NEW i \in measured PROVE used(i) \in 0..100
    <3>1. /\ recent[i].start \in -1..100 /\ recent[i].end \in -1..100
          /\ recent[i].start >= 0 /\ recent[i].end >= 0 /\ recent[i].start >= recent[i].end
      BY <2>2
    <3> DEFINE a == recent[i].start
               b == recent[i].end
    <3>2. a \in -1..100 /\ b \in -1..100 /\ a >= 0 /\ b >= 0 /\ a >= b
      BY <3>1
    <3> HIDE DEF a, b
    <3>3. a - b \in 0..100
      BY <3>2
    <3> QED
      BY <3>3 DEF a, b
  <2> QED
    BY <2>3
<1> HIDE DEF measured
<1>3. CASE measured # {}
  <2> DEFINE spare == {100 - used(i) : i \in measured}
  <2>n. \A n \in 0..100 : 100 - n \in Nat /\ n \in Int
    OBVIOUS
  <2>1. \A i \in measured : 100 - used(i) \in Nat
    BY <1>2, <2>n
  <2>2. spare \subseteq Nat /\ spare # {}
    BY <1>3, <2>1
  <2>3. PICK m \in spare : \A n \in spare : m <= n
    BY <2>2, Least
  <2>4. PICK i \in measured : m = 100 - used(i)
    BY <2>3
  <2>5. ASSUME NEW j \in measured PROVE used(j) <= used(i)
    <3>1. 100 - used(j) \in spare
      OBVIOUS
    <3>2. 100 - used(i) <= 100 - used(j)
      BY <2>3, <2>4, <3>1
    <3>4. used(i) \in 0..100 /\ used(j) \in 0..100
      BY <1>2
    <3> QED
      BY <3>2, <3>4, Percents
  <2>w. worst \in measured
    BY <2>5
  <2>6. used(worst) \in Int
    BY <1>2, <2>n, <2>w, Zenon
  <2> QED
    BY <1>d, <2>6
<1>4. CASE measured = {}
  <2>1. Cardinality(measured) = 0
    BY <1>4, FS_EmptySet
  <2>2. Cardinality(measured) < minDrainSamples
    BY <2>1 DEF minDrainSamples
  <2> QED
    BY <1>d, <2>2
<1> QED
  BY <1>3, <1>4

-----------------------------------------------------------------------------
LEMMA ValveStart == ValveInit => ValveInv
<1> SUFFICES ASSUME ValveInit PROVE ValveInv
  OBVIOUS
<1>1. reading \in Reading /\ costs \in Seq(Sample) /\ night = NoNight
  BY ReadingTypes DEF ValveInit
<1>2. night.pc # "running"
  BY <1>1 DEF NoNight
<1>3. LatchInv
  <2>1. fired = [k |-> "none", at |-> 0] /\ eased = TRUE /\ latch = "none"
    BY DEF ValveInit, NoReading
  <2> QED
    BY <2>1 DEF LatchInv
<1> QED
  BY <1>1, <1>2, <1>3 DEF ValveInit, ValveInv, ValveTypeOK, NightInv, WakeIsWorthIt

LEMMA NightKinds ==
    ASSUME ValveTypeOK
    PROVE  /\ night.pc \in {"none", "booked", "running"}
           /\ night.pc = "none" <=> night = NoNight
           /\ night.pc # "none" => /\ night.start \in 0..100 /\ night.cost \in Nat
                                   /\ night.expected \in Int
  BY DEF ValveTypeOK, NoNight

LEMMA TickSteps == ValveInv /\ Tick => ValveInv'
<1> SUFFICES ASSUME ValveInv, Tick PROVE ValveInv'
  OBVIOUS
<1>1. PICK st \in Readings \cup {FailedReading} : EvaluateCutouts(st)
  BY DEF Tick
<1>2. st \in Reading
  BY ReadingTypes
<1>3. night' = night /\ costs' = costs /\ night = NoNight
  BY DEF Tick
<1>4. /\ reading' = st /\ latch' \in {"none", "thermal", "low_battery"}
      /\ cut' \in BOOLEAN /\ (cut' => latch' # "none") /\ holding' \in BOOLEAN
  BY <1>1, Evaluates DEF ValveInv, ValveTypeOK
<1>5. night'.pc # "running"
  BY <1>3 DEF NoNight
<1>6. LatchInv'
  BY <1>1, <1>2, LatchSteps DEF ValveInv, ValveTypeOK
<1> QED
  BY <1>2, <1>3, <1>4, <1>5, <1>6 DEF ValveInv, ValveTypeOK, NightInv, WakeIsWorthIt, NoNight

LEMMA HandlerSteps == ValveInv /\ HandlerHold => ValveInv'
<1> SUFFICES ASSUME ValveInv, HandlerHold PROVE ValveInv'
  OBVIOUS
<1>1. /\ night = NoNight /\ holding' = ~holding
      /\ UNCHANGED << reading, latch, cut, night, costs, fired, eased >>
  BY DEF HandlerHold
<1>2. night'.pc # "running"
  BY <1>1 DEF NoNight
<1> QED
  BY <1>1, <1>2 DEF ValveInv, ValveTypeOK, NightInv, LatchInv, WakeIsWorthIt, NoNight

LEMMA BookSteps == ValveInv /\ BookWake => ValveInv'
<1> SUFFICES ASSUME ValveInv, BookWake PROVE ValveInv'
  OBVIOUS
<1>1. /\ latch = "none" /\ ~reading.onAC /\ reading.pct >= 0
      /\ ShouldScheduleWake(reading, expectedDrainPct)
      /\ UNCHANGED << reading, latch, holding, cut, costs, fired, eased >>
  BY DEF BookWake
<1>2. PICK c \in Costs :
         /\ reading.pct - c >= 0
         /\ night' = [pc |-> "booked", start |-> reading.pct, cost |-> c,
                      expected |-> expectedDrainPct]
  BY DEF BookWake
<1>3. expectedDrainPct \in Int /\ c \in Nat /\ reading.pct \in 0..100
  <2>1. reading.pct \in -1..100
    BY DEF ValveInv, ValveTypeOK, Reading, Level
  <2>2. reading.pct \in 0..100
    BY <1>1, <2>1
  <2> QED
    BY <2>2, ExpectedType, ReadingsAssumption DEF ValveInv, ValveTypeOK
<1>4. /\ night'.pc = "booked" /\ night'.start = reading.pct /\ night'.cost = c
      /\ night'.expected = expectedDrainPct
  BY <1>2
<1>5. reading.pct > wakeFloor(expectedDrainPct)
  BY <1>1, <1>3 DEF ShouldScheduleWake
<1>6. wakeFloor(expectedDrainPct) = Thresholds.low_battery_cutout_pct + Budget'
  BY <1>4 DEF wakeFloor, Budget
<1>7. ~cut
  BY <1>1 DEF ValveInv
<1>8. NightInv'
  BY <1>1, <1>2, <1>3, <1>4, <1>5, <1>6, <1>7 DEF NightInv, Budget
<1>9. ValveTypeOK'
  BY <1>1, <1>2, <1>3 DEF ValveInv, ValveTypeOK
<1> QED
  BY <1>1, <1>4, <1>8, <1>9 DEF ValveInv, LatchInv, WakeIsWorthIt

LEMMA WakeSteps == ValveInv /\ WakeUp => ValveInv'
<1> SUFFICES ASSUME ValveInv, WakeUp PROVE ValveInv'
  OBVIOUS
<1>1. /\ night.pc = "booked" /\ night' = [night EXCEPT !.pc = "running"] /\ holding' = TRUE
      /\ UNCHANGED << reading, latch, cut, costs, fired, eased >>
  BY DEF WakeUp
<1>2. night # NoNight
  BY <1>1 DEF NoNight
<1>3. /\ night' \in [pc : {"booked", "running"}, start : 0..100, cost : Nat, expected : Int]
      /\ night'.pc = "running" /\ night'.start = night.start /\ night'.cost = night.cost
      /\ night'.expected = night.expected
  BY <1>1, <1>2 DEF ValveInv, ValveTypeOK
<1>4. ~cut
  BY <1>1, <1>2 DEF ValveInv, NightInv
<1>5. NightInv'
  BY <1>1, <1>2, <1>3 DEF ValveInv, NightInv, Budget
<1> QED
  BY <1>1, <1>3, <1>4, <1>5 DEF ValveInv, ValveTypeOK, LatchInv, WakeIsWorthIt

\* A run that costs no more than it was given never brings the battery to the limit.
LEMMA RunSteps == ValveInv /\ RunTick => ValveInv'
<1> SUFFICES ASSUME ValveInv, RunTick PROVE ValveInv'
  OBVIOUS
<1> DEFINE st == [reading EXCEPT !.lidClosed = TRUE, !.temp = NoReading, !.warn = FALSE,
                                 !.pct = reading.pct - 1]
<1>1. /\ night.pc = "running" /\ reading.pct > night.start - night.cost
      /\ EvaluateCutouts(st) /\ UNCHANGED << night, costs >>
  BY DEF RunTick
<1>2. night # NoNight /\ night.start \in 0..100 /\ night.cost \in Nat /\ night.expected \in Int
  BY <1>1, NightKinds DEF NoNight, ValveInv
<1>3. /\ reading \in Reading /\ reading.pct \in Int /\ reading.pct <= 100
      /\ ~reading.onAC /\ night.cost <= night.start
      /\ night.start > Thresholds.low_battery_cutout_pct + Budget
  <2>1. reading \in Reading /\ reading.pct \in Level
    BY DEF ValveInv, ValveTypeOK, Reading
  <2>2. reading.pct \in Int /\ reading.pct <= 100
    BY <2>1 DEF Level
  <2>3. /\ ~reading.onAC /\ night.cost <= night.start
        /\ night.start > Thresholds.low_battery_cutout_pct + Budget
    BY <1>2 DEF ValveInv, NightInv
  <2> QED
    BY <2>1, <2>2, <2>3
<1>4. /\ st.lidClosed /\ st.temp = NoReading /\ ~st.warn /\ st.onAC = reading.onAC
      /\ st.pct = reading.pct - 1
  BY <1>3 DEF Reading
<1>5. night.start - night.cost <= st.pct /\ st.pct >= 0 /\ st.pct \in Level
  <2>1. \A s \in 0..100, c \in Nat, p \in Int :
          p > s - c /\ c <= s /\ p <= 100 => s - c <= p - 1 /\ p - 1 >= 0 /\ p - 1 \in -1..100
    OBVIOUS
  <2>2. night.start - night.cost <= reading.pct - 1 /\ reading.pct - 1 >= 0
        /\ reading.pct - 1 \in -1..100
    BY <1>1, <1>2, <1>3, <2>1
  <2> QED
    BY <1>4, <2>2 DEF Level
<1>6. st \in Reading
  <2>1. NoReading \in Int /\ reading.pct - 1 \in Level
    BY <1>4, <1>5 DEF NoReading
  <2> QED
    BY <1>3, <2>1 DEF Reading
<1> HIDE DEF st
<1>7. /\ reading' = st /\ latch' \in {"none", "thermal", "low_battery"}
      /\ cut' \in BOOLEAN /\ (cut' => latch' # "none") /\ holding' \in BOOLEAN
      /\ cut' => Hazard(st) # "none"
  BY <1>1, Evaluates DEF ValveInv, ValveTypeOK
<1>8. ASSUME night.cost <= night.expected \/ night.cost <= minWakeMarginPct PROVE ~cut'
  <2>1. night.cost <= Budget /\ Budget \in Int
    BY <1>2, <1>8 DEF Budget, minWakeMarginPct
  <2>2. st.pct > Thresholds.low_battery_cutout_pct
    <3>1. night.start \in Int /\ night.cost \in Int /\ st.pct \in Int
          /\ Thresholds.low_battery_cutout_pct \in Int
      BY <1>2, <1>5, ThresholdsAssumption DEF Level
    <3> QED
      BY <1>3, <1>5, <2>1, <3>1
  <2>3. Hazard(st) # "thermal"
    BY <1>4, HazardKinds
  <2>4. Hazard(st) # "low_battery"
    BY <1>5, <2>2, HazardKinds, ThresholdsAssumption DEF Level
  <2> QED
    BY <1>7, <2>3, <2>4, HazardKinds
<1>9. NightInv'
  <2>1. night'.pc # "booked"
    BY <1>1
  <2> QED
    BY <1>1, <1>2, <1>3, <1>4, <1>5, <1>7, <2>1 DEF NightInv, Budget, NoNight
<1>10. ValveTypeOK'
  BY <1>1, <1>6, <1>7 DEF ValveInv, ValveTypeOK, NoNight
<1>11. LatchInv'
  BY <1>1, <1>6, LatchSteps DEF ValveInv, ValveTypeOK
<1> QED
  BY <1>1, <1>7, <1>8, <1>9, <1>10, <1>11 DEF ValveInv, WakeIsWorthIt

LEMMA EndSteps == ValveInv /\ NightEnds => ValveInv'
<1> SUFFICES ASSUME ValveInv, NightEnds PROVE ValveInv'
  OBVIOUS
<1>1. /\ night.pc = "running" /\ night' = NoNight /\ holding' = FALSE
      /\ UNCHANGED << reading, latch, cut, fired, eased >>
  BY DEF NightEnds
<1>2. night.start \in Level /\ reading.pct \in Level /\ Unknown \in Level
  <2>1. night.start \in 0..100
    BY <1>1, NightKinds DEF ValveInv
  <2> QED
    BY <2>1 DEF ValveInv, ValveTypeOK, Reading, Level, Unknown
<1>3. [start |-> night.start, end |-> reading.pct] \in Sample
      /\ [start |-> Unknown, end |-> reading.pct] \in Sample
  BY <1>2 DEF Sample
<1>4. costs' \in Seq(Sample)
  BY <1>3 DEF NightEnds, ValveInv, ValveTypeOK
<1>5. night'.pc # "running"
  BY <1>1 DEF NoNight
<1> QED
  BY <1>1, <1>4, <1>5 DEF ValveInv, ValveTypeOK, NightInv, LatchInv, WakeIsWorthIt, NoNight

\* The valve's state has its types, a cutout that fired has left its latch engaged, and the
\* latch gives way only once what the valve fired for is over (evaluateCutouts, CutoutLatch).
THEOREM ValveInvariant == ValveSpec => []ValveInv
<1>1. ValveInv /\ [ValveNext]_valveVars => ValveInv'
  <2>1. ValveInv /\ UNCHANGED valveVars => ValveInv'
    BY DEF valveVars, ValveInv, ValveTypeOK, NightInv, LatchInv, WakeIsWorthIt, Budget, NoNight
  <2> QED
    BY <2>1, TickSteps, HandlerSteps, BookSteps, WakeSteps, RunSteps, EndSteps DEF ValveNext
<1> QED
  BY <1>1, ValveStart, PTL DEF ValveSpec

\* A run for which the machine was woken is never cut off for its charge, if it costs no more
\* than it was expected to, whatever the readings between (ShouldScheduleWake, drain.go).
THEOREM WakesAreWorthIt == ValveSpec => []WakeIsWorthIt
<1>1. ValveInv => WakeIsWorthIt
  BY DEF ValveInv
<1> QED
  BY <1>1, ValveInvariant, PTL

\* Between two cutouts a reading has shown what the first fired for to be over, whatever holds
\* are opened past the latch and whatever is read (CutoutLatch.Update, evaluateCutouts).
THEOREM LatchesHold == ValveSpec => NoFlapping
<1>1. ValveInv /\ ValveInv' /\ [ValveNext]_valveVars =>
        [latch' \notin {"none", latch} => eased \/ Eases(fired, reading')]_valveVars
  <2> SUFFICES ASSUME ValveInv, ValveInv', ValveNext, latch' \notin {"none", latch}
               PROVE  eased \/ Eases(fired, reading')
    OBVIOUS
  <2>1. PICK st : EvaluateCutouts(st)
    BY DEF ValveNext, Tick, RunTick, HandlerHold, BookWake, WakeUp, NightEnds
  <2>2. reading' = st /\ st \in Reading
    BY <2>1 DEF EvaluateCutouts, ValveInv, ValveTypeOK
  <2> QED
    BY <2>1, <2>2, LatchSteps DEF ValveInv, ValveTypeOK
<1> QED
  BY <1>1, ValveInvariant, PTL DEF ValveSpec, NoFlapping

-----------------------------------------------------------------------------
(* Learning: the n-th of the sorted durations. *)

IsDurations(d) == IsFiniteSet(DOMAIN d) /\ \A i \in DOMAIN d : d[i] \in Nat

LEMMA Counts ==
    ASSUME NEW d, IsDurations(d)
    PROVE  /\ Size(d) \in Nat /\ (Size(d) = 0 <=> DOMAIN d = {})
           /\ \A S \in SUBSET DOMAIN d :
                 IsFiniteSet(S) /\ Cardinality(S) \in 0..Size(d) /\ (S # {} => Cardinality(S) > 0)
           /\ \A S, T \in SUBSET DOMAIN d : S \subseteq T => Cardinality(S) <= Cardinality(T)
           /\ \A S, T \in SUBSET DOMAIN d :
                 S \subseteq T /\ S # T => Cardinality(S) < Cardinality(T)
<1>1. IsFiniteSet(DOMAIN d) /\ Size(d) \in Nat
  BY FS_CardinalityType DEF IsDurations, Size
<1>2. \A S \in SUBSET DOMAIN d : IsFiniteSet(S) /\ Cardinality(S) \in Nat
                                 /\ Cardinality(S) <= Size(d)
  BY <1>1, FS_Subset, FS_CardinalityType DEF Size
<1>3. \A S \in SUBSET DOMAIN d : S # {} => Cardinality(S) # 0
  BY <1>2, FS_EmptySet
<1>4. \A S, T \in SUBSET DOMAIN d : S \subseteq T =>
         Cardinality(S) <= Cardinality(T) /\ (Cardinality(T) = Cardinality(S) => S = T)
  BY <1>2, FS_Subset
<1>5. Size(d) = 0 <=> DOMAIN d = {}
  BY <1>1, FS_EmptySet DEF Size
<1> QED
  BY <1>1, <1>2, <1>3, <1>4, <1>5

LEMMA CountedSets ==
    ASSUME NEW d, NEW v
    PROVE  AtMost(d, v) \in SUBSET DOMAIN d /\ Below(d, v) \in SUBSET DOMAIN d
  BY DEF AtMost, Below

LEMMA GreatestOf ==
    ASSUME NEW d, IsDurations(d), NEW S \in SUBSET DOMAIN d, S # {}
    PROVE  \E k \in S : \A i \in S : d[i] <= d[k]
<1> DEFINE T == {Size(d) - Cardinality(AtMost(d, d[i])) : i \in S}
<1>1. T \subseteq Nat /\ T # {}
  BY Counts, CountedSets
<1>2. PICK m \in T : \A n \in T : m <= n
  <2> HIDE DEF T
  <2> QED
    BY <1>1, Least
<1>3. PICK k \in S : m = Size(d) - Cardinality(AtMost(d, d[k]))
  BY <1>2
<1>4. ASSUME NEW i \in S PROVE d[i] <= d[k]
  <2> SUFFICES ASSUME ~(d[i] <= d[k]) PROVE FALSE
    OBVIOUS
  <2>1. d[i] \in Nat /\ d[k] \in Nat /\ \A x \in DOMAIN d : d[x] \in Nat
    BY DEF IsDurations
  <2>2. AtMost(d, d[k]) \subseteq AtMost(d, d[i])
    BY <2>1 DEF AtMost
  <2>3. i \in AtMost(d, d[i]) /\ i \notin AtMost(d, d[k])
    BY <2>1 DEF AtMost
  <2>4. Cardinality(AtMost(d, d[k])) < Cardinality(AtMost(d, d[i]))
    BY <2>2, <2>3, Counts, CountedSets
  <2>5. Size(d) - Cardinality(AtMost(d, d[i])) \in T
    OBVIOUS
  <2>6. m <= Size(d) - Cardinality(AtMost(d, d[i]))
    BY <1>2, <2>5
  <2>7. /\ Size(d) \in Nat /\ Cardinality(AtMost(d, d[k])) \in Nat
        /\ Cardinality(AtMost(d, d[i])) \in Nat
    BY Counts, CountedSets
  <2> QED
    BY <1>3, <2>4, <2>6, <2>7
<1> QED
  BY <1>4

\* There is an n-th of the durations, one of them: fewer than n are below it, at least n not above.
LEMMA SortedIs ==
    ASSUME NEW d, IsDurations(d), NEW n \in 1..Size(d)
    PROVE  /\ Sorted(d, n) \in Nat
           /\ Cardinality(Below(d, Sorted(d, n))) < n
           /\ n <= Cardinality(AtMost(d, Sorted(d, n)))
<1> DEFINE T == {v \in Range(d) : n <= Cardinality(AtMost(d, v))}
<1>1. Range(d) \subseteq Nat /\ \A x \in DOMAIN d : d[x] \in Nat /\ d[x] \in Range(d)
  BY DEF IsDurations, Range
<1>2. DOMAIN d # {} /\ n \in Nat /\ n <= Size(d)
  BY Counts
<1>3. PICK k \in DOMAIN d : \A i \in DOMAIN d : d[i] <= d[k]
  BY <1>2, GreatestOf
<1>4. AtMost(d, d[k]) = DOMAIN d
  BY <1>3 DEF AtMost
<1>5. d[k] \in T
  BY <1>1, <1>2, <1>4 DEF Size
<1>6. PICK v \in T : \A u \in T : v <= u
  <2>1. T \subseteq Nat /\ T # {}
    BY <1>1, <1>5
  <2> HIDE DEF T
  <2> QED
    BY <2>1, Least
<1>7. Cardinality(Below(d, v)) < n
  <2> SUFFICES ASSUME ~(Cardinality(Below(d, v)) < n) PROVE FALSE
    OBVIOUS
  <2>1. Below(d, v) # {}
    BY <1>2, FS_EmptySet
  <2>2. PICK x \in Below(d, v) : \A i \in Below(d, v) : d[i] <= d[x]
    BY <2>1, GreatestOf, CountedSets
  <2>3. x \in DOMAIN d /\ d[x] < v /\ d[x] \in Nat /\ v \in Nat
    BY <1>1, <2>2 DEF Below
  <2>4. Below(d, v) = AtMost(d, d[x])
    BY <1>1, <2>2, <2>3 DEF Below, AtMost
  <2>5. Cardinality(Below(d, v)) \in Nat
    BY Counts, CountedSets
  <2>6. d[x] \in T
    BY <1>1, <1>2, <2>3, <2>4, <2>5
  <2> QED
    BY <1>6, <2>3, <2>6
<1>8. v \in Range(d) /\ n <= Cardinality(AtMost(d, v)) /\ v \in Nat
  BY <1>1, <1>6
<1>9. /\ Sorted(d, n) \in Range(d) /\ Cardinality(Below(d, Sorted(d, n))) < n
      /\ n <= Cardinality(AtMost(d, Sorted(d, n)))
  BY <1>7, <1>8 DEF Sorted
<1> QED
  BY <1>1, <1>9

LEMMA SortedAscends ==
    ASSUME NEW d, IsDurations(d), NEW m \in 1..Size(d), NEW n \in 1..Size(d), m <= n
    PROVE  Sorted(d, m) <= Sorted(d, n)
<1> DEFINE v == Sorted(d, m)
           w == Sorted(d, n)
<1>1. v \in Nat /\ w \in Nat /\ Cardinality(Below(d, v)) < m /\ n <= Cardinality(AtMost(d, w))
  BY SortedIs
<1>2. m \in Nat /\ n \in Nat
  BY Counts
<1>3. \A x \in DOMAIN d : d[x] \in Nat
  BY DEF IsDurations
<1> HIDE DEF v, w
<1>4. ASSUME w < v PROVE FALSE
  <2>1. AtMost(d, w) \subseteq Below(d, v)
    BY <1>1, <1>3, <1>4 DEF AtMost, Below
  <2>2. /\ Cardinality(AtMost(d, w)) <= Cardinality(Below(d, v))
        /\ Cardinality(AtMost(d, w)) \in Nat /\ Cardinality(Below(d, v)) \in Nat
    BY <2>1, Counts, CountedSets
  <2> QED
    BY <1>1, <1>2, <2>2
<1> QED
  BY <1>1, <1>4 DEF v, w

\* Of the durations, at most one in twenty is above the 95th percentile.
LEMMA PercentileCovers ==
    ASSUME NEW d, IsDurations(d)
    PROVE  /\ percentile(d, 95) \in Nat
           /\ \A c \in Int : percentile(d, 95) <= c =>
                 20 * Cardinality({i \in DOMAIN d : d[i] > c}) <= Size(d)
<1>1. CASE DOMAIN d = {}
  <2>1. percentile(d, 95) = 0
    BY <1>1 DEF percentile
  <2>2. \A c : {i \in DOMAIN d : d[i] > c} = {}
    BY <1>1
  <2>3. Size(d) = 0 /\ Cardinality({}) = 0
    BY <1>1, Counts, FS_EmptySet
  <2> QED
    BY <2>1, <2>2, <2>3
<1>2. CASE DOMAIN d # {}
  <2> DEFINE N == Size(d)
             n == (95 * N + 99) \div 100
  <2>1. N \in Nat /\ N >= 1
    BY <1>2, Counts
  <2>2. n \in 1..N /\ 20 * (N - n) <= N
    <3> HIDE DEF N
    <3> QED
      BY <2>1
  <2>3. percentile(d, 95) = Sorted(d, n)
    <3>1. percentile(d, 95) = Sorted(d, IF n < 1 THEN 1 ELSE IF n > N THEN N ELSE n)
      BY <1>2 DEF percentile
    <3> HIDE DEF n
    <3> QED
      BY <2>1, <2>2, <3>1
  <2> DEFINE p == Sorted(d, n)
  <2>4. p \in Nat /\ n <= Cardinality(AtMost(d, p))
    BY <2>2, SortedIs
  <2>5. ASSUME NEW c \in Int, p <= c
        PROVE  20 * Cardinality({i \in DOMAIN d : d[i] > c}) <= N
    <3> DEFINE L == {i \in DOMAIN d : d[i] > c}
    <3> HIDE DEF p
    <3>1. \A x \in DOMAIN d : d[x] \in Nat
      BY DEF IsDurations
    <3>2. L \subseteq DOMAIN d \ AtMost(d, p)
      BY <2>4, <2>5, <3>1 DEF AtMost
    <3> HIDE DEF L
    <3>3. /\ IsFiniteSet(DOMAIN d \ AtMost(d, p))
          /\ Cardinality(DOMAIN d \ AtMost(d, p)) = N - Cardinality(AtMost(d, p))
      <4>1. IsFiniteSet(DOMAIN d) /\ DOMAIN d \cap AtMost(d, p) = AtMost(d, p)
        BY CountedSets DEF IsDurations
      <4> QED
        BY <4>1, FS_Difference DEF Size
    <3>4. Cardinality(L) <= N - Cardinality(AtMost(d, p)) /\ Cardinality(L) \in Nat
      <4>1. L \in SUBSET DOMAIN d
        BY <3>2
      <4>2. Cardinality(L) \in Nat
        BY <4>1, Counts
      <4> QED
        BY <3>2, <3>3, <4>2, FS_Subset
    <3>5. Cardinality(AtMost(d, p)) \in Nat
      BY Counts, CountedSets
    <3>6. 20 * Cardinality(L) <= N
      <4> HIDE DEF N, n
      <4> QED
        BY <2>1, <2>2, <2>4, <3>4, <3>5
    <3> QED
      BY <3>6 DEF L
  <2> QED
    BY <2>3, <2>4, <2>5
<1> QED
  BY <1>1, <1>2

\* The median is one of the lower durations, or lies between two of them.
LEMMA MedianIsTypical ==
    ASSUME NEW d, IsDurations(d)
    PROVE  medianOf(d) \in Nat /\ medianOf(d) <= percentile(d, 95)
<1>1. CASE DOMAIN d = {}
  BY <1>1 DEF medianOf, percentile
<1>2. CASE DOMAIN d # {}
  <2> DEFINE N == Size(d)
             n == (95 * N + 99) \div 100
             mid == (N \div 2) + 1
  <2>1. N \in Nat /\ N >= 1
    BY <1>2, Counts
  <2>2. n \in 1..N /\ mid \in 1..N /\ mid <= n
    <3> HIDE DEF N
    <3> QED
      BY <2>1
  <2>3. percentile(d, 95) = Sorted(d, n)
    <3>1. percentile(d, 95) = Sorted(d, IF n < 1 THEN 1 ELSE IF n > N THEN N ELSE n)
      BY <1>2 DEF percentile
    <3> HIDE DEF n
    <3> QED
      BY <2>1, <2>2, <3>1
  <2>4. Sorted(d, mid) \in Nat /\ Sorted(d, n) \in Nat /\ Sorted(d, mid) <= Sorted(d, n)
    BY <2>2, SortedIs, SortedAscends
  <2>5. CASE N % 2 = 1
    <3>1. medianOf(d) = Sorted(d, mid)
      BY <1>2, <2>5 DEF medianOf
    <3> QED
      BY <2>3, <2>4, <3>1
  <2>6. CASE N % 2 # 1
    <3>1. medianOf(d) = (Sorted(d, mid - 1) + Sorted(d, mid)) \div 2
      BY <1>2, <2>6 DEF medianOf
    <3>2. mid - 1 \in 1..N /\ mid - 1 <= mid
      <4> HIDE DEF N
      <4> QED
        BY <2>1, <2>6
    <3>3. Sorted(d, mid - 1) \in Nat /\ Sorted(d, mid - 1) <= Sorted(d, mid)
      BY <2>2, <3>2, SortedIs, SortedAscends
    <3>4. \A a, b, c \in Nat : a <= b /\ b <= c => (a + b) \div 2 \in Nat /\ (a + b) \div 2 <= c
      OBVIOUS
    <3> HIDE DEF mid, n
    <3> QED
      BY <2>3, <2>4, <3>1, <3>3, <3>4
  <2> QED
    BY <2>5, <2>6
<1> QED
  BY <1>1, <1>2

\* What is learned is at least the percentile, under any multiplier the settings allow.
LEMMA HeadroomIsAdded ==
    ASSUME NEW p \in Nat, NEW m \in Nat, m >= 100
    PROVE  (p * m) \div 100 \in Nat /\ p <= (p * m) \div 100
<1> DEFINE e == m - 100
<1>1. e \in Nat /\ m = 100 + e
  OBVIOUS
<1> HIDE DEF e
<1>2. p * m = p * 100 + p * e
  BY <1>1
<1>3. p * e \in Nat
  BY <1>1
<1> DEFINE x == p * e
<1>4. p * m = 100 * p + x /\ x \in Nat
  BY <1>2, <1>3
<1> HIDE DEF x
<1>5. (100 * p + x) \div 100 \in Nat /\ p <= (100 * p + x) \div 100
  BY <1>4
<1> QED
  BY <1>4, <1>5

-----------------------------------------------------------------------------
(* Learning: what a history teaches. *)

Outcomes == {"ok", "failed", "ceiling", "cutout", "never_detected", "slept"}
Runs == [detection : Modes, outcome : Outcomes, duration : Nat]
IsHistory(h) == IsFiniteSet(DOMAIN h) /\ \A i \in DOMAIN h : h[i].duration \in Nat

LearningInv == job \in Job /\ runs \in Seq(Runs)

LEMMA Limited ==
    /\ Limits.min_runs_for_estimate \in Nat \ {0}
    /\ Limits.default_ceiling \in Nat /\ Limits.wake_only_hold \in Nat
    /\ Limits.min_ceiling \in Nat /\ Limits.max_ceiling \in Nat
    /\ Limits.ceiling_multiplier \in Nat /\ Limits.ceiling_multiplier >= 100
<1>1. /\ Limits["default_ceiling"] \in Nat /\ Limits["wake_only_hold"] \in Nat
      /\ Limits["min_ceiling"] \in Nat /\ Limits["max_ceiling"] \in Nat
  BY LimitsAssumption
<1> QED
  BY <1>1, LimitsAssumption

LEMMA HistoryIs == ASSUME NEW h \in Seq(Runs) PROVE IsHistory(h)
<1>1. DOMAIN h = 1..Len(h) /\ Len(h) \in Nat
  OBVIOUS
<1>2. \A i \in DOMAIN h : h[i] \in Runs
  OBVIOUS
<1> QED
  BY <1>1, <1>2, FS_Interval DEF IsHistory, Runs

LEMMA OwnIs == ASSUME NEW j, NEW h, IsHistory(h) PROVE IsHistory(OwnHistory(j, h))
<1> DEFINE S == {i \in DOMAIN h : h[i].detection = j.detection}
<1>1. IsFiniteSet(S)
  BY FS_Subset DEF IsHistory
<1>2. IsHistory(Restrict(h, S))
  BY <1>1 DEF IsHistory, Restrict
<1> QED
  BY <1>2 DEF OwnHistory

LEMMA CompletedIs == ASSUME NEW h, IsHistory(h) PROVE IsDurations(completedDurations(h))
<1> DEFINE S == {k \in DOMAIN h : TrainsEstimator(h[k]) /\ h[k].duration > 0}
<1>1. S \in SUBSET DOMAIN h
  OBVIOUS
<1>2. IsFiniteSet(S)
  BY <1>1, FS_Subset DEF IsHistory
<1>3. completedDurations(h) = [i \in S |-> h[i].duration]
  BY DEF completedDurations
<1> HIDE DEF S
<1> QED
  BY <1>1, <1>2, <1>3 DEF IsHistory, IsDurations

LEMMA RecentIs == ASSUME NEW d, NEW n, IsDurations(d) PROVE IsDurations(Recent(d, n))
<1> DEFINE S == {i \in DOMAIN d : Cardinality({k \in DOMAIN d : k > i}) < n}
<1>1. S \in SUBSET DOMAIN d
  OBVIOUS
<1>2. IsFiniteSet(S)
  BY <1>1, FS_Subset DEF IsDurations
<1>3. Recent(d, n) = [i \in S |-> d[i]]
  BY DEF Recent, Restrict
<1> HIDE DEF S
<1> QED
  BY <1>1, <1>2, <1>3 DEF IsDurations

\* The three things that Compute can answer.
All(j, h) == completedDurations(OwnHistory(j, h))
Durs(j, h) == Recent(All(j, h), Limits.history_window)
Unlearned(j, h) == ~Observable(j) /\ ~hasUsableHistory(OwnHistory(j, h))
Learned(j, h) == (percentile(Durs(j, h), 95) * Limits.ceiling_multiplier) \div 100
Clamp(v) == clamp(v, Limits.min_ceiling, Limits.max_ceiling)

LEMMA Answers ==
    ASSUME NEW j, NEW h
    PROVE  /\ Unlearned(j, h) =>
                 /\ Compute(j, h).ceiling = IF j.maxRuntime > 0 THEN j.maxRuntime
                                            ELSE Limits.wake_only_hold
                 /\ Compute(j, h).typical = 0 /\ Compute(j, h).p95 = 0
           /\ ~Unlearned(j, h) /\ j.maxRuntime > 0 =>
                 /\ Compute(j, h).ceiling = j.maxRuntime
                 /\ Compute(j, h).typical = medianOf(All(j, h))
                 /\ Compute(j, h).p95 = percentile(All(j, h), 95)
           /\ ~Unlearned(j, h) /\ ~(j.maxRuntime > 0) =>
                 /\ Compute(j, h).ceiling =
                       IF Size(Durs(j, h)) < Limits.min_runs_for_estimate
                       THEN Limits.default_ceiling ELSE Clamp(Learned(j, h))
                 /\ Compute(j, h).coldStart = (Size(Durs(j, h)) < Limits.min_runs_for_estimate)
                 /\ Compute(j, h).typical = medianOf(Durs(j, h))
                 /\ Compute(j, h).p95 = percentile(Durs(j, h), 95)
<1>1. ASSUME Unlearned(j, h)
      PROVE  /\ Compute(j, h).ceiling = IF j.maxRuntime > 0 THEN j.maxRuntime
                                        ELSE Limits.wake_only_hold
             /\ Compute(j, h).typical = 0 /\ Compute(j, h).p95 = 0
  BY <1>1 DEF Unlearned, Compute
<1>2. ASSUME ~Unlearned(j, h), j.maxRuntime > 0
      PROVE  /\ Compute(j, h).ceiling = j.maxRuntime
             /\ Compute(j, h).typical = medianOf(All(j, h))
             /\ Compute(j, h).p95 = percentile(All(j, h), 95)
  BY <1>2 DEF Unlearned, Compute, All
<1>3. ASSUME ~Unlearned(j, h), ~(j.maxRuntime > 0)
      PROVE  /\ Compute(j, h).ceiling =
                   IF Size(Durs(j, h)) < Limits.min_runs_for_estimate
                   THEN Limits.default_ceiling ELSE Clamp(Learned(j, h))
             /\ Compute(j, h).coldStart = (Size(Durs(j, h)) < Limits.min_runs_for_estimate)
             /\ Compute(j, h).typical = medianOf(Durs(j, h))
             /\ Compute(j, h).p95 = percentile(Durs(j, h), 95)
  BY <1>3 DEF Unlearned, Compute, All, Durs, Clamp, Learned
<1> QED
  BY <1>1, <1>2, <1>3

LEMMA LearnedIs ==
    ASSUME NEW j, NEW h, IsHistory(h)
    PROVE  /\ Learned(j, h) \in Nat /\ percentile(Durs(j, h), 95) <= Learned(j, h)
           /\ percentile(Durs(j, h), 95) \in Nat
<1>1. IsDurations(Durs(j, h))
  BY OwnIs, CompletedIs, RecentIs DEF Durs, All
<1>2. percentile(Durs(j, h), 95) \in Nat
  BY <1>1, PercentileCovers
<1> QED
  BY <1>2, HeadroomIsAdded, Limited DEF Learned

LEMMA CeilingIs ==
    ASSUME NEW j \in Job, NEW h, IsHistory(h)
    PROVE  Compute(j, h).ceiling \in Nat
<1>1. j.maxRuntime \in Nat
  BY RuntimesAssumption DEF Job
<1>2. Clamp(Learned(j, h)) \in Nat
  BY LearnedIs, Limited DEF Clamp, clamp
<1> QED
  BY <1>1, <1>2, Answers, Limited

\* ... and no run that does not train the estimator changes any of it.
LEMMA SameLessons ==
    ASSUME NEW h \in Seq(Runs), NEW r \in Runs, NEW j, ~TrainsEstimator(r)
    PROVE  All(j, Append(h, r)) = All(j, h)
<1> DEFINE g == Append(h, r)
<1>1. /\ DOMAIN h = 1..Len(h) /\ DOMAIN g = 1..(Len(h) + 1) /\ Len(h) \in Nat
      /\ g[Len(h) + 1] = r /\ \A i \in DOMAIN h : g[i] = h[i]
  OBVIOUS
<1> HIDE DEF g
<1>2. CASE Observable(j)
  <2>1. {k \in DOMAIN g : TrainsEstimator(g[k]) /\ g[k].duration > 0}
          = {k \in DOMAIN h : TrainsEstimator(h[k]) /\ h[k].duration > 0}
    BY <1>1
  <2>2. completedDurations(g) = completedDurations(h)
    BY <1>1, <2>1 DEF completedDurations
  <2> QED
    BY <1>2, <2>2 DEF All, OwnHistory, g
<1>3. CASE ~Observable(j)
  <2> DEFINE S == {i \in DOMAIN h : h[i].detection = j.detection}
             U == {i \in DOMAIN g : g[i].detection = j.detection}
             a == Restrict(h, S)
             b == Restrict(g, U)
  <2>1. /\ DOMAIN a = S /\ DOMAIN b = U /\ \A i \in S : a[i] = h[i]
        /\ \A i \in U : b[i] = g[i]
    BY DEF Restrict
  <2>2. S \subseteq U /\ (\A i \in U : i \in S \/ i = Len(h) + 1) /\ S \subseteq DOMAIN h
    BY <1>1
  <2> HIDE DEF S, U, a, b
  <2>3. {k \in DOMAIN b : TrainsEstimator(b[k]) /\ b[k].duration > 0}
          = {k \in DOMAIN a : TrainsEstimator(a[k]) /\ a[k].duration > 0}
    BY <1>1, <2>1, <2>2
  <2>4. \A k \in DOMAIN a : a[k] = b[k]
    BY <1>1, <2>1, <2>2
  <2>5. completedDurations(b) = completedDurations(a)
    BY <2>3, <2>4 DEF completedDurations
  <2> QED
    BY <1>3, <2>5 DEF All, OwnHistory, g, a, b, S, U
<1> QED
  BY <1>2, <1>3

LEMMA SameCeiling ==
    ASSUME NEW h, NEW g, NEW j, All(j, g) = All(j, h)
    PROVE  Compute(j, g).ceiling = Compute(j, h).ceiling
<1>1. Durs(j, g) = Durs(j, h) /\ Learned(j, g) = Learned(j, h)
  BY DEF Durs, Learned
<1>2. Unlearned(j, g) <=> Unlearned(j, h)
  BY DEF Unlearned, All, hasUsableHistory
<1> QED
  BY <1>1, <1>2, Answers

-----------------------------------------------------------------------------
(* Learning: the windows of one job. *)

LEMMA RememberSteps ==
    ASSUME LearningInv, NEW o \in Outcomes, NEW d \in Nat, Remember(o, d)
    PROVE  /\ LearningInv' /\ job' = job
           /\ runs' = Append(runs, [detection |-> job.detection, outcome |-> o, duration |-> d])
           /\ [detection |-> job.detection, outcome |-> o, duration |-> d] \in Runs
<1>1. [detection |-> job.detection, outcome |-> o, duration |-> d] \in Runs
  BY DEF LearningInv, Job, Runs
<1> QED
  BY <1>1 DEF LearningInv, Remember

\* Every window leaves one run, that of a known outcome and of a duration.
LEMMA WindowSteps ==
    ASSUME LearningInv, SeenRun \/ CutShort \/ UnseenRun
    PROVE  \E o \in Outcomes, d \in Nat : Remember(o, d)
<1>1. CASE SeenRun
  <2> DEFINE c == Compute(job, runs).ceiling
             limit == IF job.maxRuntime > 0 THEN c ELSE Max2(c, Limits.max_ceiling)
  <2>1. limit \in Nat
    <3>1. c \in Nat
      BY HistoryIs, CeilingIs DEF LearningInv
    <3> HIDE DEF c
    <3> QED
      BY <3>1, Limited DEF Max2
  <2>2. PICK d \in Runtimes :
           IF d > limit THEN Remember("ceiling", limit)
           ELSE \E o \in {"ok", "failed"} : Remember(o, d)
    BY <1>1 DEF SeenRun
  <2>3. d \in Nat
    BY RuntimesAssumption
  <2> HIDE DEF limit
  <2>4. CASE d > limit
    BY <2>1, <2>2, <2>4 DEF Outcomes
  <2>5. CASE ~(d > limit)
    BY <2>2, <2>3, <2>5 DEF Outcomes
  <2> QED
    BY <2>4, <2>5
<1>2. CASE CutShort
  <2>1. PICK d \in Runtimes : Remember("cutout", d - 1)
    BY <1>2 DEF CutShort
  <2>2. d - 1 \in Nat
    BY RuntimesAssumption
  <2> QED
    BY <2>1, <2>2 DEF Outcomes
<1>3. CASE UnseenRun
  <2>1. \/ Remember("never_detected", 0) \/ Remember("ok", 0) \/ Remember("slept", 0)
    BY <1>3 DEF UnseenRun
  <2> QED
    BY <2>1 DEF Outcomes
<1> QED
  BY <1>1, <1>2, <1>3

LEMMA LearningSteps == LearningInv /\ [LearningNext]_learningVars => LearningInv'
<1> SUFFICES ASSUME LearningInv, [LearningNext]_learningVars PROVE LearningInv'
  OBVIOUS
<1>1. CASE SeenRun \/ CutShort \/ UnseenRun
  <2>1. PICK o \in Outcomes, d \in Nat : Remember(o, d)
    BY <1>1, WindowSteps
  <2> QED
    BY <2>1, RememberSteps
<1>2. CASE Reregister
  BY <1>2 DEF Reregister, LearningInv
<1>3. CASE UNCHANGED learningVars
  BY <1>3 DEF learningVars, LearningInv
<1> QED
  BY <1>1, <1>2, <1>3 DEF LearningNext

\* The job and its history have their types: whatever happened in a window, it leaves a run of
\* a duration that is no less than nothing (recordRun, Compute).
THEOREM LearningInvariant == LearningSpec => []LearningInv
<1>1. LearningInit => LearningInv
  BY DEF LearningInit, LearningInv
<1> QED
  BY <1>1, LearningSteps, PTL DEF LearningSpec

LEMMA CoversObserved ==
    ASSUME NEW j \in Job, NEW h \in Seq(Runs), Observable(j), j.maxRuntime = 0,
           ~Compute(j, h).coldStart
    PROVE  LET durs == Recent(completedDurations(h), Limits.history_window)
               longer == {i \in DOMAIN durs : durs[i] > Compute(j, h).ceiling}
           IN  \/ 20 * Cardinality(longer) <= Size(durs)
               \/ Compute(j, h).ceiling = Limits.max_ceiling
<1> DEFINE durs == Durs(j, h)
           c == Compute(j, h).ceiling
<1>1. /\ durs = Recent(completedDurations(h), Limits.history_window)
      /\ ~Unlearned(j, h)
  BY DEF Durs, All, OwnHistory, Unlearned
<1>2. IsDurations(durs)
  BY HistoryIs, OwnIs, CompletedIs, RecentIs DEF Durs, All
<1>3. ~(Size(durs) < Limits.min_runs_for_estimate) /\ c = Clamp(Learned(j, h))
  <2>1. ~(j.maxRuntime > 0)
    OBVIOUS
  <2>2. /\ Compute(j, h).coldStart = (Size(durs) < Limits.min_runs_for_estimate)
        /\ c = IF Size(durs) < Limits.min_runs_for_estimate
               THEN Limits.default_ceiling ELSE Clamp(Learned(j, h))
    BY <1>1, <2>1, Answers
  <2>3. ~(Size(durs) < Limits.min_runs_for_estimate)
    BY <2>2, Zenon
  <2> QED
    BY <2>2, <2>3
<1>4. c \in Int
  BY HistoryIs, CeilingIs
<1>5. percentile(durs, 95) <= c \/ c = Limits.max_ceiling
  <2>1. /\ Learned(j, h) \in Nat /\ percentile(durs, 95) <= Learned(j, h)
        /\ percentile(durs, 95) \in Nat
    BY HistoryIs, LearnedIs
  <2>2. \/ c = Learned(j, h)
        \/ c = Limits.min_ceiling /\ Learned(j, h) < Limits.min_ceiling
        \/ c = Limits.max_ceiling
    BY <1>3 DEF Clamp, clamp
  <2> DEFINE p == percentile(durs, 95)
             l == Learned(j, h)
  <2>3. Limits.min_ceiling \in Nat
    BY Limited
  <2> HIDE DEF c, durs, p, l
  <2>4. p \in Nat /\ l \in Nat /\ p <= l
    BY <2>1 DEF p, l
  <2>5. c = l \/ (c = Limits.min_ceiling /\ l < Limits.min_ceiling) \/ c = Limits.max_ceiling
    BY <2>2 DEF l
  <2>6. p <= c \/ c = Limits.max_ceiling
    BY <2>3, <2>4, <2>5
  <2> QED
    BY <2>6 DEF p
<1> HIDE DEF durs, c
<1>6. percentile(durs, 95) <= c => 20 * Cardinality({i \in DOMAIN durs : durs[i] > c}) <= Size(durs)
  BY <1>2, <1>4, PercentileCovers
<1> QED
  BY <1>1, <1>5, <1>6 DEF c

LEMMA ForeignTeachesNothing ==
    ASSUME NEW j \in Job, NEW h \in Seq(Runs), ~Observable(j), j.maxRuntime = 0,
           \A i \in DOMAIN h : h[i].detection # j.detection
    PROVE  Compute(j, h).ceiling = Limits.wake_only_hold
<1>1. DOMAIN OwnHistory(j, h) = {}
  BY DEF OwnHistory, Restrict
<1>2. DOMAIN completedDurations(OwnHistory(j, h)) = {}
  BY <1>1 DEF completedDurations
<1>3. Size(completedDurations(OwnHistory(j, h))) = 0
  BY <1>2, FS_EmptySet DEF Size
<1>4. Unlearned(j, h)
  BY <1>3, Limited DEF Unlearned, hasUsableHistory
<1>5. ~(j.maxRuntime > 0)
  OBVIOUS
<1> QED
  BY <1>4, <1>5, Answers

LEMMA TypicalIsTypical ==
    ASSUME NEW j, NEW h \in Seq(Runs)
    PROVE  Compute(j, h).typical <= Compute(j, h).p95
<1>1. IsDurations(All(j, h)) /\ IsDurations(Durs(j, h))
  BY HistoryIs, OwnIs, CompletedIs, RecentIs DEF Durs, All
<1>2. CASE Unlearned(j, h)
  <2>1. Compute(j, h).typical = 0 /\ Compute(j, h).p95 = 0
    BY <1>2, Answers
  <2> QED
    BY <2>1
<1>3. CASE ~Unlearned(j, h) /\ j.maxRuntime > 0
  BY <1>1, <1>3, MedianIsTypical, Answers
<1>4. CASE ~Unlearned(j, h) /\ ~(j.maxRuntime > 0)
  BY <1>1, <1>4, MedianIsTypical, Answers
<1> QED
  BY <1>2, <1>3, <1>4

\* A learned ceiling leaves room for all but one in twenty of the runs it was learned from, if
\* the cap does; a job that cannot be observed never has one from runs of another detection
\* (Compute, percentile).
THEOREM CeilingsCoverRuns == LearningSpec => []CeilingCoversRuns
<1>1. LearningInv => CeilingCoversRuns
  <2> SUFFICES ASSUME LearningInv PROVE CeilingCoversRuns
    OBVIOUS
  <2>1. job \in Job /\ runs \in Seq(Runs)
    BY DEF LearningInv
  <2>2. DOMAIN runs = 1..Len(runs)
    BY <2>1
  <2>3. /\ Summarize(job, runs).typical = Compute(job, runs).typical
        /\ Summarize(job, runs).p95 = Compute(job, runs).p95
    BY DEF Summarize
  <2> QED
    BY <2>1, <2>3, CoversObserved, ForeignTeachesNothing, TypicalIsTypical
       DEF CeilingCoversRuns
<1> QED
  BY <1>1, LearningInvariant, PTL

\* A run that was cut short, or that nobody saw, leaves the ceiling where it was
\* (TrainsEstimator, completedDurations).
THEOREM HungRunsTeachNothing == LearningSpec => HungRunTeachesNothing
<1>1. LearningInv /\ [LearningNext]_learningVars =>
        [runs' # runs /\ Last(runs').outcome \notin {"ok", "failed"}
            => Compute(job, runs').ceiling = Compute(job, runs).ceiling]_learningVars
  <2> SUFFICES ASSUME LearningInv, LearningNext, runs' # runs,
                      Last(runs').outcome \notin {"ok", "failed"}
               PROVE  Compute(job, runs').ceiling = Compute(job, runs).ceiling
    OBVIOUS
  <2>1. SeenRun \/ CutShort \/ UnseenRun
    BY DEF LearningNext, Reregister
  <2>2. PICK o \in Outcomes, d \in Nat : Remember(o, d)
    BY <2>1, WindowSteps
  <2> DEFINE r == [detection |-> job.detection, outcome |-> o, duration |-> d]
  <2>3. runs' = Append(runs, r) /\ r \in Runs
    BY <2>2, RememberSteps
  <2>4. runs \in Seq(Runs)
    BY DEF LearningInv
  <2>5. Last(runs') = r
    <3> HIDE DEF r
    <3> QED
      BY <2>3, <2>4 DEF Last
  <2>6. ~TrainsEstimator(r)
    BY <2>5 DEF TrainsEstimator
  <2> HIDE DEF r
  <2>7. All(job, runs') = All(job, runs)
    BY <2>3, <2>4, <2>6, SameLessons
  <2> QED
    BY <2>7, SameCeiling
<1> QED
  BY <1>1, LearningInvariant, PTL DEF LearningSpec, HungRunTeachesNothing

-----------------------------------------------------------------------------
(* The settings as the valve and the estimator use them. *)

\* What ThresholdsAssumption asks of Thresholds, the daemon's settings always satisfy: both
\* limits are whole numbers, and both margins are positive, so that the latches hold under
\* whatever was set (Normalize, evaluateCutouts).
THEOREM SettingsSuitTheValve ==
    SettingsSpec => [](/\ cfg.thermal_cutout_c \in 70..95
                       /\ cfg.low_battery_cutout_pct \in 5..50
                       /\ cfg.cutout_rearm_margin_c \in Nat \ {0}
                       /\ cfg.cutout_rearm_margin_pct \in 1..50)
<1>1. SettingsInv => /\ cfg.thermal_cutout_c \in 70..95
                     /\ cfg.low_battery_cutout_pct \in 5..50
                     /\ cfg.cutout_rearm_margin_c \in Nat \ {0}
                     /\ cfg.cutout_rearm_margin_pct \in 1..50
  <2> SUFFICES ASSUME SettingsInv
               PROVE  /\ cfg.thermal_cutout_c \in 70..95
                      /\ cfg.low_battery_cutout_pct \in 5..50
                      /\ cfg.cutout_rearm_margin_c \in Nat \ {0}
                      /\ cfg.cutout_rearm_margin_pct \in 1..50
    OBVIOUS
  <2>1. \A k \in ResetKeys : cfg[k] \in Int /\ Reset[k].lo <= cfg[k] /\ cfg[k] <= Reset[k].hi
    BY SettledParts DEF SettingsInv, SettingsTypeOK
  <2>2. /\ Reset["thermal_cutout_c"].lo = 70 /\ Reset["thermal_cutout_c"].hi = 95
        /\ Reset["low_battery_cutout_pct"].lo = 5 /\ Reset["low_battery_cutout_pct"].hi = 50
        /\ Reset["cutout_rearm_margin_c"].lo = 1
        /\ Reset["cutout_rearm_margin_pct"].lo = 1 /\ Reset["cutout_rearm_margin_pct"].hi = 50
    BY DEF Reset
  <2> QED
    BY <2>1, <2>2 DEF ResetKeys
<1> QED
  BY <1>1, SettingsInvariant, PTL

\* What LimitsAssumption asks of Limits, they always satisfy, too: the ceilings are not
\* negative, one run at least is asked for, and the multiplier is not below one (Normalize,
\* Compute).
THEOREM SettingsSuitTheEstimator ==
    SettingsSpec => [](/\ \A k \in {"default_ceiling", "wake_only_hold", "min_ceiling",
                                      "max_ceiling"} : cfg[k] \in Nat
                       /\ cfg.min_runs_for_estimate \in Nat \ {0}
                       /\ cfg.ceiling_multiplier \in Nat /\ cfg.ceiling_multiplier >= 100)
<1> DEFINE Ceilings == {"default_ceiling", "wake_only_hold", "min_ceiling", "max_ceiling"}
           Suits == /\ \A k \in Ceilings : cfg[k] \in Nat
                    /\ cfg.min_runs_for_estimate \in Nat \ {0}
                    /\ cfg.ceiling_multiplier \in Nat /\ cfg.ceiling_multiplier >= 100
<1>1. SettingsInv => Suits
  <2> SUFFICES ASSUME SettingsInv PROVE Suits
    OBVIOUS
  <2>1. Settled(cfg)
    BY DEF SettingsInv, SettingsTypeOK
  <2>2. \A k \in Ceilings : cfg[k] \in Int /\ Clamped[k].lo <= cfg[k]
    BY <2>1, SettledParts DEF ClampKeys
  <2>3. /\ Clamped["default_ceiling"].lo = 10000 /\ Clamped["wake_only_hold"].lo = 10000
        /\ Clamped["min_ceiling"].lo = 1000 /\ Clamped["max_ceiling"].lo = 60000
    BY DEF Clamped
  <2>4. \A k \in Ceilings : cfg[k] \in Nat
    BY <2>2, <2>3
  <2>5. cfg["ceiling_multiplier"] \in Int /\ Reset["ceiling_multiplier"].lo <= cfg["ceiling_multiplier"]
    BY <2>1, SettledParts DEF ResetKeys
  <2>6. Reset["ceiling_multiplier"].lo = 100
    BY DEF Reset
  <2>7. cfg["min_runs_for_estimate"] \in Nat \ {0}
    BY <2>1, SettledParts
  <2> QED
    BY <2>4, <2>5, <2>6, <2>7
<1> QED
  BY <1>1, SettingsInvariant, PTL

-----------------------------------------------------------------------------
(* AgentHooks: what is at some places of a list. *)

Before(I, i) == {j \in I : j < i}
Place(I, n) == CHOOSE i \in I : Cardinality(Before(I, i)) = n - 1

LEMMA BeforeCounts ==
    ASSUME NEW m \in Nat, NEW I \in SUBSET (1..m)
    PROVE  /\ IsFiniteSet(I) /\ Cardinality(I) \in Nat
           /\ \A i : IsFiniteSet(Before(I, i)) /\ Cardinality(Before(I, i)) \in Nat
           /\ Before(I, 1) = {} /\ Before(I, m + 1) = I
<1>1. IsFiniteSet(1..m)
  BY FS_Interval
<1>2. \A T \in SUBSET I : IsFiniteSet(T) /\ Cardinality(T) \in Nat
  BY <1>1, FS_Subset, FS_CardinalityType
<1>3. \A i : Before(I, i) \in SUBSET I
  BY DEF Before
<1>4. Before(I, 1) = {} /\ Before(I, m + 1) = I
  <2>1. \A j \in I : j \in 1..m /\ j < m + 1 /\ ~(j < 1)
    OBVIOUS
  <2> QED
    BY <2>1 DEF Before
<1> QED
  BY <1>2, <1>3, <1>4

\* There is an n-th place: the last before which there are fewer than n.
LEMMA PlaceIs ==
    ASSUME NEW m \in Nat, NEW I \in SUBSET (1..m), NEW n \in 1 .. Cardinality(I)
    PROVE  Place(I, n) \in I /\ Cardinality(Before(I, Place(I, n))) = n - 1
<1> DEFINE C(i) == Cardinality(Before(I, i))
           T == {i \in 1 .. m + 1 : C(i) >= n}
<1>1. Cardinality(I) \in Nat /\ C(1) = 0 /\ C(m + 1) = Cardinality(I) /\ \A i : C(i) \in Nat
  BY BeforeCounts, FS_EmptySet
<1>2. m + 1 \in T /\ T \subseteq Nat /\ n \in Nat
  BY <1>1
<1>3. PICK k \in T : \A i \in T : k <= i
  <2> HIDE DEF T
  <2> QED
    BY <1>2, Least
<1>4. k \in 1 .. m + 1 /\ C(k) >= n /\ k # 1
  BY <1>1, <1>3
<1> DEFINE i == k - 1
<1>5. i \in 1 .. m /\ ~(C(i) >= n)
  <2>1. i \in 1 .. m /\ i \in 1 .. m + 1 /\ ~(k <= i)
    BY <1>4
  <2> QED
    BY <1>3, <2>1
<1>6. Before(I, k) = IF i \in I THEN Before(I, i) \cup {i} ELSE Before(I, i)
  <2>1. \A j \in I : j < k <=> j < i \/ j = i
    BY <1>4, <1>5
  <2> HIDE DEF i
  <2> QED
    BY <2>1, <1>5 DEF Before
<1>7. i \notin Before(I, i)
  BY <1>5 DEF Before
<1>8. i \in I
  <2> SUFFICES ASSUME i \notin I PROVE FALSE
    OBVIOUS
  <2>1. C(k) = C(i)
    BY <1>6
  <2> QED
    BY <1>4, <1>5, <2>1
<1>9. C(k) = C(i) + 1
  <2>1. IsFiniteSet(Before(I, i))
    BY BeforeCounts
  <2> QED
    BY <1>6, <1>7, <1>8, <2>1, FS_AddElement
<1>10. C(i) = n - 1
  <2>1. C(i) \in Nat /\ C(k) \in Nat
    BY <1>1
  <2> HIDE DEF C, i
  <2> QED
    BY <1>2, <1>4, <1>5, <1>9, <2>1
<1>11. \E x \in I : Cardinality(Before(I, x)) = n - 1
  BY <1>8, <1>10
<1> QED
  BY <1>11 DEF Place

LEMMA PickedIs ==
    ASSUME NEW m \in Nat, NEW I \in SUBSET (1..m), NEW s
    PROVE  Picked(s, I) = [n \in 1 .. Cardinality(I) |-> s[Place(I, n)]]
  BY DEF Picked, Place, Before

LEMMA PlacesOfAll ==
    ASSUME NEW m \in Nat PROVE Cardinality(1..m) = m /\ \A n \in 1..m : Place(1..m, n) = n
<1>1. Cardinality(1..m) = m
  BY FS_Interval
<1>2. ASSUME NEW n \in 1..m PROVE Place(1..m, n) = n
  <2>1. \A i \in 1..m : Before(1..m, i) = 1 .. (i - 1)
    BY DEF Before
  <2>2. \A i \in 1..m : Cardinality(1 .. (i - 1)) = i - 1
    BY FS_Interval
  <2>3. \A i \in 1..m : Cardinality(Before(1..m, i)) = i - 1
    BY <2>1, <2>2
  <2>4. \A i \in 1..m : Cardinality(Before(1..m, i)) = n - 1 <=> i = n
    BY <2>3
  <2> QED
    BY <2>4 DEF Place
<1> QED
  BY <1>1, <1>2

\* All of a list, whatever follows it; and one element.
LEMMA PickedAll ==
    ASSUME NEW S, NEW s \in Seq(S), NEW t, \A i \in 1 .. Len(s) : t[i] = s[i]
    PROVE  Picked(t, 1 .. Len(s)) = s
<1>1. Len(s) \in Nat /\ s = [i \in 1 .. Len(s) |-> s[i]]
  OBVIOUS
<1>2. Picked(t, 1 .. Len(s)) = [n \in 1 .. Len(s) |-> t[Place(1 .. Len(s), n)]]
  BY <1>1, PickedIs, PlacesOfAll
<1>3. \A n \in 1 .. Len(s) : t[Place(1 .. Len(s), n)] = s[n]
  BY <1>1, PlacesOfAll
<1> QED
  BY <1>1, <1>2, <1>3

LEMMA PickedOne ==
    ASSUME NEW i \in Nat \ {0}, NEW s PROVE Picked(s, {i}) = << s[i] >>
<1>1. Cardinality({i}) = 1 /\ {i} \in SUBSET (1..i)
  BY FS_Singleton
<1>2. Picked(s, {i}) = [n \in 1 .. 1 |-> s[Place({i}, n)]]
  BY <1>1, PickedIs
<1>3. Place({i}, 1) = i
  BY <1>1, PlaceIs
<1> QED
  BY <1>2, <1>3

LEMMA PickedType ==
    ASSUME NEW S, NEW s \in Seq(S), NEW I \in SUBSET DOMAIN s
    PROVE  /\ Picked(s, I) \in Seq(S) /\ Len(Picked(s, I)) = Cardinality(I)
           /\ \A n \in DOMAIN Picked(s, I) : \E i \in I : Picked(s, I)[n] = s[i]
<1>1. DOMAIN s = 1 .. Len(s) /\ Len(s) \in Nat /\ I \in SUBSET (1 .. Len(s))
  OBVIOUS
<1>2. Picked(s, I) = [n \in 1 .. Cardinality(I) |-> s[Place(I, n)]] /\ Cardinality(I) \in Nat
  <2>1. Picked(s, I) = [n \in 1 .. Cardinality(I) |-> s[Place(I, n)]]
    BY DEF Picked, Place, Before
  <2>2. Cardinality(I) \in Nat
    BY <1>1, BeforeCounts
  <2> QED
    BY <2>1, <2>2
<1>3. \A n \in 1 .. Cardinality(I) : Place(I, n) \in I /\ s[Place(I, n)] \in S
  <2>1. \A n \in 1 .. Cardinality(I) : Place(I, n) \in I
    BY <1>1, PlaceIs
  <2>2. \A i \in I : s[i] \in S
    BY <1>1
  <2> QED
    BY <2>1, <2>2
<1> DEFINE N == Cardinality(I)
           e(n) == s[Place(I, n)]
<1>4. Picked(s, I) = [n \in 1 .. N |-> e(n)] /\ N \in Nat /\ \A n \in 1 .. N : e(n) \in S
  BY <1>2, <1>3
<1>5. Picked(s, I) \in Seq(S) /\ Len(Picked(s, I)) = N
  <2> HIDE DEF N, e
  <2> QED
    BY <1>4
<1> QED
  BY <1>2, <1>3, <1>5

-----------------------------------------------------------------------------
(* The file. *)

Blocks == [by : Dirs \cup {"user"}, does : STRING \cup {"renew", "stop"},
           beside : UserHooks \cup {"nothing"}]
Hooks == [Events -> Seq(Blocks)]

Cleared(doc) == \A e \in Events : OursIn(doc[e]) = {}
OnlyFor(s, dir, e) == \E h \in UserHooks \cup {"nothing"} :
                         Ours(s) = << [Commands(dir, e) EXCEPT !.beside = h] >>
Current(doc, dir) == \A e \in Events : OnlyFor(doc[e], dir, e)

LEMMA OursInType ==
    ASSUME NEW s \in Seq(Blocks) PROVE OursIn(s) \in SUBSET DOMAIN s
  BY DEF OursIn

\* What is taken out is gone, and nothing is taken out of what has none of it.
LEMMA TheirsIs ==
    ASSUME NEW s \in Seq(Blocks)
    PROVE  /\ Theirs(s) \in Seq(Blocks) /\ OursIn(Theirs(s)) = {}
           /\ OursIn(s) = {} => Theirs(s) = s
<1> DEFINE I == DOMAIN s \ OursIn(s)
<1>1. I \in SUBSET DOMAIN s /\ \A i \in I : ~blockIsGoguma(s[i])
  BY DEF OursIn
<1>2. Theirs(s) = Picked(s, I)
  BY DEF Theirs
<1>3. /\ Picked(s, I) \in Seq(Blocks)
      /\ \A n \in DOMAIN Picked(s, I) : \E i \in I : Picked(s, I)[n] = s[i]
  <2> HIDE DEF I
  <2> QED
    BY <1>1, PickedType
<1>4. OursIn(Picked(s, I)) = {}
  <2> HIDE DEF I
  <2> QED
    BY <1>1, <1>3 DEF OursIn
<1>5. ASSUME OursIn(s) = {} PROVE Theirs(s) = s
  <2>1. I = 1 .. Len(s)
    BY <1>5
  <2>2. Picked(s, 1 .. Len(s)) = s
    BY PickedAll
  <2> QED
    BY <1>2, <2>1, <2>2
<1> QED
  BY <1>2, <1>3, <1>4, <1>5

\* A block of goguma's at the end of what has none.
LEMMA Appended ==
    ASSUME NEW s \in Seq(Blocks), OursIn(s) = {}, NEW b \in Blocks, blockIsGoguma(b)
    PROVE  /\ Append(s, b) \in Seq(Blocks)
           /\ Theirs(Append(s, b)) = s /\ Ours(Append(s, b)) = << b >>
<1> DEFINE t == Append(s, b)
           m == Len(s)
<1>1. /\ m \in Nat /\ t \in Seq(Blocks) /\ DOMAIN t = 1 .. m + 1 /\ t[m + 1] = b
      /\ \A i \in 1 .. m : t[i] = s[i]
  OBVIOUS
<1>2. \A i \in 1 .. m : ~blockIsGoguma(t[i])
  <2>1. \A i \in DOMAIN s : ~blockIsGoguma(s[i])
    BY DEF OursIn
  <2>2. DOMAIN s = 1 .. m
    OBVIOUS
  <2> QED
    BY <1>1, <2>1, <2>2
<1> HIDE DEF t
<1>3. OursIn(t) = {m + 1} /\ DOMAIN t \ OursIn(t) = 1 .. m
  <2> HIDE DEF m
  <2>1. \A i \in DOMAIN t : blockIsGoguma(t[i]) <=> i = m + 1
    BY <1>1, <1>2
  <2>2. OursIn(t) = {m + 1}
    BY <1>1, <2>1 DEF OursIn
  <2> QED
    BY <1>1, <2>2
<1>4. Picked(t, 1 .. m) = s
  BY <1>1, PickedAll
<1>5. Picked(t, {m + 1}) = << b >>
  <2>1. m + 1 \in Nat \ {0}
    BY <1>1
  <2> QED
    BY <1>1, <2>1, PickedOne
<1>6. Theirs(t) = s /\ Ours(t) = << b >>
  BY <1>3, <1>4, <1>5 DEF Theirs, Ours
<1> QED
  BY <1>1, <1>6 DEF t

\* A block of the user's before it, and one block less.
LEMMA Prepended ==
    ASSUME NEW s \in Seq(Blocks), NEW b \in Blocks, ~blockIsGoguma(b)
    PROVE  /\ << b >> \o s \in Seq(Blocks)
           /\ OursIn(s) = {} => OursIn(<< b >> \o s) = {}
           /\ \A c : Ours(s) = << c >> => Ours(<< b >> \o s) = << c >>
<1> DEFINE t == << b >> \o s
           m == Len(s)
<1>1. m \in Nat /\ DOMAIN s = 1 .. m
  OBVIOUS
<1>2. /\ t \in Seq(Blocks) /\ DOMAIN t = 1 .. m + 1 /\ t[1] = b
      /\ \A i \in 1 .. m : t[i + 1] = s[i]
  OBVIOUS
<1> HIDE DEF t, m
<1>3. \A i \in DOMAIN t : i \in OursIn(t) <=> i # 1 /\ i - 1 \in OursIn(s)
  <2> SUFFICES ASSUME NEW i \in DOMAIN t PROVE i \in OursIn(t) <=> i # 1 /\ i - 1 \in OursIn(s)
    OBVIOUS
  <2>1. CASE i = 1
    BY <1>2, <2>1 DEF OursIn
  <2>2. CASE i # 1
    <3>1. i - 1 \in 1 .. m /\ (i - 1) + 1 = i
      BY <1>1, <1>2, <2>2
    <3>2. t[i] = s[i - 1]
      BY <1>2, <3>1
    <3> QED
      BY <1>1, <2>2, <3>1, <3>2 DEF OursIn
  <2> QED
    BY <2>1, <2>2
<1>4. OursIn(t) \in SUBSET DOMAIN t /\ OursIn(s) \in SUBSET (1 .. m)
  BY <1>1 DEF OursIn
<1>5. OursIn(s) = {} => OursIn(t) = {}
  BY <1>3, <1>4
<1>6. ASSUME NEW c, Ours(s) = << c >> PROVE Ours(t) = << c >>
  <2>1. Len(Ours(s)) = Cardinality(OursIn(s))
    BY OursInType, PickedType DEF Ours
  <2>2. Cardinality(OursIn(s)) = 1 /\ IsFiniteSet(OursIn(s))
    <3>1. Len(<< c >>) = 1
      OBVIOUS
    <3>2. IsFiniteSet(OursIn(s))
      BY <1>1, <1>4, BeforeCounts
    <3> QED
      BY <1>6, <2>1, <3>1, <3>2
  <2>3. PICK n : OursIn(s) = {n}
    BY <2>2, FS_Singleton
  <2>4. n \in 1 .. m /\ n \in Nat \ {0}
    BY <1>1, <1>4, <2>3
  <2>5. OursIn(t) = {n + 1}
    <3>1. n + 1 \in DOMAIN t /\ n + 1 # 1 /\ (n + 1) - 1 = n
      BY <1>1, <1>2, <2>4
    <3>2. \A i \in DOMAIN t : i - 1 = n => i = n + 1
      BY <1>1, <1>2, <2>4
    <3>3. n + 1 \in OursIn(t)
      BY <1>3, <2>3, <3>1
    <3>4. \A i \in OursIn(t) : i = n + 1
      BY <1>3, <1>4, <2>3, <3>2
    <3> QED
      BY <3>3, <3>4
  <2>6. Ours(s) = << s[n] >>
    BY <2>3, <2>4, PickedOne DEF Ours
  <2>7. Ours(t) = << t[n + 1] >>
    <3>1. n + 1 \in Nat \ {0}
      BY <2>4
    <3> QED
      BY <2>5, <3>1, PickedOne DEF Ours
  <2>8. t[n + 1] = s[n]
    BY <1>2, <2>4
  <2> QED
    BY <1>6, <2>6, <2>7, <2>8
<1> QED
  BY <1>2, <1>5, <1>6 DEF t

\* A command of the user's beside one of goguma's.
LEMMA Joined ==
    ASSUME NEW s \in Seq(Blocks), NEW i \in OursIn(s), NEW h \in UserHooks
    PROVE  /\ [s EXCEPT ![i].beside = h] \in Seq(Blocks)
           /\ \A c : Ours(s) = << c >> => Ours([s EXCEPT ![i].beside = h]) = << [c EXCEPT !.beside = h] >>
<1> DEFINE b == [s[i] EXCEPT !.beside = h]
           t == [s EXCEPT ![i] = b]
<1>1. i \in 1 .. Len(s) /\ s[i] \in Blocks /\ blockIsGoguma(s[i])
  BY DEF OursIn
<1>2. b \in Blocks /\ blockIsGoguma(b)
  BY <1>1 DEF Blocks, blockIsGoguma
<1> HIDE DEF b
<1>3. /\ t \in Seq(Blocks) /\ DOMAIN t = DOMAIN s /\ t[i] = b
      /\ \A j \in DOMAIN s : j # i => t[j] = s[j]
  BY <1>1, <1>2
<1> HIDE DEF t
<1>4. OursIn(t) = OursIn(s)
  BY <1>1, <1>2, <1>3 DEF OursIn
<1>5. ASSUME NEW c, Ours(s) = << c >> PROVE Ours(t) = << [c EXCEPT !.beside = h] >>
  <2>1. Len(Ours(s)) = Cardinality(OursIn(s)) /\ OursIn(s) \in SUBSET (1 .. Len(s))
    BY OursInType, PickedType DEF Ours
  <2>2. Cardinality(OursIn(s)) = 1 /\ IsFiniteSet(OursIn(s))
    <3>1. Len(<< c >>) = 1
      OBVIOUS
    <3>2. Len(s) \in Nat
      OBVIOUS
    <3>3. IsFiniteSet(OursIn(s))
      BY <2>1, <3>2, BeforeCounts
    <3> QED
      BY <1>5, <2>1, <3>1, <3>3
  <2>3. PICK n : OursIn(s) = {n}
    BY <2>2, FS_Singleton
  <2>4. n = i /\ i \in Nat \ {0}
    BY <1>1, <2>3
  <2>5. Ours(s) = << s[i] >> /\ Ours(t) = << t[i] >>
    BY <1>4, <2>3, <2>4, PickedOne DEF Ours
  <2>6. c = s[i]
    BY <1>5, <2>5
  <2> QED
    BY <1>3, <2>5, <2>6 DEF b
<1>6. [s EXCEPT ![i].beside = h] = t
  BY DEF t, b
<1> QED
  BY <1>3, <1>5, <1>6

LEMMA Shortened ==
    ASSUME NEW s \in Seq(Blocks), s # << >>
    PROVE  Tail(s) \in Seq(Blocks) /\ (OursIn(s) = {} => OursIn(Tail(s)) = {})
<1>1. Tail(s) \in Seq(Blocks) /\ \A i \in DOMAIN Tail(s) : i + 1 \in DOMAIN s /\ Tail(s)[i] = s[i + 1]
  OBVIOUS
<1> QED
  BY <1>1 DEF OursIn

\* Apply leaves the user's blocks, and goguma's as they are wanted.
LEMMA ApplyIs ==
    ASSUME NEW doc \in Hooks, NEW dir \in Dirs, NEW remove \in BOOLEAN
    PROVE  /\ Apply(doc, dir, remove) \in Hooks
           /\ UsersOwn(Apply(doc, dir, remove)) = UsersOwn(doc)
           /\ remove => Cleared(Apply(doc, dir, remove))
           /\ ~remove => Current(Apply(doc, dir, remove), dir)
<1> DEFINE a == Apply(doc, dir, remove)
<1>1. /\ a = [e \in Events |-> a[e]]
      /\ \A e \in Events : a[e] = IF remove THEN Theirs(doc[e])
                                  ELSE Append(Theirs(doc[e]), Commands(dir, e))
  BY DEF Apply
<1> HIDE DEF a
<1>2. ASSUME NEW e \in Events
      PROVE  /\ a[e] \in Seq(Blocks) /\ Theirs(a[e]) = Theirs(doc[e])
             /\ remove => OursIn(a[e]) = {}
             /\ ~remove => OnlyFor(a[e], dir, e)
  <2>1. doc[e] \in Seq(Blocks)
    BY DEF Hooks
  <2>2. Theirs(doc[e]) \in Seq(Blocks) /\ OursIn(Theirs(doc[e])) = {}
    BY <2>1, TheirsIs
  <2>3. Theirs(Theirs(doc[e])) = Theirs(doc[e])
    BY <2>2, TheirsIs
  <2>4. Commands(dir, e) \in Blocks /\ blockIsGoguma(Commands(dir, e))
    BY DEF Commands, Block, Blocks, blockIsGoguma
  <2>5. CASE remove
    BY <1>1, <2>2, <2>3, <2>5
  <2>6. CASE ~remove
    <3>1. Ours(a[e]) = << Commands(dir, e) >> /\ a[e] \in Seq(Blocks) /\ Theirs(a[e]) = Theirs(doc[e])
      BY <1>1, <2>2, <2>4, <2>6, Appended
    <3>2. [Commands(dir, e) EXCEPT !.beside = "nothing"] = Commands(dir, e)
      BY DEF Commands, Block
    <3> QED
      BY <2>6, <3>1, <3>2 DEF OnlyFor
  <2> QED
    BY <2>5, <2>6
<1>3. a \in Hooks
  BY <1>1, <1>2 DEF Hooks
<1>4. UsersOwn(a) = UsersOwn(doc)
  BY <1>2 DEF UsersOwn
<1>5. (remove => Cleared(a)) /\ (~remove => Current(a, dir))
  BY <1>2 DEF Cleared, Current
<1> QED
  BY <1>3, <1>4, <1>5 DEF a

LEMMA FoundIs == ASSUME NEW doc PROVE Cleared(doc) => Found(doc) = {}
  BY DEF Cleared, Found

-----------------------------------------------------------------------------
(* Both processes. *)

FileKinds == {"absent", "empty", "json", "broken"}
Contents == [is : FileKinds, hooks : Hooks]
Places == {"inspect", "read", "opt out"} \cup Editing
Known == [pc : Places, doc : Hooks, copy : Contents, remove : BOOLEAN, done : BOOLEAN, dir : Dirs,
          to : {"tmp", "file", "gone"}]

HooksTypeOK ==
    /\ config \in Contents /\ backup \in Contents /\ rewrite \in Contents
    /\ optOut \in BOOLEAN /\ binDir \in Dirs
    /\ proc \in [Procs -> {Resting} \cup Known]
    /\ promise \in {"nothing", "installed", "removed"}
    /\ userRaced \in BOOLEAN /\ together \in BOOLEAN /\ userBroke \in BOOLEAN /\ cutShort \in BOOLEAN

\* What a process is to write is without goguma's hooks, or has them as they were wanted when
\* it began; the daemon removes nothing, and what is done waits to go on record.
DocAt(p) ==
    /\ proc[p].pc \in Editing =>
          IF proc[p].remove THEN Cleared(proc[p].doc) ELSE Current(proc[p].doc, proc[p].dir)
    /\ p = "daemon" /\ ~Rests(p) => ~proc[p].remove /\ proc[p].pc # "opt out"
    /\ ~Rests(p) /\ proc[p].pc # "opt out" => ~proc[p].done
    /\ proc[p].pc \in {"inspect", "read", "back up"} => proc[p].copy = Absent

\* The user's hooks are in what a process is to write and in the copy it keeps, and the file
\* it edits is not broken.
Old(f) == f.is # "broken" /\ UsersOwn(f.hooks) = theirs
OwnAt(p) ==
    /\ proc[p].pc \in Editing => UsersOwn(proc[p].doc) = theirs
    /\ proc[p].pc \in Editing \ {"put back"} => config.is # "broken"
    /\ proc[p].pc \in {"copy", "put back"} => Old(proc[p].copy)
    /\ proc[p].pc \in {"write", "fill", "rename", "verify"} /\ proc[p].copy # Absent => Old(backup)

\* The user's hooks are in the file.
OwnFile == UsersOwn(config.hooks) = theirs /\ (config.is = "broken" => userBroke)

OwnInv ==
    ~userRaced /\ ~together /\ ~cutShort =>
       /\ (\A p \in Procs : ~At(p, "put back")) => OwnFile
       /\ \A p \in Procs : OwnAt(p)

\* What a process has opened is empty and still where it opened it, what it has written is
\* there, and a removal that is to go on record has been made.
OpenAt(p) ==
    /\ proc[p].pc = "copy" => backup = Empty
    /\ proc[p].pc = "fill" => rewrite = Empty /\ proc[p].to = "tmp"
    /\ proc[p].pc = "rename" => rewrite = Json(proc[p].doc)
    /\ proc[p].pc = "verify" => config = Json(proc[p].doc)
    /\ proc[p].pc = "put back" => config = Empty /\ proc[p].to = "file" /\ promise = "nothing"
    /\ proc[p].pc = "opt out" /\ proc[p].remove /\ proc[p].done => Cleared(config.hooks)

\* A promise is kept by whatever is still under way; what was removed is on record, so that
\* the daemon leaves it alone.
Kept(p) ==
    /\ promise = "installed" /\ ~Rests(p) => ~proc[p].remove /\ proc[p].dir = binDir
    /\ promise = "removed" /\ ~Rests(p) => proc[p].remove

PromiseInv ==
    /\ ~together => \A p, q \in Procs : p # q => Rests(p) \/ Rests(q)
    /\ ~userRaced /\ ~together =>
          /\ \A p \in Procs : OpenAt(p) /\ Kept(p)
          /\ promise = "installed" => Current(config.hooks, binDir)
          /\ promise = "removed" => Cleared(config.hooks) /\ optOut

HooksInv == HooksTypeOK /\ (\A p \in Procs : DocAt(p)) /\ OwnInv /\ PromiseInv

LEMMA HookNames ==
    /\ Procs = {"command", "daemon"} /\ Absent \in Contents /\ Empty \in Contents /\ Torn \in Contents
    /\ NoHooks \in Hooks /\ Cleared(NoHooks) /\ Absent.is = "absent" /\ Absent.hooks = NoHooks
    /\ Empty # Absent /\ Empty.is = "empty" /\ Empty.hooks = NoHooks
    /\ \A h \in Hooks : /\ Json(h) \in Contents /\ Json(h) # Absent
                        /\ Json(h).is = "json" /\ Json(h).hooks = h
<1>1. << >> \in Seq(Blocks) /\ OursIn(<< >>) = {}
  BY DEF OursIn
<1>2. NoHooks \in Hooks /\ Cleared(NoHooks)
  BY <1>1 DEF NoHooks, Hooks, Cleared
<1> QED
  BY <1>2 DEF Procs, Absent, Empty, Torn, Json, FileKinds, Contents

\* A step of p leaves what the other is at, though perhaps not the file it has open.
Others(p) ==
    /\ proc' \in [Procs -> {Resting} \cup Known]
    /\ \A q \in Procs : q # p =>
          /\ proc'[q].pc = proc[q].pc
          /\ proc[q].pc # "idle" => /\ proc'[q].doc = proc[q].doc /\ proc'[q].remove = proc[q].remove
                                    /\ proc'[q].done = proc[q].done /\ proc'[q].dir = proc[q].dir
                                    /\ proc'[q].copy = proc[q].copy

\* Somewhere else with all it knows.
Goes(p, pc) ==
    /\ Others(p) /\ proc'[p].pc = pc
    /\ pc # "idle" => /\ proc'[p].doc = proc[p].doc /\ proc'[p].copy = proc[p].copy
                      /\ proc'[p].remove = proc[p].remove /\ proc'[p].done = proc[p].done
                      /\ proc'[p].dir = proc[p].dir /\ proc'[p].to = proc[p].to

LEMMA NowIs ==
    ASSUME NEW k \in Known, NEW pc \in Places \cup {"idle"}
    PROVE  /\ NowAt(k, pc) \in {Resting} \cup Known /\ NowAt(k, pc).pc = pc
           /\ pc # "idle" => /\ NowAt(k, pc).doc = k.doc /\ NowAt(k, pc).remove = k.remove
                             /\ NowAt(k, pc).copy = k.copy /\ NowAt(k, pc).done = k.done
                             /\ NowAt(k, pc).dir = k.dir /\ NowAt(k, pc).to = k.to
<1>1. CASE pc = "idle"
  BY <1>1 DEF NowAt, Resting
<1>2. CASE pc # "idle"
  <2>1. NowAt(k, pc) = [k EXCEPT !.pc = pc]
    BY <1>2 DEF NowAt
  <2> QED
    BY <1>2, <2>1 DEF Known
<1> QED
  BY <1>1, <1>2

LEMMA Working ==
    ASSUME HooksTypeOK, NEW p \in Procs
    PROVE  proc[p].pc # "idle" => proc[p] \in Known
  BY DEF HooksTypeOK, Resting

LEMMA OneProc ==
    ASSUME HooksTypeOK, NEW p \in Procs, NEW r \in {Resting} \cup Known,
           proc' = [proc EXCEPT ![p] = r]
    PROVE  Others(p) /\ proc'[p] = r
  BY DEF HooksTypeOK, Others

LEMMA GoesIs ==
    ASSUME HooksTypeOK, NEW p \in Procs, ~Rests(p), NEW pc \in Places \cup {"idle"}, GoesTo(p, pc)
    PROVE  Goes(p, pc)
<1> DEFINE r == NowAt(proc[p], pc)
<1>1. proc[p] \in Known
  BY Working DEF Rests
<1>2. proc' = [proc EXCEPT ![p] = r]
  BY DEF GoesTo, HooksTypeOK
<1>3. r \in {Resting} \cup Known /\ r.pc = pc
  BY <1>1, NowIs
<1>4. Others(p) /\ proc'[p] = r
  <2> HIDE DEF r
  <2> QED
    BY <1>2, <1>3, OneProc
<1> QED
  BY <1>1, <1>3, <1>4, NowIs DEF Goes

LEMMA MovedIs ==
    ASSUME NEW k \in {Resting} \cup Known, NEW to \in {"file", "gone"}
    PROVE  /\ Moved(k, to) \in {Resting} \cup Known /\ Moved(k, to).pc = k.pc
           /\ k.pc # "idle" => /\ Moved(k, to).doc = k.doc /\ Moved(k, to).remove = k.remove
                               /\ Moved(k, to).done = k.done /\ Moved(k, to).dir = k.dir
                               /\ Moved(k, to).copy = k.copy
<1>1. CASE k.pc \notin {"fill", "put back"}
  BY <1>1 DEF Moved
<1>2. CASE k.pc \in {"fill", "put back"}
  <2>1. k \in Known
    <3>1. Resting.pc = "idle"
      BY DEF Resting
    <3> QED
      BY <1>2, <3>1
  <2> DEFINE t == IF k.to = "tmp" THEN to ELSE IF to = "file" THEN "gone" ELSE k.to
  <2>2. Moved(k, to) = [k EXCEPT !.to = t] /\ t \in {"tmp", "file", "gone"}
    BY <1>2, <2>1 DEF Moved, Known
  <2> HIDE DEF t
  <2> QED
    BY <2>1, <2>2 DEF Known
<1> QED
  BY <1>1, <1>2

LEMMA MovesOthers ==
    ASSUME HooksTypeOK, NEW p \in Procs, ~Rests(p), NEW pc \in Places \cup {"idle"},
           NEW to \in {"file", "gone"},
           proc' = [q \in Procs |-> IF q = p THEN NowAt(proc[q], pc) ELSE Moved(proc[q], to)]
    PROVE  Goes(p, pc)
<1>1. proc[p] \in Known
  BY Working DEF Rests
<1>2. proc'[p] = NowAt(proc[p], pc) /\ \A q \in Procs : q # p => proc'[q] = Moved(proc[q], to)
  OBVIOUS
<1>3. \A q \in Procs : proc[q] \in {Resting} \cup Known
  BY DEF HooksTypeOK
<1>4. proc' \in [Procs -> {Resting} \cup Known]
  <2>1. \A q \in Procs : (IF q = p THEN NowAt(proc[q], pc) ELSE Moved(proc[q], to)) \in {Resting} \cup Known
    BY <1>1, <1>3, NowIs, MovedIs
  <2> QED
    BY <2>1
<1>5. Others(p)
  BY <1>2, <1>3, <1>4, MovedIs DEF Others
<1> QED
  BY <1>1, <1>2, <1>5, NowIs DEF Goes

LEMMA AfterIs ==
    ASSUME NEW p \in Procs
    PROVE  After(p) \in {"opt out", "idle"} /\ (After(p) = "opt out" => p = "command")
  BY HookNames DEF After

\* What is known of a process that is at work while the other rests.
LEMMA Alone ==
    ASSUME HooksInv, NEW p \in Procs, ~Rests(p), ~userRaced, ~together
    PROVE  /\ OpenAt(p) /\ Kept(p)
           /\ ~cutShort => OwnAt(p) /\ (proc[p].pc # "put back" => OwnFile)
           /\ promise = "installed" => Current(config.hooks, binDir)
           /\ promise = "removed" => Cleared(config.hooks) /\ optOut
<1>1. \A q \in Procs : q # p => ~At(q, "put back")
  BY DEF HooksInv, PromiseInv, Rests, At
<1> QED
  BY <1>1 DEF HooksInv, PromiseInv, OwnInv, At

\* A step of a process that is at work.
LEMMA ProcSteps ==
    ASSUME HooksInv, NEW p \in Procs, ~Rests(p), Others(p), DocAt(p)',
           config' \in Contents, backup' \in Contents, rewrite' \in Contents, optOut' \in BOOLEAN,
           promise' \in {"nothing", "installed", "removed"}, cutShort' \in BOOLEAN,
           cutShort => cutShort', UNCHANGED << binDir, theirs, userRaced, together, userBroke >>,
           ~userRaced /\ ~together /\ ~cutShort' =>
              OwnAt(p)' /\ (proc'[p].pc # "put back" => OwnFile'),
           ~userRaced /\ ~together =>
              /\ OpenAt(p)' /\ Kept(p)'
              /\ promise' = "installed" => Current(config'.hooks, binDir)
              /\ promise' = "removed" => Cleared(config'.hooks) /\ optOut'
    PROVE  HooksInv'
<1>1. HooksTypeOK /\ (\A q \in Procs : DocAt(q)) /\ OwnInv /\ PromiseInv
  BY DEF HooksInv
<1>2. HooksTypeOK'
  BY <1>1 DEF HooksTypeOK, Others
<1>3. ASSUME NEW q \in Procs PROVE DocAt(q)'
  <2>1. CASE q = p
    BY <2>1
  <2>2. CASE q # p
    <3>1. /\ proc'[q].pc = proc[q].pc
          /\ proc[q].pc # "idle" => /\ proc'[q].doc = proc[q].doc /\ proc'[q].remove = proc[q].remove
                                    /\ proc'[q].done = proc[q].done /\ proc'[q].dir = proc[q].dir
                                    /\ proc'[q].copy = proc[q].copy
      BY <2>2 DEF Others
    <3>2. DocAt(q)
      BY <1>1
    <3> QED
      BY <3>1, <3>2 DEF DocAt, Rests, Editing, Cleared, Current, OnlyFor
  <2> QED
    BY <2>1, <2>2
<1>4. ASSUME ~together, NEW q \in Procs, q # p PROVE proc[q].pc = "idle" /\ proc'[q].pc = "idle"
  BY <1>1, <1>4 DEF PromiseInv, Others, Rests
<1>5. OwnInv'
  <2> SUFFICES ASSUME ~userRaced, ~together, ~cutShort' PROVE OwnInv'
    BY DEF OwnInv
  <2>1. ASSUME NEW q \in Procs PROVE OwnAt(q)'
    <3>1. CASE q = p
      BY <3>1
    <3>2. CASE q # p
      BY <1>4, <3>2 DEF OwnAt, Editing
    <3> QED
      BY <3>1, <3>2
  <2>2. (\A q \in Procs : ~At(q, "put back"))' => OwnFile'
    BY DEF At
  <2> QED
    BY <2>1, <2>2 DEF OwnInv
<1>6. PromiseInv'
  <2>1. ~together' => \A q, r \in Procs : q # r => Rests(q)' \/ Rests(r)'
    BY <1>4 DEF Rests
  <2>2. ASSUME ~userRaced, ~together, NEW q \in Procs PROVE OpenAt(q)' /\ Kept(q)'
    <3>1. CASE q = p
      BY <2>2, <3>1
    <3>2. CASE q # p
      BY <1>4, <2>2, <3>2 DEF OpenAt, Kept, Rests
    <3> QED
      BY <3>1, <3>2
  <2>3. ~userRaced' /\ ~together' =>
           /\ promise' = "installed" => Current(config'.hooks, binDir')
           /\ promise' = "removed" => Cleared(config'.hooks) /\ optOut'
    OBVIOUS
  <2> QED
    BY <2>1, <2>2, <2>3 DEF PromiseInv, Cleared, Current, OnlyFor
<1> QED
  BY <1>2, <1>3, <1>5, <1>6 DEF HooksInv

\* A process that leaves its edit, or goes on without one.
LEMMA Leaves ==
    ASSUME HooksInv, NEW p \in Procs, ~Rests(p), NEW pc \in {"read", "opt out", "idle"}, Goes(p, pc),
           pc = "read" => proc[p].pc = "inspect",
           pc = "opt out" => p = "command" /\ proc[p].pc # "opt out",
           config' \in Contents, backup' \in Contents, rewrite' \in Contents,
           ~userRaced /\ ~together => config' = config,
           promise' = promise \/ promise' = "nothing",
           cutShort' \in BOOLEAN, cutShort => cutShort', At(p, "put back") => cutShort',
           UNCHANGED << optOut, binDir, theirs, userRaced, together, userBroke >>
    PROVE  HooksInv'
<1>1. HooksTypeOK /\ DocAt(p)
  BY DEF HooksInv
<1>2. /\ Others(p) /\ proc'[p].pc = pc
      /\ pc # "idle" => /\ proc'[p].remove = proc[p].remove /\ proc'[p].done = proc[p].done
                        /\ proc'[p].dir = proc[p].dir /\ proc'[p].copy = proc[p].copy
  BY DEF Goes
<1>3. DocAt(p)' /\ (pc = "opt out" => ~proc'[p].done)
  <2>1. CASE pc = "idle"
    BY <1>2, <2>1 DEF DocAt, Rests, Editing
  <2>2. CASE pc # "idle"
    BY <1>1, <1>2, <2>2, HookNames DEF DocAt, Rests, Editing
  <2> QED
    BY <2>1, <2>2
<1>4. ASSUME ~userRaced, ~together, ~cutShort'
      PROVE  OwnAt(p)' /\ (proc'[p].pc # "put back" => OwnFile')
  <2>1. OwnFile
    BY <1>4, Alone DEF At
  <2> QED
    BY <1>2, <1>4, <2>1 DEF OwnAt, OwnFile, Editing, UsersOwn
<1>5. ASSUME ~userRaced, ~together
      PROVE  /\ OpenAt(p)' /\ Kept(p)'
             /\ promise' = "installed" => Current(config'.hooks, binDir)
             /\ promise' = "removed" => Cleared(config'.hooks) /\ optOut'
  <2>1. /\ Kept(p) /\ config' = config
        /\ promise = "installed" => Current(config.hooks, binDir)
        /\ promise = "removed" => Cleared(config.hooks) /\ optOut
    BY <1>5, Alone
  <2>2. OpenAt(p)'
    BY <1>2, <1>3 DEF OpenAt
  <2>3. Kept(p)'
    BY <1>2, <2>1 DEF Kept, Rests
  <2> QED
    BY <2>1, <2>2, <2>3
<1>6. optOut' \in BOOLEAN /\ promise' \in {"nothing", "installed", "removed"}
  BY <1>1 DEF HooksTypeOK
<1> QED
  BY <1>2, <1>3, <1>4, <1>5, <1>6, ProcSteps

LEMMA HooksStart == AgentHooksInit => HooksInv
<1> SUFFICES ASSUME AgentHooksInit PROVE HooksInv
  OBVIOUS
<1> DEFINE H == [e \in Events |-> [i \in DOMAIN UsersFile[e] |-> Block("user", UsersFile[e][i])]]
<1>1. H \in Hooks
  <2> SUFFICES ASSUME NEW e \in Events PROVE H[e] \in Seq(Blocks)
    BY DEF Hooks
  <2>1. UsersFile[e] \in Seq(STRING)
    BY HooksAssumption
  <2> DEFINE n == Len(UsersFile[e])
  <2>2. n \in Nat /\ DOMAIN UsersFile[e] = 1 .. n /\ \A i \in 1 .. n : UsersFile[e][i] \in STRING
    BY <2>1
  <2>3. H[e] = [i \in 1 .. n |-> Block("user", UsersFile[e][i])]
    BY <2>2
  <2>4. \A i \in 1 .. n : Block("user", UsersFile[e][i]) \in Blocks
    BY <2>2 DEF Block, Blocks
  <2> HIDE DEF n, H
  <2> QED
    BY <2>2, <2>3, <2>4
<1>2. /\ config \in {Absent, Json(H)} /\ backup = Absent /\ rewrite = Absent /\ optOut = FALSE
      /\ binDir \in Dirs /\ proc = [p \in Procs |-> Resting] /\ promise = "nothing"
      /\ theirs = UsersOwn(config.hooks)
      /\ userRaced = FALSE /\ together = FALSE /\ userBroke = FALSE /\ cutShort = FALSE
  BY DEF AgentHooksInit
<1> HIDE DEF H
<1>3. config \in Contents /\ config.is # "broken"
  BY <1>1, <1>2, HookNames
<1>4. HooksTypeOK
  BY <1>2, <1>3, HookNames DEF HooksTypeOK
<1>5. \A p \in Procs : proc[p].pc = "idle"
  BY <1>2 DEF Resting
<1>6. \A p \in Procs : DocAt(p) /\ OwnAt(p) /\ OpenAt(p) /\ Kept(p)
  BY <1>5 DEF DocAt, OwnAt, OpenAt, Kept, Rests, Editing
<1>7. OwnInv
  BY <1>2, <1>3, <1>6 DEF OwnInv, OwnFile
<1>8. PromiseInv
  BY <1>2, <1>5, <1>6 DEF PromiseInv, Rests
<1> QED
  BY <1>4, <1>6, <1>7, <1>8 DEF HooksInv

LEMMA BeginSteps ==
    ASSUME HooksInv, NEW p \in Procs, NEW remove \in BOOLEAN, p = "daemon" => ~remove /\ ~optOut,
           NEW pc \in {"inspect", "read"}, Begin(p, pc, remove),
           promise' = promise \/ promise' = "nothing",
           promise' = "installed" => ~remove, promise' = "removed" => remove \/ p = "daemon",
           UNCHANGED << config, backup, rewrite, optOut, binDir, theirs, userRaced, userBroke, cutShort >>
    PROVE  HooksInv'
<1>1. HooksTypeOK /\ (\A q \in Procs : DocAt(q)) /\ OwnInv /\ PromiseInv
  BY DEF HooksInv
<1> DEFINE r == [pc |-> pc, doc |-> NoHooks, copy |-> Absent, remove |-> remove, done |-> FALSE,
                 dir |-> binDir, to |-> "tmp"]
<1>2. /\ r \in Known /\ r.pc = pc /\ r.remove = remove /\ r.done = FALSE /\ r.dir = binDir
      /\ r.copy = Absent
  BY <1>1, HookNames DEF HooksTypeOK, Known, Places
<1>3. /\ proc' = [proc EXCEPT ![p] = r] /\ Rests(p)
      /\ together' = (together \/ \E q \in Procs \ {p} : ~Rests(q))
  BY DEF Begin
<1> HIDE DEF r
<1>4. /\ proc' \in [Procs -> {Resting} \cup Known]
      /\ proc'[p] = r /\ \A q \in Procs : q # p => proc'[q] = proc[q]
  BY <1>1, <1>2, <1>3 DEF HooksTypeOK
<1>5. pc \notin Editing /\ pc \notin {"opt out", "idle"}
  BY DEF Editing
<1>6. HooksTypeOK'
  BY <1>1, <1>3, <1>4 DEF HooksTypeOK
<1>7. ASSUME NEW q \in Procs PROVE DocAt(q)'
  <2>1. CASE q = p
    BY <1>2, <1>4, <1>5, <2>1 DEF DocAt
  <2>2. CASE q # p
    <3>1. DocAt(q) /\ proc'[q] = proc[q]
      BY <1>1, <1>4, <2>2
    <3> QED
      BY <3>1 DEF DocAt, Rests, Editing, Cleared, Current, OnlyFor
  <2> QED
    BY <2>1, <2>2
<1>8. ~together' => ~together /\ \A q \in Procs : q # p => proc'[q].pc = "idle" /\ proc[q].pc = "idle"
  BY <1>3, <1>4 DEF Rests
<1>9. ASSUME ~together', NEW q \in Procs
      PROVE  OwnAt(q)' /\ OpenAt(q)' /\ proc[q].pc = "idle" /\ (proc'[q].pc # "idle" => q = p)
  <2>1. proc'[q].pc \notin Editing \cup {"opt out"} /\ proc[q].pc = "idle" /\ (proc'[q].pc # "idle" => q = p)
    BY <1>2, <1>3, <1>4, <1>5, <1>8, <1>9 DEF Editing, Rests
  <2> QED
    BY <2>1 DEF OwnAt, OpenAt, Editing
<1>10. OwnInv'
  <2> SUFFICES ASSUME ~userRaced, ~together', ~cutShort PROVE OwnInv'
    BY DEF OwnInv
  <2>1. OwnFile
    BY <1>1, <1>8, <1>9 DEF OwnInv, At
  <2> QED
    BY <1>9, <2>1 DEF OwnInv, OwnFile, UsersOwn
<1>11. PromiseInv'
  <2>1. ~together' => \A q, s \in Procs : q # s => Rests(q)' \/ Rests(s)'
    BY <1>8 DEF Rests
  <2> SUFFICES ASSUME ~userRaced, ~together' PROVE PromiseInv'
    BY <2>1 DEF PromiseInv
  <2>2. /\ promise' = "installed" => Current(config.hooks, binDir)
        /\ promise' = "removed" => Cleared(config.hooks) /\ optOut
    BY <1>1, <1>8 DEF PromiseInv
  <2>3. promise' = "removed" => remove
    BY <2>2
  <2>4. \A q \in Procs : Kept(q)'
    BY <1>2, <1>4, <1>9, <2>3 DEF Kept, Rests
  <2> QED
    BY <1>9, <2>1, <2>2, <2>4 DEF PromiseInv, Cleared, Current, OnlyFor
<1> QED
  BY <1>6, <1>7, <1>10, <1>11 DEF HooksInv

LEMMA StartSteps ==
    HooksInv /\ ((\E remove \in BOOLEAN : hooksApply(remove)) \/ reconcileAgentHooks) => HooksInv'
<1>1. ASSUME HooksInv, NEW remove \in BOOLEAN, hooksApply(remove) PROVE HooksInv'
  <2>1. /\ promise' = promise \/ promise' = "nothing"
        /\ promise' = "installed" => ~remove
        /\ promise' = "removed" => remove
    BY <1>1 DEF hooksApply
  <2> QED
    BY <1>1, <2>1, BeginSteps, HookNames DEF hooksApply
<1>2. ASSUME HooksInv, reconcileAgentHooks PROVE HooksInv'
  BY <1>2, BeginSteps, HookNames DEF reconcileAgentHooks
<1> QED
  BY <1>1, <1>2

LEMMA InspectSteps == HooksInv /\ Inspect => HooksInv'
<1> SUFFICES ASSUME HooksInv, Inspect PROVE HooksInv'
  OBVIOUS
<1>1. HooksTypeOK /\ proc["daemon"].pc = "inspect" /\ ~Rests("daemon") /\ "daemon" \in Procs
  BY HookNames DEF HooksInv, Inspect, At, Rests
<1>2. PICK pc \in {"idle", "read"} : GoesTo("daemon", pc)
  BY DEF Inspect
<1>3. Goes("daemon", pc)
  BY <1>1, <1>2, GoesIs DEF Places
<1> QED
  BY <1>1, <1>3, Leaves DEF Inspect, hookHistory, HooksTypeOK, At

\* An edit that fails.
LEMMA GivesUp ==
    ASSUME HooksInv, NEW p \in Procs, proc[p].pc \in Editing \cup {"read"}, GoesTo(p, After(p)),
           config' \in Contents, backup' \in Contents, rewrite' \in Contents,
           ~userRaced /\ ~together => config' = config,
           promise' = promise \/ promise' = "nothing",
           cutShort' \in BOOLEAN, cutShort => cutShort', At(p, "put back") => cutShort',
           UNCHANGED << optOut, binDir, theirs, userRaced, together, userBroke >>
    PROVE  HooksInv'
<1>1. HooksTypeOK /\ ~Rests(p) /\ proc[p].pc # "opt out"
  BY DEF HooksInv, Rests, Editing
<1>2. Goes(p, After(p))
  BY <1>1, AfterIs, GoesIs DEF Places
<1> QED
  BY <1>1, <1>2, AfterIs, Leaves

LEMMA DiesSteps == HooksInv /\ (\E p \in Procs : Dies(p)) => HooksInv'
<1> SUFFICES ASSUME HooksInv, NEW p \in Procs, Dies(p) PROVE HooksInv'
  OBVIOUS
<1>1. HooksTypeOK /\ ~Rests(p)
  BY DEF HooksInv, Dies
<1>2. Goes(p, "idle")
  BY <1>1, GoesIs DEF Dies
<1> QED
  BY <1>1, <1>2, Leaves DEF Dies, HooksTypeOK

\* A step of an edit that leaves the file, what is promised and what it is for as they are.
LEMMA EditGoesOn ==
    ASSUME HooksInv, NEW p \in Procs, ~Rests(p), Others(p), proc'[p].pc \in Editing,
           proc'[p].remove = proc[p].remove, proc'[p].done = proc[p].done, proc'[p].dir = proc[p].dir,
           IF proc'[p].remove THEN Cleared(proc'[p].doc) ELSE Current(proc'[p].doc, proc'[p].dir),
           proc'[p].pc = "back up" => proc'[p].copy = Absent,
           proc[p].pc # "opt out", proc[p].pc # "put back", proc'[p].pc # "put back",
           backup' \in Contents, rewrite' \in Contents,
           UNCHANGED << config, optOut, binDir, theirs, promise, userRaced, together, userBroke, cutShort >>,
           ~userRaced /\ ~together => OpenAt(p)',
           ~userRaced /\ ~together /\ ~cutShort => OwnAt(p)'
    PROVE  HooksInv'
<1>1. HooksTypeOK /\ DocAt(p)
  BY DEF HooksInv
<1>2. DocAt(p)'
  BY <1>1, HookNames DEF DocAt, Rests, Editing
<1>3. ASSUME ~userRaced, ~together, ~cutShort' PROVE OwnFile'
  <2>1. OwnFile
    BY <1>3, Alone
  <2> QED
    BY <2>1 DEF OwnFile, UsersOwn
<1>4. ASSUME ~userRaced, ~together
      PROVE  /\ Kept(p)' /\ (promise' = "installed" => Current(config'.hooks, binDir))
             /\ promise' = "removed" => Cleared(config'.hooks) /\ optOut'
  <2>1. /\ Kept(p)
        /\ promise = "installed" => Current(config.hooks, binDir)
        /\ promise = "removed" => Cleared(config.hooks) /\ optOut
    BY <1>4, Alone
  <2>2. Kept(p)'
    BY <2>1 DEF Kept, Rests
  <2> QED
    BY <2>1, <2>2
<1> QED
  BY <1>1, <1>2, <1>3, <1>4, ProcSteps DEF HooksTypeOK

LEMMA ReadSteps == HooksInv /\ (\E p \in Procs : ReadConfig(p)) => HooksInv'
<1> SUFFICES ASSUME HooksInv, NEW p \in Procs, ReadConfig(p) PROVE HooksInv'
  OBVIOUS
<1>1. HooksTypeOK
  BY DEF HooksInv
<1>2. /\ proc[p].pc = "read" /\ ~Rests(p) /\ proc[p] \in Known
      /\ UNCHANGED << config, backup, rewrite, optOut, binDir, hookHistory >>
  BY <1>1, Working DEF ReadConfig, At, Rests
<1>3. CASE config.is = "broken"
  <2>1. /\ config' \in Contents /\ backup' \in Contents /\ rewrite' \in Contents
        /\ cutShort' \in BOOLEAN /\ ~At(p, "put back")
    BY <1>1, <1>2 DEF HooksTypeOK, At, hookHistory
  <2>2. GoesTo(p, After(p))
    BY <1>3 DEF ReadConfig
  <2> QED
    BY <1>2, <2>1, <2>2, GivesUp DEF hookHistory
<1>4. CASE config.is # "broken"
  <2> DEFINE a == Apply(config.hooks, proc[p].dir, proc[p].remove)
             r == [proc[p] EXCEPT !.pc = "back up", !.doc = a]
  <2>1. /\ a \in Hooks /\ UsersOwn(a) = UsersOwn(config.hooks)
        /\ IF proc[p].remove THEN Cleared(a) ELSE Current(a, proc[p].dir)
    <3>1. config.hooks \in Hooks /\ proc[p].dir \in Dirs /\ proc[p].remove \in BOOLEAN
      BY <1>1, <1>2 DEF HooksTypeOK, Known, Contents
    <3> QED
      BY <3>1, ApplyIs
  <2> HIDE DEF a
  <2>2. /\ r \in Known /\ r.pc = "back up" /\ r.doc = a /\ r.remove = proc[p].remove
        /\ r.done = proc[p].done /\ r.dir = proc[p].dir /\ r.copy = proc[p].copy
    BY <1>2, <2>1 DEF Known, Editing, Places
  <2>9. proc[p].copy = Absent
    BY <1>2 DEF HooksInv, DocAt
  <2>3. proc' = [proc EXCEPT ![p] = r]
    BY <1>1, <1>4 DEF ReadConfig, a, HooksTypeOK
  <2> HIDE DEF r
  <2>4. Others(p) /\ proc'[p] = r
    BY <1>1, <2>2, <2>3, OneProc
  <2>5. OpenAt(p)'
    BY <2>2, <2>4 DEF OpenAt
  <2>6. ASSUME ~userRaced, ~together, ~cutShort PROVE OwnAt(p)'
    <3>1. OwnFile
      BY <1>2, <2>6, Alone
    <3>2. UsersOwn(a) = theirs /\ theirs' = theirs /\ config' = config
      BY <1>2, <2>1, <3>1 DEF OwnFile, hookHistory
    <3>3. proc'[p].doc = a /\ proc'[p].pc = "back up"
      BY <2>2, <2>4
    <3> QED
      BY <1>4, <3>2, <3>3 DEF OwnAt, UsersOwn
  <2>7. UNCHANGED << config, optOut, binDir, theirs, promise, userRaced, together, userBroke, cutShort >>
    BY <1>2 DEF hookHistory
  <2>8. backup' \in Contents /\ rewrite' \in Contents
    BY <1>1, <1>2 DEF HooksTypeOK
  <2> QED
    BY <1>2, <2>1, <2>2, <2>4, <2>5, <2>6, <2>7, <2>8, <2>9, EditGoesOn DEF Editing
<1> QED
  BY <1>3, <1>4

\* An edit under way keeps what it was begun for.
LEMMA Aims ==
    ASSUME HooksInv, NEW p \in Procs, proc[p].pc \in Editing
    PROVE  /\ IF proc[p].remove THEN Cleared(proc[p].doc) ELSE Current(proc[p].doc, proc[p].dir)
           /\ HooksTypeOK /\ ~Rests(p) /\ proc[p].pc # "opt out" /\ ~proc[p].done /\ proc[p] \in Known
<1>1. ~Rests(p) /\ proc[p].pc # "opt out" /\ proc[p].pc # "idle"
  BY DEF Rests, Editing
<1> QED
  BY <1>1, Working DEF HooksInv, DocAt

LEMMA BackUpSteps == HooksInv /\ (\E p \in Procs : BackUp(p)) => HooksInv'
<1> SUFFICES ASSUME HooksInv, NEW p \in Procs, BackUp(p) PROVE HooksInv'
  OBVIOUS
<1>1. proc[p].pc = "back up" /\ proc[p].pc \in Editing
  BY DEF BackUp, At, Editing
<1>2. /\ IF proc[p].remove THEN Cleared(proc[p].doc) ELSE Current(proc[p].doc, proc[p].dir)
      /\ HooksTypeOK /\ ~Rests(p) /\ proc[p].pc # "opt out" /\ ~proc[p].done /\ proc[p] \in Known
  BY <1>1, Aims
<1>3. UNCHANGED << config, rewrite, optOut, binDir, theirs, promise, userRaced, together, userBroke, cutShort >>
  BY DEF BackUp, FailsTo, hookHistory
<1>4. CASE FailsTo(p, After(p)) /\ UNCHANGED backup
  <2>1. /\ config' \in Contents /\ backup' \in Contents /\ rewrite' \in Contents
        /\ cutShort' \in BOOLEAN /\ ~At(p, "put back")
    BY <1>1, <1>2, <1>3, <1>4 DEF HooksTypeOK, At
  <2>2. GoesTo(p, After(p)) /\ proc[p].pc \in Editing \cup {"read"}
    BY <1>1, <1>4 DEF FailsTo
  <2> QED
    BY <1>3, <2>1, <2>2, GivesUp
<1>5. ASSUME ~userRaced, ~together, ~cutShort
      PROVE  OwnFile /\ UsersOwn(proc[p].doc) = theirs /\ config.is # "broken"
  BY <1>1, <1>2, <1>5, Alone DEF OwnAt, Editing
\* Nothing to keep a copy of, or it cannot be read.
<1>6. CASE GoesTo(p, "write") /\ UNCHANGED backup
  <2>1. Goes(p, "write")
    BY <1>2, <1>6, GoesIs DEF Places, Editing
  <2>2. /\ Others(p) /\ proc'[p].pc = "write" /\ proc'[p].doc = proc[p].doc
        /\ proc'[p].remove = proc[p].remove /\ proc'[p].done = proc[p].done
        /\ proc'[p].dir = proc[p].dir /\ proc'[p].copy = proc[p].copy
    BY <2>1 DEF Goes
  <2>3. OpenAt(p)'
    BY <2>2 DEF OpenAt
  <2>4. ASSUME ~userRaced, ~together, ~cutShort PROVE OwnAt(p)'
    <3>1. proc[p].copy = Absent
      BY <1>1 DEF HooksInv, DocAt
    <3> QED
      BY <1>3, <1>5, <2>2, <2>4, <3>1 DEF OwnAt, UsersOwn
  <2>5. backup' \in Contents /\ rewrite' \in Contents
    BY <1>2, <1>3, <1>6 DEF HooksTypeOK
  <2> QED
    BY <1>1, <1>2, <1>3, <2>2, <2>3, <2>4, <2>5, EditGoesOn DEF Editing
<1>7. CASE proc' = [proc EXCEPT ![p].pc = "copy", ![p].copy = config] /\ backup' = Empty
  <2> DEFINE r == [proc[p] EXCEPT !.pc = "copy", !.copy = config]
  <2>1. /\ r \in Known /\ r.pc = "copy" /\ r.copy = config /\ r.doc = proc[p].doc
        /\ r.remove = proc[p].remove /\ r.done = proc[p].done /\ r.dir = proc[p].dir
    BY <1>2 DEF HooksTypeOK, Known, Places, Editing
  <2>2. proc' = [proc EXCEPT ![p] = r]
    BY <1>2, <1>7 DEF HooksTypeOK
  <2> HIDE DEF r
  <2>3. Others(p) /\ proc'[p] = r
    BY <1>2, <2>1, <2>2, OneProc
  <2>4. OpenAt(p)'
    BY <1>7, <2>1, <2>3 DEF OpenAt, Empty, NoHooks
  <2>5. ASSUME ~userRaced, ~together, ~cutShort PROVE OwnAt(p)'
    BY <1>3, <1>5, <2>1, <2>3, <2>5 DEF OwnAt, OwnFile, Old, UsersOwn
  <2>6. backup' \in Contents /\ rewrite' \in Contents
    BY <1>2, <1>3, <1>7, HookNames DEF HooksTypeOK
  <2> QED
    BY <1>1, <1>2, <1>3, <2>1, <2>3, <2>4, <2>5, <2>6, EditGoesOn DEF Editing
<1> QED
  BY <1>4, <1>6, <1>7 DEF BackUp, FailsTo
LEMMA WritesIs ==
    ASSUME HooksTypeOK, NEW p \in Procs, NEW text \in Contents, Writes(p, text)
    PROVE  /\ config' \in Contents /\ rewrite' \in Contents
           /\ proc[p].to = "tmp" => config' = config /\ (rewrite = Empty => rewrite' = text)
           /\ proc[p].to = "file" /\ config = Empty => config' = text
<1>1. ASSUME NEW old \in Contents
      PROVE  Written(old, text) \subseteq Contents /\ (old = Empty => Written(old, text) = {text})
  BY HookNames DEF Written
<1>2. config \in Contents /\ rewrite \in Contents
  BY DEF HooksTypeOK
<1> QED
  BY <1>1, <1>2 DEF Writes

LEMMA FillBackupSteps == HooksInv /\ (\E p \in Procs : FillBackup(p)) => HooksInv'
<1> SUFFICES ASSUME HooksInv, NEW p \in Procs, FillBackup(p) PROVE HooksInv'
  OBVIOUS
<1>1. proc[p].pc = "copy" /\ proc[p].pc \in Editing
  BY DEF FillBackup, At, Editing
<1>2. /\ IF proc[p].remove THEN Cleared(proc[p].doc) ELSE Current(proc[p].doc, proc[p].dir)
      /\ HooksTypeOK /\ ~Rests(p) /\ proc[p].pc # "opt out" /\ ~proc[p].done /\ proc[p] \in Known
  BY <1>1, Aims
<1>3. UNCHANGED << config, rewrite, optOut, binDir, theirs, promise, userRaced, together, userBroke, cutShort >>
  BY DEF FillBackup, FailsTo, hookHistory
<1>4. CASE FailsTo(p, After(p)) /\ backup' \in {backup, Torn}
  <2>1. /\ config' \in Contents /\ backup' \in Contents /\ rewrite' \in Contents
        /\ cutShort' \in BOOLEAN /\ ~At(p, "put back")
    BY <1>1, <1>2, <1>3, <1>4, HookNames DEF HooksTypeOK, At
  <2>2. GoesTo(p, After(p)) /\ proc[p].pc \in Editing \cup {"read"}
    BY <1>1, <1>4 DEF FailsTo
  <2> QED
    BY <1>3, <2>1, <2>2, GivesUp
<1>5. CASE GoesTo(p, "write") /\ backup' \in Written(backup, proc[p].copy)
  <2>1. Goes(p, "write")
    BY <1>2, <1>5, GoesIs DEF Places, Editing
  <2>2. /\ Others(p) /\ proc'[p].pc = "write" /\ proc'[p].doc = proc[p].doc
        /\ proc'[p].remove = proc[p].remove /\ proc'[p].done = proc[p].done
        /\ proc'[p].dir = proc[p].dir /\ proc'[p].copy = proc[p].copy
    BY <2>1 DEF Goes
  <2>3. OpenAt(p)'
    BY <2>2 DEF OpenAt
  <2>4. ASSUME ~userRaced, ~together, ~cutShort PROVE OwnAt(p)'
    <3>1. /\ OpenAt(p) /\ UsersOwn(proc[p].doc) = theirs /\ config.is # "broken"
          /\ proc[p].copy.is # "broken" /\ UsersOwn(proc[p].copy.hooks) = theirs
      BY <1>1, <1>2, <2>4, Alone DEF OwnAt, Old, Editing
    <3>2. backup = Empty
      BY <1>1, <3>1 DEF OpenAt
    <3>3. backup' = proc[p].copy
      BY <1>5, <3>2, HookNames DEF Written
    <3> QED
      BY <1>3, <2>2, <3>1, <3>3 DEF OwnAt, Old, UsersOwn
  <2>5. backup' \in Contents /\ rewrite' \in Contents
    BY <1>2, <1>3, <1>5, HookNames DEF HooksTypeOK, Written, Known
  <2> QED
    BY <1>1, <1>2, <1>3, <2>2, <2>3, <2>4, <2>5, EditGoesOn DEF Editing
<1> QED
  BY <1>4, <1>5 DEF FillBackup

LEMMA OpenSteps == HooksInv /\ (\E p \in Procs : OpenTmp(p)) => HooksInv'
<1> SUFFICES ASSUME HooksInv, NEW p \in Procs, OpenTmp(p) PROVE HooksInv'
  OBVIOUS
<1>1. proc[p].pc = "write" /\ proc[p].pc \in Editing
  BY DEF OpenTmp, At, Editing
<1>2. /\ IF proc[p].remove THEN Cleared(proc[p].doc) ELSE Current(proc[p].doc, proc[p].dir)
      /\ HooksTypeOK /\ ~Rests(p) /\ proc[p].pc # "opt out" /\ ~proc[p].done /\ proc[p] \in Known
  BY <1>1, Aims
<1>3. UNCHANGED << config, backup, optOut, binDir, theirs, promise, userRaced, together, userBroke, cutShort >>
  BY DEF OpenTmp, FailsTo, hookHistory
<1>4. CASE FailsTo(p, After(p)) /\ UNCHANGED rewrite
  <2>1. /\ config' \in Contents /\ backup' \in Contents /\ rewrite' \in Contents
        /\ cutShort' \in BOOLEAN /\ ~At(p, "put back")
    BY <1>1, <1>2, <1>3, <1>4 DEF HooksTypeOK, At
  <2>2. GoesTo(p, After(p)) /\ proc[p].pc \in Editing \cup {"read"}
    BY <1>1, <1>4 DEF FailsTo
  <2> QED
    BY <1>3, <2>1, <2>2, GivesUp
<1>5. CASE proc' = [proc EXCEPT ![p].pc = "fill", ![p].to = "tmp"] /\ rewrite' = Empty
  <2> DEFINE r == [proc[p] EXCEPT !.pc = "fill", !.to = "tmp"]
  <2>1. /\ r \in Known /\ r.pc = "fill" /\ r.to = "tmp" /\ r.copy = proc[p].copy /\ r.doc = proc[p].doc
        /\ r.remove = proc[p].remove /\ r.done = proc[p].done /\ r.dir = proc[p].dir
    BY <1>2 DEF Known, Places, Editing
  <2>2. proc' = [proc EXCEPT ![p] = r]
    BY <1>2, <1>5 DEF HooksTypeOK
  <2> HIDE DEF r
  <2>3. Others(p) /\ proc'[p] = r
    BY <1>2, <2>1, <2>2, OneProc
  <2>4. OpenAt(p)'
    BY <1>5, <2>1, <2>3 DEF OpenAt, Empty, NoHooks
  <2>5. ASSUME ~userRaced, ~together, ~cutShort PROVE OwnAt(p)'
    <3>1. /\ UsersOwn(proc[p].doc) = theirs /\ config.is # "broken"
          /\ proc[p].copy # Absent => backup.is # "broken" /\ UsersOwn(backup.hooks) = theirs
      BY <1>1, <1>2, <2>5, Alone DEF OwnAt, Old, Editing
    <3>2. proc'[p].pc = "fill" /\ proc'[p].doc = proc[p].doc /\ proc'[p].copy = proc[p].copy
      BY <2>1, <2>3
    <3> QED
      BY <1>3, <3>1, <3>2 DEF OwnAt, Old, UsersOwn, Absent, NoHooks
  <2>6. backup' \in Contents /\ rewrite' \in Contents
    BY <1>2, <1>3, <1>5, HookNames DEF HooksTypeOK
  <2> QED
    BY <1>1, <1>2, <1>3, <2>1, <2>3, <2>4, <2>5, <2>6, EditGoesOn DEF Editing
<1> QED
  BY <1>4, <1>5 DEF OpenTmp

LEMMA FillSteps == HooksInv /\ (\E p \in Procs : FillTmp(p)) => HooksInv'
<1> SUFFICES ASSUME HooksInv, NEW p \in Procs, FillTmp(p) PROVE HooksInv'
  OBVIOUS
<1>1. proc[p].pc = "fill" /\ proc[p].pc \in Editing
  BY DEF FillTmp, At, Editing
<1>2. /\ IF proc[p].remove THEN Cleared(proc[p].doc) ELSE Current(proc[p].doc, proc[p].dir)
      /\ HooksTypeOK /\ ~Rests(p) /\ proc[p].pc # "opt out" /\ ~proc[p].done /\ proc[p] \in Known
  BY <1>1, Aims
<1>3. UNCHANGED << backup, optOut, binDir, theirs, promise, userRaced, together, userBroke, cutShort >>
  BY DEF FillTmp, FailsTo, hookHistory
<1>4. ~userRaced /\ ~together => rewrite = Empty /\ proc[p].to = "tmp"
  BY <1>1, <1>2, Alone DEF OpenAt
<1>5. CASE FailsTo(p, After(p)) /\ (Writes(p, Torn) \/ UNCHANGED << config, rewrite >>)
  <2>1. /\ config' \in Contents /\ rewrite' \in Contents
        /\ ~userRaced /\ ~together => config' = config
    BY <1>2, <1>4, <1>5, WritesIs, HookNames DEF HooksTypeOK
  <2>2. backup' \in Contents /\ cutShort' \in BOOLEAN /\ ~At(p, "put back")
    BY <1>1, <1>2, <1>3 DEF HooksTypeOK, At
  <2>3. GoesTo(p, After(p)) /\ proc[p].pc \in Editing \cup {"read"}
    BY <1>1, <1>5 DEF FailsTo
  <2> QED
    BY <1>3, <2>1, <2>2, <2>3, GivesUp
<1>6. CASE GoesTo(p, "rename") /\ Writes(p, Json(proc[p].doc))
  <2>1. Goes(p, "rename")
    BY <1>2, <1>6, GoesIs DEF Places, Editing
  <2>2. /\ Others(p) /\ proc'[p].pc = "rename" /\ proc'[p].doc = proc[p].doc
        /\ proc'[p].remove = proc[p].remove /\ proc'[p].done = proc[p].done
        /\ proc'[p].dir = proc[p].dir /\ proc'[p].copy = proc[p].copy
    BY <2>1 DEF Goes
  <2>3. proc[p].doc \in Hooks /\ Json(proc[p].doc) \in Contents
    BY <1>2, HookNames DEF Known
  <2>4. /\ config' \in Contents /\ rewrite' \in Contents /\ backup' \in Contents
        /\ ~userRaced /\ ~together => config' = config /\ rewrite' = Json(proc[p].doc)
    BY <1>2, <1>3, <1>4, <1>6, <2>3, WritesIs DEF HooksTypeOK
  <2>5. DocAt(p)'
    BY <1>2, <2>2, HookNames DEF DocAt, HooksInv, Rests
  <2>6. ASSUME ~userRaced, ~together, ~cutShort' PROVE OwnAt(p)' /\ OwnFile'
    <3>1. /\ OwnFile /\ UsersOwn(proc[p].doc) = theirs /\ config.is # "broken"
          /\ proc[p].copy # Absent => backup.is # "broken" /\ UsersOwn(backup.hooks) = theirs
      BY <1>1, <1>2, <1>3, <2>6, Alone DEF OwnAt, Old, Editing
    <3>2. OwnAt(p)'
      BY <1>3, <2>2, <2>4, <2>6, <3>1 DEF OwnAt, Old, UsersOwn, Absent, NoHooks
    <3>3. OwnFile'
      BY <1>3, <2>4, <2>6, <3>1 DEF OwnFile, UsersOwn
    <3> QED
      BY <3>2, <3>3
  <2>7. ASSUME ~userRaced, ~together
        PROVE  /\ OpenAt(p)' /\ Kept(p)'
               /\ promise' = "installed" => Current(config'.hooks, binDir)
               /\ promise' = "removed" => Cleared(config'.hooks) /\ optOut'
    <3>1. /\ Kept(p)
          /\ promise = "installed" => Current(config.hooks, binDir)
          /\ promise = "removed" => Cleared(config.hooks) /\ optOut
      BY <1>2, <2>7, Alone
    <3>2. OpenAt(p)'
      BY <2>2, <2>4, <2>7 DEF OpenAt, Json
    <3>3. Kept(p)'
      BY <1>2, <1>3, <2>2, <3>1 DEF Kept, Rests
    <3> QED
      BY <1>3, <2>4, <2>7, <3>1, <3>2, <3>3
  <2>8. optOut' \in BOOLEAN /\ promise' \in {"nothing", "installed", "removed"} /\ cutShort' \in BOOLEAN
    BY <1>2, <1>3 DEF HooksTypeOK
  <2> QED
    BY <1>2, <1>3, <2>2, <2>4, <2>5, <2>6, <2>7, <2>8, ProcSteps
<1> QED
  BY <1>5, <1>6 DEF FillTmp
LEMMA PlaceSteps == HooksInv /\ (\E p \in Procs : Rename(p)) => HooksInv'
<1> SUFFICES ASSUME HooksInv, NEW p \in Procs, Rename(p) PROVE HooksInv'
  OBVIOUS
<1>1. proc[p].pc = "rename" /\ proc[p].pc \in Editing
  BY DEF Rename, At, Editing
<1>2. /\ IF proc[p].remove THEN Cleared(proc[p].doc) ELSE Current(proc[p].doc, proc[p].dir)
      /\ HooksTypeOK /\ ~Rests(p) /\ proc[p].pc # "opt out" /\ ~proc[p].done /\ proc[p] \in Known
  BY <1>1, Aims
<1>3. UNCHANGED << backup, optOut, binDir, theirs, promise, userRaced, together, userBroke, cutShort >>
  BY DEF Rename, hookHistory
<1>4. backup' \in Contents /\ cutShort' \in BOOLEAN /\ ~At(p, "put back")
  BY <1>1, <1>2, <1>3 DEF HooksTypeOK, At
<1>5. CASE GoesTo(p, After(p)) /\ UNCHANGED << config, rewrite >>
  <2>1. config' \in Contents /\ rewrite' \in Contents
    BY <1>2, <1>5 DEF HooksTypeOK
  <2> QED
    BY <1>1, <1>3, <1>4, <1>5, <2>1, GivesUp
<1>6. CASE /\ proc' = [q \in Procs |-> IF q = p THEN NowAt(proc[q], After(q)) ELSE Moved(proc[q], "gone")]
           /\ rewrite' = Absent /\ UNCHANGED config
  <2>1. config' \in Contents /\ rewrite' \in Contents
    BY <1>2, <1>6, HookNames DEF HooksTypeOK
  <2>2. proc' = [q \in Procs |-> IF q = p THEN NowAt(proc[q], After(p)) ELSE Moved(proc[q], "gone")]
    BY <1>6
  <2>3. Goes(p, After(p))
    BY <1>2, <2>2, AfterIs, MovesOthers DEF Places
  <2> QED
    BY <1>1, <1>2, <1>3, <1>4, <1>6, <2>1, <2>3, AfterIs, Leaves
<1>7. CASE /\ config' = rewrite /\ rewrite' = Absent
           /\ proc' = [q \in Procs |-> IF q = p THEN NowAt(proc[q], "verify") ELSE Moved(proc[q], "file")]
  <2>1. Goes(p, "verify")
    BY <1>2, <1>7, MovesOthers DEF Places, Editing
  <2>2. /\ Others(p) /\ proc'[p].pc = "verify" /\ proc'[p].doc = proc[p].doc
        /\ proc'[p].remove = proc[p].remove /\ proc'[p].done = proc[p].done
        /\ proc'[p].dir = proc[p].dir /\ proc'[p].copy = proc[p].copy
    BY <2>1 DEF Goes
  <2>3. config' \in Contents /\ rewrite' \in Contents
    BY <1>2, <1>7, HookNames DEF HooksTypeOK
  <2>4. ~userRaced /\ ~together =>
           config' = Json(proc[p].doc) /\ config'.hooks = proc[p].doc /\ config'.is = "json"
    <3>1. ~userRaced /\ ~together => rewrite = Json(proc[p].doc)
      BY <1>1, <1>2, Alone DEF OpenAt
    <3>2. proc[p].doc \in Hooks
      BY <1>2 DEF Known
    <3> QED
      BY <1>7, <3>1, <3>2, HookNames
  <2>5. DocAt(p)'
    BY <1>2, <2>2, HookNames DEF DocAt, HooksInv, Rests
  <2>6. ASSUME ~userRaced, ~together, ~cutShort' PROVE OwnAt(p)' /\ OwnFile'
    <3>1. /\ UsersOwn(proc[p].doc) = theirs
          /\ proc[p].copy # Absent => backup.is # "broken" /\ UsersOwn(backup.hooks) = theirs
      BY <1>1, <1>2, <1>3, <2>6, Alone DEF OwnAt, Old, Editing
    <3>2. OwnAt(p)'
      BY <1>3, <2>2, <2>4, <2>6, <3>1 DEF OwnAt, Old, UsersOwn, Absent, NoHooks
    <3>3. OwnFile'
      BY <1>3, <2>4, <2>6, <3>1 DEF OwnFile, UsersOwn
    <3> QED
      BY <3>2, <3>3
  <2>7. ASSUME ~userRaced, ~together
        PROVE  /\ OpenAt(p)' /\ Kept(p)'
               /\ promise' = "installed" => Current(config'.hooks, binDir)
               /\ promise' = "removed" => Cleared(config'.hooks) /\ optOut'
    <3>1. Kept(p) /\ (promise = "removed" => optOut)
      BY <1>2, <2>7, Alone
    <3>2. OpenAt(p)'
      BY <2>2, <2>4, <2>7 DEF OpenAt, Json
    <3>3. Kept(p)'
      BY <1>2, <1>3, <2>2, <3>1 DEF Kept, Rests
    <3> QED
      BY <1>2, <1>3, <2>4, <2>7, <3>1, <3>2, <3>3 DEF Kept
  <2>8. optOut' \in BOOLEAN /\ promise' \in {"nothing", "installed", "removed"}
    BY <1>2, <1>3 DEF HooksTypeOK
  <2> QED
    BY <1>2, <1>3, <1>4, <2>2, <2>3, <2>5, <2>6, <2>7, <2>8, ProcSteps
<1> QED
  BY <1>5, <1>6, <1>7 DEF Rename

LEMMA VerifiedSteps == HooksInv /\ (\E p \in Procs : Verified(p)) => HooksInv'
<1> SUFFICES ASSUME HooksInv, NEW p \in Procs, Verified(p) PROVE HooksInv'
  OBVIOUS
<1>1. proc[p].pc = "verify" /\ proc[p].pc \in Editing
  BY DEF Verified, At, Editing
<1>2. /\ IF proc[p].remove THEN Cleared(proc[p].doc) ELSE Current(proc[p].doc, proc[p].dir)
      /\ HooksTypeOK /\ ~Rests(p) /\ proc[p] \in Known
  BY <1>1, Aims
<1>3. /\ UNCHANGED << config, backup, rewrite, optOut, binDir, theirs, userRaced, together, userBroke, cutShort >>
      /\ promise' = IF ~proc[p].remove /\ proc[p].dir = binDir THEN "installed" ELSE promise
  BY DEF Verified
<1> DEFINE k == [proc[p] EXCEPT !.done = TRUE]
           r == NowAt(k, After(p))
<1>4. k \in Known /\ k.remove = proc[p].remove /\ k.dir = proc[p].dir
  BY <1>2 DEF Known
<1>5. proc' = [proc EXCEPT ![p] = r]
  BY <1>2 DEF Verified, HooksTypeOK
<1> HIDE DEF k
<1>6. /\ r \in {Resting} \cup Known /\ r.pc = After(p)
      /\ r.pc # "idle" => r.remove = proc[p].remove /\ r.dir = proc[p].dir
  BY <1>4, AfterIs, NowIs DEF Places
<1> HIDE DEF r
<1>7. Others(p) /\ proc'[p] = r /\ proc'[p].pc \in {"idle", "opt out"} /\ (proc'[p].pc = "opt out" => p = "command")
  BY <1>2, <1>5, <1>6, AfterIs, OneProc
<1>8. DocAt(p)'
  BY <1>7, HookNames DEF DocAt, Rests, Editing
<1>9. ASSUME ~userRaced, ~together
      PROVE  /\ ~cutShort => OwnFile
             /\ IF proc[p].remove THEN Cleared(config.hooks) ELSE Current(config.hooks, proc[p].dir)
             /\ Kept(p) /\ (promise = "removed" => Cleared(config.hooks) /\ optOut)
             /\ promise = "installed" => Current(config.hooks, binDir)
  <2>1. /\ config = Json(proc[p].doc) /\ Kept(p) /\ (~cutShort => OwnFile)
        /\ promise = "removed" => Cleared(config.hooks) /\ optOut
        /\ promise = "installed" => Current(config.hooks, binDir)
    BY <1>1, <1>2, <1>9, Alone DEF OpenAt
  <2>2. config.hooks = proc[p].doc
    BY <1>2, <2>1, HookNames DEF Known
  <2> QED
    BY <1>2, <2>1, <2>2
<1>10. ASSUME ~userRaced, ~together, ~cutShort' PROVE OwnAt(p)' /\ OwnFile'
  BY <1>3, <1>7, <1>9, <1>10 DEF OwnAt, OwnFile, UsersOwn, Editing
<1>11. ASSUME ~userRaced, ~together
       PROVE  /\ OpenAt(p)' /\ Kept(p)'
              /\ promise' = "installed" => Current(config'.hooks, binDir)
              /\ promise' = "removed" => Cleared(config'.hooks) /\ optOut'
  <2>1. OpenAt(p)'
    BY <1>3, <1>6, <1>7, <1>9, <1>11 DEF OpenAt, Cleared
  <2>2. Kept(p)'
    BY <1>2, <1>3, <1>6, <1>7, <1>9, <1>11 DEF Kept, Rests
  <2>3. promise' = "installed" => Current(config.hooks, binDir)
    BY <1>3, <1>9, <1>11
  <2>4. promise' = "removed" => Cleared(config.hooks) /\ optOut
    BY <1>3, <1>9, <1>11
  <2> QED
    BY <1>3, <2>1, <2>2, <2>3, <2>4
<1>12. /\ config' \in Contents /\ backup' \in Contents /\ rewrite' \in Contents /\ optOut' \in BOOLEAN
       /\ promise' \in {"nothing", "installed", "removed"} /\ cutShort' \in BOOLEAN
  BY <1>2, <1>3 DEF HooksTypeOK
<1> QED
  BY <1>2, <1>3, <1>7, <1>8, <1>10, <1>11, <1>12, ProcSteps

LEMMA UnverifiedSteps == HooksInv /\ (\E p \in Procs : Unverified(p)) => HooksInv'
<1> SUFFICES ASSUME HooksInv, NEW p \in Procs, Unverified(p) PROVE HooksInv'
  OBVIOUS
<1>1. proc[p].pc = "verify" /\ proc[p].pc \in Editing
  BY DEF Unverified, At, Editing
<1>2. /\ IF proc[p].remove THEN Cleared(proc[p].doc) ELSE Current(proc[p].doc, proc[p].dir)
      /\ HooksTypeOK /\ ~Rests(p) /\ proc[p].pc # "opt out" /\ ~proc[p].done /\ proc[p] \in Known
  BY <1>1, Aims
<1>3. /\ UNCHANGED << backup, rewrite, optOut, binDir, theirs, userRaced, together, userBroke, cutShort >>
      /\ promise' = "nothing"
  BY DEF Unverified
<1>4. /\ backup' \in Contents /\ rewrite' \in Contents /\ optOut' \in BOOLEAN /\ cutShort' \in BOOLEAN
      /\ ~At(p, "put back")
  BY <1>1, <1>2, <1>3 DEF HooksTypeOK, At
<1>5. CASE GoesTo(p, After(p)) /\ UNCHANGED config
  <2>1. config' \in Contents
    BY <1>2, <1>5 DEF HooksTypeOK
  <2> QED
    BY <1>1, <1>3, <1>4, <1>5, <2>1, GivesUp
<1>6. CASE /\ proc[p].copy # Absent /\ config' = Empty
           /\ proc' = [proc EXCEPT ![p].pc = "put back", ![p].copy = backup, ![p].to = "file"]
  <2> DEFINE r == [proc[p] EXCEPT !.pc = "put back", !.copy = backup, !.to = "file"]
  <2>1. /\ r \in Known /\ r.pc = "put back" /\ r.to = "file" /\ r.copy = backup /\ r.doc = proc[p].doc
        /\ r.remove = proc[p].remove /\ r.done = proc[p].done /\ r.dir = proc[p].dir
    BY <1>2 DEF HooksTypeOK, Known, Places, Editing
  <2>2. proc' = [proc EXCEPT ![p] = r]
    BY <1>2, <1>6 DEF HooksTypeOK
  <2> HIDE DEF r
  <2>3. Others(p) /\ proc'[p] = r
    BY <1>2, <2>1, <2>2, OneProc
  <2>4. DocAt(p)'
    BY <1>2, <2>1, <2>3, HookNames DEF DocAt, HooksInv, Rests
  <2>5. ASSUME ~userRaced, ~together, ~cutShort' PROVE OwnAt(p)'
    <3>1. /\ UsersOwn(proc[p].doc) = theirs
          /\ backup.is # "broken" /\ UsersOwn(backup.hooks) = theirs
      BY <1>1, <1>2, <1>3, <1>6, <2>5, Alone DEF OwnAt, Old, Editing
    <3> QED
      BY <1>3, <2>1, <2>3, <3>1 DEF OwnAt, Old, UsersOwn, Editing
  <2>6. OpenAt(p)' /\ Kept(p)'
    BY <1>3, <1>6, <2>1, <2>3 DEF OpenAt, Kept, Empty, NoHooks
  <2>7. config' \in Contents /\ proc'[p].pc = "put back"
    BY <1>6, <2>1, <2>3, HookNames
  <2> QED
    BY <1>2, <1>3, <1>4, <2>3, <2>4, <2>5, <2>6, <2>7, ProcSteps
<1> QED
  BY <1>5, <1>6 DEF Unverified

LEMMA PutBackSteps == HooksInv /\ (\E p \in Procs : PutBack(p)) => HooksInv'
<1> SUFFICES ASSUME HooksInv, NEW p \in Procs, PutBack(p) PROVE HooksInv'
  OBVIOUS
<1>1. proc[p].pc = "put back" /\ proc[p].pc \in Editing
  BY DEF PutBack, At, Editing
<1>2. HooksTypeOK /\ ~Rests(p) /\ proc[p].pc # "opt out" /\ ~proc[p].done /\ proc[p] \in Known
  BY <1>1, Aims
<1>3. /\ UNCHANGED << backup, optOut, binDir, theirs, promise, userRaced, together, userBroke >>
      /\ GoesTo(p, After(p))
      /\ \/ Writes(p, proc[p].copy) /\ cutShort' = cutShort
         \/ (Writes(p, Torn) \/ UNCHANGED << config, rewrite >>) /\ cutShort' = TRUE
  BY DEF PutBack
<1>4. proc[p].copy \in Contents /\ Torn \in Contents
  BY <1>2, HookNames DEF Known
<1>5. /\ config' \in Contents /\ rewrite' \in Contents /\ backup' \in Contents
      /\ cutShort' \in BOOLEAN /\ (cutShort => cutShort') /\ optOut' \in BOOLEAN
      /\ promise' \in {"nothing", "installed", "removed"}
  <2>1. config' \in Contents /\ rewrite' \in Contents
    BY <1>2, <1>3, <1>4, WritesIs DEF HooksTypeOK
  <2>2. cutShort' \in BOOLEAN /\ (cutShort => cutShort')
    <3>1. cutShort \in BOOLEAN /\ (cutShort' = cutShort \/ cutShort' = TRUE)
      BY <1>2, <1>3 DEF HooksTypeOK
    <3> QED
      BY <3>1
  <2>3. backup' \in Contents /\ optOut' \in BOOLEAN /\ promise' \in {"nothing", "installed", "removed"}
    BY <1>2, <1>3 DEF HooksTypeOK
  <2> QED
    BY <2>1, <2>2, <2>3
<1>6. Goes(p, After(p))
  BY <1>2, <1>3, AfterIs, GoesIs DEF Places
<1>7. /\ Others(p) /\ proc'[p].pc \in {"idle", "opt out"} /\ (proc'[p].pc = "opt out" => p = "command")
      /\ proc'[p].pc # "idle" => ~proc'[p].done
  BY <1>2, <1>6, AfterIs DEF Goes
<1>8. DocAt(p)'
  BY <1>7, HookNames DEF DocAt, Rests, Editing
<1>9. ASSUME ~userRaced, ~together PROVE OpenAt(p) /\ (~cutShort => Old(proc[p].copy))
  BY <1>1, <1>2, <1>9, Alone DEF OwnAt
<1>10. ASSUME ~userRaced, ~together, ~cutShort' PROVE OwnAt(p)' /\ OwnFile'
  <2>1. proc[p].to = "file" /\ config = Empty /\ Old(proc[p].copy) /\ Writes(p, proc[p].copy)
    <3>1. ~(cutShort' = TRUE)
      BY <1>10
    <3>2. Writes(p, proc[p].copy) /\ cutShort' = cutShort
      BY <1>3, <3>1
    <3>3. ~cutShort
      BY <1>10, <3>2
    <3> QED
      BY <1>1, <1>9, <1>10, <3>2, <3>3 DEF OpenAt
  <2>2. config' = proc[p].copy
    BY <1>2, <1>4, <2>1, WritesIs
  <2>3. OwnFile'
    BY <1>3, <2>1, <2>2 DEF OwnFile, Old, UsersOwn
  <2> QED
    BY <1>7, <2>3 DEF OwnAt, Editing
<1>11. ASSUME ~userRaced, ~together
       PROVE  /\ OpenAt(p)' /\ Kept(p)'
              /\ promise' = "installed" => Current(config'.hooks, binDir)
              /\ promise' = "removed" => Cleared(config'.hooks) /\ optOut'
  <2>1. promise' = "nothing"
    BY <1>1, <1>3, <1>9, <1>11 DEF OpenAt
  <2> QED
    BY <1>7, <2>1 DEF OpenAt, Kept
<1> QED
  BY <1>2, <1>3, <1>5, <1>7, <1>8, <1>10, <1>11, ProcSteps

LEMMA OptOutSteps == HooksInv /\ OptOut => HooksInv'
<1> SUFFICES ASSUME HooksInv, OptOut PROVE HooksInv'
  OBVIOUS
<1> DEFINE p == "command"
<1>1. proc[p].pc = "opt out" /\ p \in Procs /\ ~Rests(p)
  BY HookNames DEF OptOut, At, Rests
<1> HIDE DEF p
<1>2. HooksTypeOK /\ proc[p] \in Known
  BY <1>1, Working DEF HooksInv
<1>3. UNCHANGED << config, backup, rewrite, binDir, theirs, userRaced, together, userBroke, cutShort >>
  BY DEF OptOut, FailsTo
<1>4. GoesTo(p, "idle")
  BY DEF OptOut, FailsTo, p
<1>5. Goes(p, "idle")
  BY <1>1, <1>2, <1>4, GoesIs
<1>6. /\ config' \in Contents /\ backup' \in Contents /\ rewrite' \in Contents /\ cutShort' \in BOOLEAN
      /\ ~At(p, "put back")
  BY <1>1, <1>2, <1>3 DEF HooksTypeOK, At
<1>7. CASE UNCHANGED << optOut, promise >>
  BY <1>1, <1>3, <1>5, <1>6, <1>7, Leaves
<1>8. CASE /\ optOut' = proc[p].remove
           /\ promise' = IF proc[p].remove /\ proc[p].done THEN "removed" ELSE promise
  <2>1. optOut' \in BOOLEAN /\ promise' \in {"nothing", "installed", "removed"}
    BY <1>2, <1>8 DEF HooksTypeOK, Known
  <2>2. Others(p) /\ proc'[p].pc = "idle"
    BY <1>5 DEF Goes
  <2>3. DocAt(p)' /\ OwnAt(p)' /\ OpenAt(p)' /\ Kept(p)'
    BY <2>2 DEF DocAt, OwnAt, OpenAt, Kept, Rests, Editing
  <2>4. ASSUME ~userRaced, ~together, ~cutShort' PROVE OwnFile'
    <3>1. OwnFile
      BY <1>1, <1>3, <2>4, Alone
    <3> QED
      BY <1>3, <3>1 DEF OwnFile, UsersOwn
  <2>5. ASSUME ~userRaced, ~together
        PROVE  /\ promise' = "installed" => Current(config.hooks, binDir)
               /\ promise' = "removed" => Cleared(config.hooks) /\ optOut'
    <3>1. /\ OpenAt(p) /\ Kept(p)
          /\ promise = "installed" => Current(config.hooks, binDir)
          /\ promise = "removed" => Cleared(config.hooks)
      BY <1>1, <2>5, Alone
    <3>2. CASE proc[p].remove /\ proc[p].done
      BY <1>1, <1>8, <3>1, <3>2 DEF OpenAt
    <3>3. CASE ~(proc[p].remove /\ proc[p].done)
      BY <1>1, <1>8, <3>1, <3>3 DEF Kept
    <3> QED
      BY <3>2, <3>3
  <2> QED
    BY <1>1, <1>3, <1>6, <2>1, <2>2, <2>3, <2>4, <2>5, ProcSteps
<1> QED
  BY <1>7, <1>8 DEF OptOut, FailsTo, p

LEMMA EditSteps == HooksInv /\ UserEdits => HooksInv'
<1> SUFFICES ASSUME HooksInv, UserEdits PROVE HooksInv'
  OBVIOUS
<1>1. HooksTypeOK /\ (\A p \in Procs : DocAt(p)) /\ OwnInv /\ PromiseInv
  BY DEF HooksInv
<1>2. /\ UNCHANGED << backup, rewrite, optOut, binDir, proc, together, cutShort >>
      /\ theirs' = UsersOwn(config'.hooks)
      /\ userRaced' = (userRaced \/ \E p \in Procs : proc[p].pc \in Editing)
  BY DEF UserEdits
<1>3. config \in Contents
  BY <1>1 DEF HooksTypeOK
<1>4. /\ config' \in Contents /\ userBroke' \in BOOLEAN
      /\ promise' \in {promise, "nothing"}
      /\ config'.is = "broken" => userBroke' \/ (userBroke' = userBroke /\ config.is = "broken")
      /\ Cleared(config.hooks) => Cleared(config'.hooks)
      /\ promise' = "installed" /\ Current(config.hooks, binDir) => Current(config'.hooks, binDir)
  <2>1. CASE \E e \in Events, h \in UserHooks :
               /\ config' = Json([config.hooks EXCEPT ![e] = << Block("user", h) >> \o @])
               /\ UNCHANGED << promise, userBroke >>
    <3>1. PICK e \in Events, h \in UserHooks :
             /\ config' = Json([config.hooks EXCEPT ![e] = << Block("user", h) >> \o @])
             /\ UNCHANGED << promise, userBroke >>
      BY <2>1
    <3> DEFINE b == Block("user", h)
               hs == [config.hooks EXCEPT ![e] = << b >> \o config.hooks[e]]
    <3>2. b \in Blocks /\ ~blockIsGoguma(b)
      BY HooksAssumption DEF Block, Blocks, blockIsGoguma
    <3> HIDE DEF b
    <3>3. config.hooks \in Hooks /\ \A f \in Events : config.hooks[f] \in Seq(Blocks)
      BY <1>3 DEF Hooks, Contents
    <3>4. /\ << b >> \o config.hooks[e] \in Seq(Blocks)
          /\ OursIn(config.hooks[e]) = {} => OursIn(<< b >> \o config.hooks[e]) = {}
          /\ \A c : Ours(config.hooks[e]) = << c >> => Ours(<< b >> \o config.hooks[e]) = << c >>
      BY <3>2, <3>3, Prepended
    <3>5. /\ hs \in Hooks /\ hs[e] = << b >> \o config.hooks[e]
          /\ \A f \in Events : f # e => hs[f] = config.hooks[f]
      BY <3>3, <3>4 DEF Hooks
    <3>6. config' = Json(hs)
      BY <3>1, <3>3 DEF b, Hooks
    <3> HIDE DEF hs
    <3>7. /\ config' \in Contents /\ config'.is = "json"
          /\ config'.hooks = hs
      BY <3>5, <3>6, HookNames
    <3>8. Cleared(config.hooks) => Cleared(hs)
      BY <3>4, <3>5 DEF Cleared
    <3>9. Current(config.hooks, binDir) => Current(hs, binDir)
      BY <3>4, <3>5 DEF Current, OnlyFor
    <3> QED
      BY <1>1, <3>1, <3>7, <3>8, <3>9 DEF HooksTypeOK
  <2>2. CASE \E e \in Events :
               /\ config.hooks[e] # << >> /\ config' = Json([config.hooks EXCEPT ![e] = Tail(@)])
               /\ promise' = (IF promise = "installed" THEN "nothing" ELSE promise)
               /\ UNCHANGED userBroke
    <3>1. PICK e \in Events :
             /\ config.hooks[e] # << >> /\ config' = Json([config.hooks EXCEPT ![e] = Tail(@)])
             /\ promise' = (IF promise = "installed" THEN "nothing" ELSE promise)
             /\ UNCHANGED userBroke
      BY <2>2
    <3> DEFINE hs == [config.hooks EXCEPT ![e] = Tail(config.hooks[e])]
    <3>2. config.hooks \in Hooks /\ \A f \in Events : config.hooks[f] \in Seq(Blocks)
      BY <1>3 DEF Hooks, Contents
    <3>3. /\ Tail(config.hooks[e]) \in Seq(Blocks)
          /\ OursIn(config.hooks[e]) = {} => OursIn(Tail(config.hooks[e])) = {}
      BY <3>1, <3>2, Shortened
    <3>4. /\ hs \in Hooks /\ hs[e] = Tail(config.hooks[e])
          /\ \A f \in Events : f # e => hs[f] = config.hooks[f]
      BY <3>2, <3>3 DEF Hooks
    <3>5. config' = Json(hs)
      BY <3>1, <3>2 DEF Hooks
    <3> HIDE DEF hs
    <3>6. /\ config' \in Contents /\ config'.is = "json"
          /\ config'.hooks = hs
      BY <3>4, <3>5, HookNames
    <3>7. Cleared(config.hooks) => Cleared(hs)
      BY <3>3, <3>4 DEF Cleared
    <3> QED
      BY <1>1, <3>1, <3>6, <3>7 DEF HooksTypeOK
  <2>3. CASE \E kind \in {"broken", "json"} :
               /\ config' = [config EXCEPT !.is = kind] /\ userBroke' = (kind = "broken")
               /\ UNCHANGED promise
    <3>1. PICK kind \in {"broken", "json"} :
             /\ config' = [config EXCEPT !.is = kind] /\ userBroke' = (kind = "broken")
             /\ UNCHANGED promise
      BY <2>3
    <3>2. /\ config' \in Contents /\ config'.is = kind
          /\ config'.hooks = config.hooks
      BY <1>3, <3>1 DEF FileKinds, Contents
    <3> QED
      BY <3>1, <3>2
  <2>4. CASE \E e \in Events, h \in UserHooks : \E i \in OursIn(config.hooks[e]) :
               /\ config' = Json([config.hooks EXCEPT ![e][i].beside = h])
               /\ UNCHANGED << promise, userBroke >>
    <3>1. PICK e \in Events, h \in UserHooks : \E i \in OursIn(config.hooks[e]) :
             /\ config' = Json([config.hooks EXCEPT ![e][i].beside = h])
             /\ UNCHANGED << promise, userBroke >>
      BY <2>4
    <3>2. PICK i \in OursIn(config.hooks[e]) :
             /\ config' = Json([config.hooks EXCEPT ![e][i].beside = h])
             /\ UNCHANGED << promise, userBroke >>
      BY <3>1
    <3> DEFINE t == [config.hooks[e] EXCEPT ![i].beside = h]
               hs == [config.hooks EXCEPT ![e] = t]
    <3>3. config.hooks \in Hooks /\ \A f \in Events : config.hooks[f] \in Seq(Blocks)
      BY <1>3 DEF Hooks, Contents
    <3>4. /\ t \in Seq(Blocks)
          /\ \A c : Ours(config.hooks[e]) = << c >> => Ours(t) = << [c EXCEPT !.beside = h] >>
      BY <3>3, Joined
    <3>5. config' = Json(hs)
      BY <3>2
    <3> HIDE DEF t
    <3>6. hs \in Hooks /\ hs[e] = t /\ \A f \in Events : f # e => hs[f] = config.hooks[f]
      BY <3>3, <3>4 DEF Hooks
    <3> HIDE DEF hs
    <3>7. config' \in Contents /\ config'.is = "json" /\ config'.hooks = hs
      BY <3>5, <3>6, HookNames
    <3>8. ~Cleared(config.hooks)
      BY <3>2 DEF Cleared
    <3>9. ASSUME Current(config.hooks, binDir), NEW f \in Events PROVE OnlyFor(hs[f], binDir, f)
      <4>1. OnlyFor(config.hooks[f], binDir, f)
        BY <3>9 DEF Current
      <4>2. CASE f = e
        <5>1. PICK g \in UserHooks \cup {"nothing"} :
                 Ours(config.hooks[e]) = << [Commands(binDir, e) EXCEPT !.beside = g] >>
          BY <4>1, <4>2 DEF OnlyFor
        <5>2. [[Commands(binDir, e) EXCEPT !.beside = g] EXCEPT !.beside = h]
                 = [Commands(binDir, e) EXCEPT !.beside = h]
          BY DEF Commands, Block
        <5>3. Ours(t) = << [[Commands(binDir, e) EXCEPT !.beside = g] EXCEPT !.beside = h] >>
          BY <3>4, <5>1
        <5> QED
          BY <3>6, <4>2, <5>2, <5>3 DEF OnlyFor
      <4>3. CASE f # e
        BY <3>6, <4>1, <4>3
      <4> QED
        BY <4>2, <4>3
    <3>10. Current(config.hooks, binDir) => Current(hs, binDir)
      BY <3>9 DEF Current
    <3> QED
      BY <1>1, <3>2, <3>7, <3>8, <3>10 DEF HooksTypeOK
  <2>5. \/ \E e \in Events, h \in UserHooks :
              /\ config' = Json([config.hooks EXCEPT ![e] = << Block("user", h) >> \o @])
              /\ UNCHANGED << promise, userBroke >>
        \/ \E e \in Events :
              /\ config.hooks[e] # << >> /\ config' = Json([config.hooks EXCEPT ![e] = Tail(@)])
              /\ promise' = (IF promise = "installed" THEN "nothing" ELSE promise)
              /\ UNCHANGED userBroke
        \/ \E kind \in {"broken", "json"} :
              /\ config' = [config EXCEPT !.is = kind] /\ userBroke' = (kind = "broken")
              /\ UNCHANGED promise
        \/ \E e \in Events, h \in UserHooks : \E i \in OursIn(config.hooks[e]) :
              /\ config' = Json([config.hooks EXCEPT ![e][i].beside = h])
              /\ UNCHANGED << promise, userBroke >>
    BY DEF UserEdits
  <2> QED
    BY <2>1, <2>2, <2>3, <2>4, <2>5
<1>5. HooksTypeOK'
  BY <1>1, <1>2, <1>4 DEF HooksTypeOK
<1>6. \A p \in Procs : DocAt(p)'
  BY <1>1, <1>2 DEF DocAt, Rests, Editing, Cleared, Current, OnlyFor
<1>7. ASSUME ~userRaced'
      PROVE  ~userRaced /\ \A p \in Procs : proc[p].pc \notin Editing
  BY <1>2, <1>7
<1>8. OwnInv'
  <2> SUFFICES ASSUME ~userRaced', ~together, ~cutShort PROVE OwnInv'
    BY <1>2 DEF OwnInv
  <2>1. config'.is = "broken" => userBroke'
    <3>1. config.is = "broken" => userBroke
      BY <1>1, <1>7 DEF OwnInv, OwnFile, At, Editing
    <3> QED
      BY <1>4, <3>1
  <2>2. OwnFile'
    BY <1>2, <2>1 DEF OwnFile, UsersOwn
  <2>3. \A p \in Procs : OwnAt(p)'
    BY <1>2, <1>7 DEF OwnAt, Editing
  <2> QED
    BY <2>2, <2>3 DEF OwnInv
<1>9. PromiseInv'
  <2>1. ~together' => \A q, s \in Procs : q # s => Rests(q)' \/ Rests(s)'
    BY <1>1, <1>2 DEF PromiseInv, Rests
  <2> SUFFICES ASSUME ~userRaced', ~together PROVE PromiseInv'
    BY <1>2, <2>1 DEF PromiseInv
  <2>2. /\ \A p \in Procs : OpenAt(p) /\ Kept(p)
        /\ promise = "installed" => Current(config.hooks, binDir)
        /\ promise = "removed" => Cleared(config.hooks) /\ optOut
    BY <1>1, <1>7 DEF PromiseInv
  <2>3. \A p \in Procs : OpenAt(p)'
    BY <1>2, <1>4, <1>7, <2>2 DEF OpenAt, Editing, Cleared
  <2>4. \A p \in Procs : Kept(p)'
    BY <1>2, <1>4, <2>2 DEF Kept, Rests
  <2>5. /\ promise' = "installed" => Current(config'.hooks, binDir)
        /\ promise' = "removed" => Cleared(config'.hooks) /\ optOut
    BY <1>4, <2>2
  <2> QED
    BY <1>2, <2>1, <2>3, <2>4, <2>5 DEF PromiseInv, Cleared, Current, OnlyFor
<1> QED
  BY <1>5, <1>6, <1>8, <1>9 DEF HooksInv

LEMMA MovesSteps == HooksInv /\ Moves => HooksInv'
<1> SUFFICES ASSUME HooksInv, Moves PROVE HooksInv'
  OBVIOUS
<1>1. HooksTypeOK /\ (\A p \in Procs : DocAt(p)) /\ OwnInv /\ PromiseInv
  BY DEF HooksInv
<1>2. /\ binDir' \in Dirs /\ promise' = (IF promise = "installed" THEN "nothing" ELSE promise)
      /\ UNCHANGED << config, backup, rewrite, optOut, proc, theirs, userRaced, together, userBroke,
                      cutShort >>
  BY DEF Moves
<1>3. HooksTypeOK'
  BY <1>1, <1>2 DEF HooksTypeOK
<1>4. \A p \in Procs : DocAt(p)'
  BY <1>1, <1>2 DEF DocAt, Rests, Cleared, Current, OnlyFor
<1>5. OwnInv'
  BY <1>1, <1>2 DEF OwnInv, OwnAt, OwnFile, Old, At, UsersOwn, Absent, NoHooks
<1>6. PromiseInv'
  BY <1>1, <1>2 DEF PromiseInv, OpenAt, Kept, Rests, Cleared, Current, OnlyFor, Empty, NoHooks, Json
<1> QED
  BY <1>3, <1>4, <1>5, <1>6 DEF HooksInv

LEMMA HooksStay == HooksInv /\ UNCHANGED agentHooksVars => HooksInv'
<1> SUFFICES ASSUME HooksInv, UNCHANGED agentHooksVars PROVE HooksInv'
  OBVIOUS
<1>1. HooksTypeOK /\ (\A p \in Procs : DocAt(p)) /\ OwnInv /\ PromiseInv
  BY DEF HooksInv
<1>2. UNCHANGED << config, backup, rewrite, optOut, binDir, proc, theirs, promise, userRaced,
                   together, userBroke, cutShort >>
  BY DEF agentHooksVars
<1>3. HooksTypeOK'
  BY <1>1, <1>2 DEF HooksTypeOK
<1>4. \A p \in Procs : DocAt(p)'
  BY <1>1, <1>2 DEF DocAt, Rests, Cleared, Current, OnlyFor
<1>5. OwnInv'
  BY <1>1, <1>2 DEF OwnInv, OwnAt, OwnFile, Old, At, UsersOwn, Absent, NoHooks
<1>6. PromiseInv'
  BY <1>1, <1>2 DEF PromiseInv, OpenAt, Kept, Rests, Cleared, Current, OnlyFor, Empty, NoHooks, Json
<1> QED
  BY <1>3, <1>4, <1>5, <1>6 DEF HooksInv

\* As long as the command and the daemon do not edit the file at once, the user does not write it
\* in the middle of an edit and no restore is cut short: whatever fails or dies, the user's hooks
\* are in the file, in what is to replace it and in its copy.  What a process is to write has
\* goguma's hooks as they were wanted when it began, whatever overlaps, and a promise is kept by
\* what is still under way: for any harness, directories, hooks and number of failures.
THEOREM HooksInvariant == AgentHooksSpec => []HooksInv
<1>1. HooksInv /\ [AgentHooksNext]_agentHooksVars => HooksInv'
  <2>1. AgentHooksNext =>
           \/ (\E remove \in BOOLEAN : hooksApply(remove)) \/ reconcileAgentHooks \/ Inspect
           \/ (\E p \in Procs : ReadConfig(p)) \/ (\E p \in Procs : BackUp(p))
           \/ (\E p \in Procs : FillBackup(p)) \/ (\E p \in Procs : OpenTmp(p))
           \/ (\E p \in Procs : FillTmp(p)) \/ (\E p \in Procs : Rename(p))
           \/ (\E p \in Procs : Verified(p)) \/ (\E p \in Procs : Unverified(p))
           \/ (\E p \in Procs : PutBack(p)) \/ (\E p \in Procs : Dies(p))
           \/ OptOut \/ UserEdits \/ Moves
    BY DEF AgentHooksNext
  <2> QED
    BY <2>1, StartSteps, InspectSteps, ReadSteps, BackUpSteps, FillBackupSteps, OpenSteps, FillSteps,
       PlaceSteps, VerifiedSteps, UnverifiedSteps, PutBackSteps, DiesSteps, OptOutSteps, EditSteps,
       MovesSteps, HooksStay
<1> QED
  BY HooksStart, <1>1, PTL DEF AgentHooksSpec

\* As long as the two do not overlap and the user does not write the file in the middle of an
\* edit, the user's hooks that share no block with goguma's stay in it, in their order, and it
\* stays one that the agent can read, but for a restore that is cut short; goguma's are there
\* once, for the goguma there is, or stay away, as the user was told: for any harness,
\* directories, hooks and number of failures.
THEOREM UsersFilesAreKept == AgentHooksSpec => []HooksKeepUsersFile
<1>1. HooksInv => HooksKeepUsersFile
  <2> SUFFICES ASSUME HooksInv, ~userRaced, ~together PROVE HooksKeepUsersFile
    BY DEF HooksKeepUsersFile
  <2>1. OwnInv /\ PromiseInv
    BY DEF HooksInv
  <2>2. ~cutShort /\ (\A p \in Procs : ~At(p, "put back")) =>
           UsersOwn(config.hooks) = theirs /\ (config.is = "broken" => userBroke)
    BY <2>1 DEF OwnInv, OwnFile
  <2>3. promise = "installed" => Current(config.hooks, binDir)
    BY <2>1 DEF PromiseInv
  <2>4. promise = "removed" => Found(config.hooks) = {}
    BY <2>1, FoundIs DEF PromiseInv
  <2> QED
    BY <2>2, <2>3, <2>4 DEF HooksKeepUsersFile, Current, OnlyFor
<1> QED
  BY HooksInvariant, <1>1, PTL
=============================================================================
