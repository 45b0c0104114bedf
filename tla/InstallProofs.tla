---------------------------- MODULE InstallProofs ---------------------------
(***************************************************************************)
(* Theorems about Install, for any releases and any number of commands,    *)
(* failed calls, kills, crashes and reboots: what `goguma install` and     *)
(* `goguma uninstall` report is so, and stays so, but for what uninstall   *)
(* leaves behind without a word: the `.new` of a copy that was cut short,  *)
(* and a service that would not stop.                                      *)
(*                                                                         *)
(* And about Import, for any candidates, crontab and plist, any failed     *)
(* calls and any number of the user's edits: what `goguma import           *)
(* --register` changes it changes whole, or puts back.                     *)
(***************************************************************************)
EXTENDS Install, Import, SequenceTheorems, FiniteSetTheorems, WellFoundedInduction, TLAPS

Words == Names \cup {"write daemon unit", "load daemon", "install helper",
                    "write helper unit", "load helper", "stop daemon", "stop helper",
                    "remove daemon unit", "remove helper unit", "remove helper"}
Version == Versions \cup {NoVersion}
Script == [does : {"nothing", "install", "uninstall"}, from : [Names -> Version],
           withHelper : BOOLEAN, left : Seq(Words), problems : Nat]
Claims == {"nothing", "installed", "installed without helper", "uninstalled"}

\* The types of the state. Without a command there is no script at all.
InstallTypeOK ==
    /\ platform \in {"darwin", "linux"}
    /\ binaries \in [Names -> Version] /\ helperBinary \in Version
    /\ units \subseteq Services /\ running \in [Services -> Version]
    /\ script \in Script /\ (script.does = "nothing" => script = NoScript)
    /\ partial \subseteq Opened /\ abandoned \in BOOLEAN
    /\ claim \in Claims /\ scripts \in Nat
    /\ refused \in [Services -> Nat] /\ \A s \in Services : refused[s] <= scripts

\* What is left of a list of steps once k of them were taken, and what was taken.
After(steps, k) == [i \in 1..(Len(steps) - k) |-> steps[i + k]]
Taken(steps, k, x) == \E i \in 1..k : steps[i] = x

\* After k steps of a plan, what they put in place is there.
Placed(steps, k) ==
    /\ \A n \in Names : Taken(steps, k, n) => binaries[n] = script.from[n]
    /\ Taken(steps, k, "install helper") => helperBinary = script.from["goguma-helper"]
    /\ Taken(steps, k, "write daemon unit") => "daemon" \in units
    /\ Taken(steps, k, "write helper unit") => "helper" \in units
    /\ \A x \in Opened : Taken(steps, k, x) => x \notin partial
    /\ platform = "darwin" =>
          /\ Taken(steps, k, "load daemon") => running["daemon"] = binaries["goguma-daemon"]
          /\ Taken(steps, k, "load helper") => running["helper"] = helperBinary

\* A service runs only if it would not stop.
Stopped(s) == running[s] = NoVersion \/ refused[s] # 0

\* After k removals, what they were for is gone: services unless they would not stop, and files
\* unless there were problems.
Gone(k) ==
    /\ Taken(Removals, k, "stop daemon") => Stopped("daemon")
    /\ Taken(Removals, k, "stop helper") => Stopped("helper")
    /\ script.problems = 0 =>
          /\ \A n \in Names : Taken(Removals, k, n) => binaries[n] = NoVersion
          /\ Taken(Removals, k, "remove helper") => helperBinary = NoVersion
          /\ Taken(Removals, k, "remove daemon unit") => /\ "daemon" \notin units
                                                         /\ "write daemon unit" \notin partial
          /\ Taken(Removals, k, "remove helper unit") => "helper" \notin units

\* Where the command is in its list, and what it has done so far.
Installing(steps) ==
    /\ \A n \in Names :
          script.from[n] # NoVersion \/ (n = "goguma-helper" /\ ~script.withHelper)
    /\ \E k \in 0..Len(steps) : script.left = After(steps, k) /\ Placed(steps, k)
Uninstalling ==
    /\ scripts > 0 /\ (script.problems = 0 => refused["helper"] < scripts)
    /\ \E k \in 0..Len(Removals) : script.left = After(Removals, k) /\ Gone(k)

\* What a report says, for as long as it holds.
Reports ==
    /\ claim # "nothing" => script = NoScript
    /\ claim = "installed" =>
          /\ units = Services /\ partial = {}
          /\ \A n \in Names : binaries[n] # NoVersion
          /\ helperBinary = binaries["goguma-helper"]
          /\ \A s \in Services : running[s] # NoVersion
          /\ platform = "darwin" => \A s \in Services : running[s] = Binary(s)
    /\ claim = "uninstalled" =>
          /\ units = {} /\ helperBinary = NoVersion
          /\ \A n \in Names : binaries[n] = NoVersion
          /\ "write daemon unit" \notin partial
          /\ \A s \in Services : Stopped(s)
          /\ refused["helper"] < scripts

\* But for one that would not stop, no service runs without its program, nor the helper without
\* the file that uninstall looks for before it stops it.
Backed ==
    /\ \A s \in Services : Stopped(s) \/ Binary(s) # NoVersion
    /\ Stopped("helper") \/ "helper" \in units

\* A `.new` is there while it is written, or after a copy that ended before its rename.
LeftBeside ==
    abandoned \/ \A n \in partial \cap Names : script.does = "install" /\ n = Step

\* The inductive invariant.
InstallInv ==
    /\ InstallTypeOK /\ Reports /\ Backed /\ LeftBeside
    /\ script.does = "install" => Installing(BuildPlan(script.withHelper))
    /\ script.does = "uninstall" => Uninstalling

-----------------------------------------------------------------------------
(* The lists of steps. *)

\* The steps are taken from the front, one at a time.
LEMMA AfterSteps ==
    ASSUME NEW steps \in Seq(Words), NEW k \in 0..Len(steps)
    PROVE  /\ After(steps, k) \in Seq(Words)
           /\ After(steps, 0) = steps
           /\ k = Len(steps) => After(steps, k) = << >>
           /\ k < Len(steps) => /\ After(steps, k) # << >>
                                /\ Head(After(steps, k)) = steps[k + 1]
                                /\ Tail(After(steps, k)) = After(steps, k + 1)
<1> DEFINE q == After(steps, k)
           m == Len(steps) - k
<1>1. Len(steps) \in Nat /\ k \in Nat /\ m \in Nat
  OBVIOUS
<1>2. q \in [1..m -> Words]
  <2>1. \A i \in 1..m : i + k \in 1..Len(steps)
    BY <1>1
  <2>2. \A i \in 1..m : steps[i + k] \in Words
    BY <2>1
  <2> QED
    BY <2>2 DEF After
<1>3. q \in Seq(Words) /\ Len(q) = m /\ \A i \in 1..m : q[i] = steps[i + k]
  BY <1>1, <1>2 DEF After
<1>4. After(steps, 0) = steps
  <2>1. After(steps, 0) = [i \in 1..Len(steps) |-> steps[i]]
    <3>1. Len(steps) - 0 = Len(steps) /\ \A i \in 1..Len(steps) : i + 0 = i
      BY <1>1
    <3> QED
      BY <3>1 DEF After
  <2> QED
    BY <2>1
<1>5. k = Len(steps) => q = << >>
  BY <1>1, <1>3
<1>6. ASSUME k < Len(steps)
      PROVE  q # << >> /\ Head(q) = steps[k + 1] /\ Tail(q) = After(steps, k + 1)
  <2>1. m > 0 /\ 1 \in 1..m /\ 1 + k = k + 1 /\ Len(steps) - (k + 1) = m - 1
    BY <1>1, <1>6
  <2>2. q # << >>
    BY <1>3, <2>1
  <2>3. Head(q) = q[1]
    BY <1>3, <2>2
  <2>4. /\ Tail(q) \in Seq(Words) /\ Len(Tail(q)) = m - 1
        /\ \A i \in 1..(m - 1) : Tail(q)[i] = q[i + 1]
    BY <1>3, <2>2, HeadTailProperties
  <2>5. \A i \in 1..(m - 1) : i + 1 \in 1..m /\ (i + 1) + k = i + (k + 1)
    BY <1>1
  <2> HIDE DEF q
  <2>6. \A i \in 1..(m - 1) : Tail(q)[i] = steps[i + (k + 1)]
    BY <1>3, <2>4, <2>5
  <2> DEFINE t == Tail(q)
             l == m - 1
  <2>7. t \in [1..l -> Words]
    <3>1. t \in Seq(Words) /\ Len(t) = l
      BY <2>4
    <3> HIDE DEF t, l
    <3> QED
      BY <3>1
  <2>8. t = [i \in 1..l |-> steps[i + (k + 1)]]
    <3>1. \A i \in 1..l : t[i] = steps[i + (k + 1)]
      BY <2>6
    <3> HIDE DEF t, l
    <3> QED
      BY <2>7, <3>1
  <2>9. Tail(q) = After(steps, k + 1)
    BY <2>1, <2>8 DEF After
  <2> QED
    BY <1>3, <2>1, <2>2, <2>3, <2>9
<1> QED
  BY <1>3, <1>4, <1>5, <1>6

LEMMA TakenNext ==
    ASSUME NEW steps, NEW k \in Nat
    PROVE  /\ \A x : Taken(steps, k + 1, x) <=> Taken(steps, k, x) \/ x = steps[k + 1]
           /\ \A x : ~Taken(steps, 0, x)
<1>1. \A i : i \in 1..(k + 1) <=> i \in 1..k \/ i = k + 1
  OBVIOUS
<1>2. \A i : i \notin 1..0
  OBVIOUS
<1> QED
  BY <1>1, <1>2 DEF Taken

\* The lists that are used are of five and of nine steps.
LEMMA Lists ==
    ASSUME NEW S, NEW a \in S, NEW b \in S, NEW c \in S, NEW d \in S, NEW e \in S,
           NEW f \in S, NEW g \in S, NEW h \in S, NEW i \in S
    PROVE  << a, b, c, d, e >> \in Seq(S) /\ << a, b, c, d, e, f, g, h, i >> \in Seq(S)
  OBVIOUS

LEMMA FiveOf ==
    ASSUME NEW a, NEW b, NEW c, NEW d, NEW e
    PROVE  LET q == << a, b, c, d, e >>
           IN  Len(q) = 5 /\ q[1] = a /\ q[2] = b /\ q[3] = c /\ q[4] = d /\ q[5] = e
  OBVIOUS

LEMMA NineOf ==
    ASSUME NEW a, NEW b, NEW c, NEW d, NEW e, NEW f, NEW g, NEW h, NEW i
    PROVE  LET q == << a, b, c, d, e, f, g, h, i >>
           IN  /\ Len(q) = 9 /\ q[1] = a /\ q[2] = b /\ q[3] = c /\ q[4] = d /\ q[5] = e
               /\ q[6] = f /\ q[7] = g /\ q[8] = h /\ q[9] = i
  OBVIOUS

LEMMA Places ==
    /\ \A i \in 1..5 : i = 1 \/ i = 2 \/ i = 3 \/ i = 4 \/ i = 5
    /\ \A i \in 1..9 : \/ i = 1 \/ i = 2 \/ i = 3 \/ i = 4 \/ i = 5
                        \/ i = 6 \/ i = 7 \/ i = 8 \/ i = 9
    /\ 1 \in 1..5 /\ 2 \in 1..5 /\ 3 \in 1..5 /\ 4 \in 1..5 /\ 5 \in 1..5
    /\ 1 \in 1..9 /\ 2 \in 1..9 /\ 3 \in 1..9 /\ 4 \in 1..9 /\ 5 \in 1..9
    /\ 6 \in 1..9 /\ 7 \in 1..9 /\ 8 \in 1..9 /\ 9 \in 1..9
  OBVIOUS

\* The steps of a plan, and those that only a plan with the helper has.
Steps == Names \cup {"write daemon unit", "load daemon", "install helper", "write helper unit",
                     "load helper"}
HelperSteps == {"goguma-helper", "install helper", "write helper unit", "load helper"}

\* A plan replaces a program before it loads the service that runs it, writes the unit of the
\* helper before it loads that, and leaves out nothing (BuildPlan).
LEMMA Plans ==
    ASSUME NEW h \in BOOLEAN
    PROVE  LET p == BuildPlan(h)
           IN  /\ p \in Seq(Words)
               /\ \A i \in 1..Len(p) : p[i] \in Steps /\ (p[i] \in HelperSteps => h)
               /\ \A k \in 0..(Len(p) - 1) :
                     /\ ~Taken(p, k, p[k + 1])
                     /\ p[k + 1] = "goguma-daemon" => ~Taken(p, k, "load daemon")
                     /\ p[k + 1] = "install helper" => ~Taken(p, k, "load helper")
                     /\ p[k + 1] = "load daemon" => Taken(p, k, "goguma-daemon")
                     /\ p[k + 1] = "load helper" => /\ Taken(p, k, "install helper")
                                                    /\ Taken(p, k, "write helper unit")
               /\ \A x \in Steps : (x \in HelperSteps => h) => Taken(p, Len(p), x)
<1> DEFINE p == BuildPlan(h)
<1>1. CASE h = TRUE
  <2>1. p = << "goguma", "goguma-daemon", "goguma-mark", "goguma-helper",
               "write daemon unit", "load daemon", "install helper",
               "write helper unit", "load helper" >>
    BY <1>1 DEF BuildPlan
  <2> HIDE DEF p
  <2>s. p \in Seq(Words)
    <3>1. /\ "goguma" \in Words /\ "goguma-daemon" \in Words /\ "goguma-mark" \in Words
          /\ "goguma-helper" \in Words /\ "write daemon unit" \in Words
          /\ "load daemon" \in Words /\ "install helper" \in Words
          /\ "write helper unit" \in Words /\ "load helper" \in Words
      BY DEF Words, Names
    <3> QED
      BY <2>1, <3>1, Lists
  <2>2. /\ Len(p) = 9
        /\ p[1] = "goguma" /\ p[2] = "goguma-daemon" /\ p[3] = "goguma-mark"
        /\ p[4] = "goguma-helper" /\ p[5] = "write daemon unit" /\ p[6] = "load daemon"
        /\ p[7] = "install helper" /\ p[8] = "write helper unit" /\ p[9] = "load helper"
    BY <2>1, NineOf
  <2>3. \A i \in 1..9 : /\ p[i] \in Steps
                        /\ p[i] = "goguma-daemon" => i = 2
                        /\ p[i] = "load daemon" => i = 6
                        /\ p[i] = "install helper" => i = 7
                        /\ p[i] = "write helper unit" => i = 8
                        /\ p[i] = "load helper" => i = 9
    BY <2>2, Places DEF Steps, Names
  <2>d. \A i, j \in 1..9 : p[i] = p[j] => i = j
    BY <2>2, Places
  <2>4. ASSUME NEW k \in 0..8
        PROVE  /\ ~Taken(p, k, p[k + 1])
               /\ p[k + 1] = "goguma-daemon" => ~Taken(p, k, "load daemon")
               /\ p[k + 1] = "install helper" => ~Taken(p, k, "load helper")
               /\ p[k + 1] = "load daemon" => Taken(p, k, "goguma-daemon")
               /\ p[k + 1] = "load helper" => /\ Taken(p, k, "install helper")
                                              /\ Taken(p, k, "write helper unit")
    <3>1. k + 1 \in 1..9 /\ \A i \in 1..k : i \in 1..9 /\ i # k + 1
      OBVIOUS
    <3>d. ~Taken(p, k, p[k + 1])
      BY <2>d, <3>1 DEF Taken
    <3>2. ASSUME p[k + 1] = "goguma-daemon" PROVE ~Taken(p, k, "load daemon")
      <4>1. k + 1 = 2
        BY <2>3, <3>1, <3>2
      <4>2. 6 \notin 1..k
        BY <4>1
      <4>3. \A i \in 1..k : p[i] # "load daemon"
        BY <2>3, <3>1, <4>2
      <4> QED
        BY <4>3 DEF Taken
    <3>3. ASSUME p[k + 1] = "install helper" PROVE ~Taken(p, k, "load helper")
      <4>1. k + 1 = 7
        BY <2>3, <3>1, <3>3
      <4>2. 9 \notin 1..k
        BY <4>1
      <4>3. \A i \in 1..k : p[i] # "load helper"
        BY <2>3, <3>1, <4>2
      <4> QED
        BY <4>3 DEF Taken
    <3>4. ASSUME p[k + 1] = "load daemon"
          PROVE  Taken(p, k, "goguma-daemon")
      <4>1. k + 1 = 6
        BY <2>3, <3>1, <3>4
      <4>2. 2 \in 1..k
        BY <4>1
      <4> QED
        BY <2>2, <4>2 DEF Taken
    <3>5. ASSUME p[k + 1] = "load helper"
          PROVE  Taken(p, k, "install helper") /\ Taken(p, k, "write helper unit")
      <4>1. k + 1 = 9
        BY <2>3, <3>1, <3>5
      <4>2. 7 \in 1..k /\ 8 \in 1..k
        BY <4>1
      <4> QED
        BY <2>2, <4>2 DEF Taken
    <3> QED
      BY <3>d, <3>2, <3>3, <3>4, <3>5
  <2>5. \A x \in Steps : Taken(p, 9, x)
    BY <2>2, Places DEF Steps, Names, Taken
  <2>6. 9 - 1 = 8
    OBVIOUS
  <2>7. /\ \A i \in 1..Len(p) : p[i] \in Steps
        /\ \A k \in 0..(Len(p) - 1) : k \in 0..8
        /\ \A x \in Steps : Taken(p, Len(p), x)
    BY <2>2, <2>3, <2>5, <2>6
  <2> QED
    BY <1>1, <2>s, <2>4, <2>7 DEF p
<1>2. CASE h = FALSE
  <2>1. p = << "goguma", "goguma-daemon", "goguma-mark", "write daemon unit", "load daemon" >>
    BY <1>2 DEF BuildPlan
  <2> HIDE DEF p
  <2>s. p \in Seq(Words)
    <3>1. /\ "goguma" \in Words /\ "goguma-daemon" \in Words /\ "goguma-mark" \in Words
          /\ "write daemon unit" \in Words /\ "load daemon" \in Words
      BY DEF Words, Names
    <3> QED
      BY <2>1, <3>1, Lists
  <2>2. /\ Len(p) = 5
        /\ p[1] = "goguma" /\ p[2] = "goguma-daemon" /\ p[3] = "goguma-mark"
        /\ p[4] = "write daemon unit" /\ p[5] = "load daemon"
    BY <2>1, FiveOf
  <2>3. \A i \in 1..5 : /\ p[i] \in Steps /\ p[i] \notin HelperSteps
                        /\ p[i] = "goguma-daemon" => i = 2
                        /\ p[i] = "load daemon" => i = 5
    BY <2>2, Places DEF Steps, Names, HelperSteps
  <2>d. \A i, j \in 1..5 : p[i] = p[j] => i = j
    BY <2>2, Places
  <2>4. ASSUME NEW k \in 0..4
        PROVE  /\ ~Taken(p, k, p[k + 1])
               /\ p[k + 1] = "goguma-daemon" => ~Taken(p, k, "load daemon")
               /\ p[k + 1] # "install helper" /\ p[k + 1] # "load helper"
               /\ p[k + 1] = "load daemon" => Taken(p, k, "goguma-daemon")
    <3>1. k + 1 \in 1..5 /\ \A i \in 1..k : i \in 1..5 /\ i # k + 1
      OBVIOUS
    <3>d. ~Taken(p, k, p[k + 1])
      BY <2>d, <3>1 DEF Taken
    <3>2. ASSUME p[k + 1] = "goguma-daemon" PROVE ~Taken(p, k, "load daemon")
      <4>1. k + 1 = 2
        BY <2>3, <3>1, <3>2
      <4>2. 5 \notin 1..k
        BY <4>1
      <4>3. \A i \in 1..k : p[i] # "load daemon"
        BY <2>3, <3>1, <4>2
      <4> QED
        BY <4>3 DEF Taken
    <3>3. p[k + 1] # "install helper" /\ p[k + 1] # "load helper"
      BY <2>3, <3>1 DEF HelperSteps
    <3>4. ASSUME p[k + 1] = "load daemon"
          PROVE  Taken(p, k, "goguma-daemon")
      <4>1. k + 1 = 5
        BY <2>3, <3>1, <3>4
      <4>2. 2 \in 1..k
        BY <4>1
      <4> QED
        BY <2>2, <4>2 DEF Taken
    <3> QED
      BY <3>d, <3>2, <3>3, <3>4
  <2>5. \A x \in Steps \ HelperSteps : Taken(p, 5, x)
    BY <2>2, Places DEF Steps, Names, HelperSteps, Taken
  <2>6. 5 - 1 = 4
    OBVIOUS
  <2>7. /\ \A i \in 1..Len(p) : p[i] \in Steps /\ p[i] \notin HelperSteps
        /\ \A k \in 0..(Len(p) - 1) : k \in 0..4
        /\ \A x \in Steps \ HelperSteps : Taken(p, Len(p), x)
    BY <2>2, <2>3, <2>5, <2>6
  <2> QED
    BY <1>2, <2>s, <2>4, <2>7 DEF p
<1> QED
  BY <1>1, <1>2

RemovalSteps == Names \cup {"stop daemon", "stop helper", "remove daemon unit",
                            "remove helper unit", "remove helper"}

\* Uninstall stops a service before it takes away its program, and the helper before the unit
\* file without which it would not stop it; and it leaves nothing out (Removals).
LEMMA RemovalOrder ==
    /\ Removals \in Seq(Words) /\ Len(Removals) = 9
    /\ \A i \in 1..9 : Removals[i] \in RemovalSteps
    /\ \A k \in 0..8 :
          /\ Removals[k + 1] = "goguma-daemon" => Taken(Removals, k, "stop daemon")
          /\ Removals[k + 1] = "remove helper unit" => Taken(Removals, k, "stop helper")
          /\ Removals[k + 1] = "remove helper" => Taken(Removals, k, "stop helper")
    /\ \A x \in RemovalSteps : Taken(Removals, 9, x)
<1> DEFINE p == Removals
<1>1. p = << "stop daemon", "stop helper", "remove daemon unit", "goguma-daemon", "goguma-mark",
             "goguma-helper", "goguma", "remove helper unit", "remove helper" >>
  BY DEF Removals
<1> HIDE DEF p
<1>s. p \in Seq(Words)
  <2>1. /\ "stop daemon" \in Words /\ "stop helper" \in Words /\ "remove daemon unit" \in Words
        /\ "goguma-daemon" \in Words /\ "goguma-mark" \in Words /\ "goguma-helper" \in Words
        /\ "goguma" \in Words /\ "remove helper unit" \in Words /\ "remove helper" \in Words
    BY DEF Words, Names
  <2> QED
    BY <1>1, <2>1, Lists
<1>2. /\ Len(p) = 9
      /\ p[1] = "stop daemon" /\ p[2] = "stop helper"
      /\ p[3] = "remove daemon unit" /\ p[4] = "goguma-daemon"
      /\ p[5] = "goguma-mark" /\ p[6] = "goguma-helper" /\ p[7] = "goguma"
      /\ p[8] = "remove helper unit" /\ p[9] = "remove helper"
  BY <1>1, NineOf
<1>3. \A i \in 1..9 : /\ p[i] \in RemovalSteps
                      /\ p[i] = "stop daemon" => i = 1
                      /\ p[i] = "stop helper" => i = 2
                      /\ p[i] = "goguma-daemon" => i = 4
                      /\ p[i] = "remove helper unit" => i = 8
                      /\ p[i] = "remove helper" => i = 9
  BY <1>2, Places DEF RemovalSteps, Names
<1>4. ASSUME NEW k \in 0..8
      PROVE  /\ p[k + 1] = "goguma-daemon" => Taken(p, k, "stop daemon")
             /\ p[k + 1] = "remove helper unit" => Taken(p, k, "stop helper")
             /\ p[k + 1] = "remove helper" => Taken(p, k, "stop helper")
  <2>1. k + 1 \in 1..9 /\ \A i \in 1..k : i \in 1..9
    OBVIOUS
  <2>2. ASSUME p[k + 1] = "goguma-daemon"
        PROVE  Taken(p, k, "stop daemon")
    <3>1. k + 1 = 4
      BY <1>3, <2>1, <2>2
    <3>2. 1 \in 1..k
      BY <3>1
    <3> QED
      BY <1>2, <3>2 DEF Taken
  <2>3. ASSUME p[k + 1] = "remove helper unit"
        PROVE  Taken(p, k, "stop helper")
    <3>1. k + 1 = 8
      BY <1>3, <2>1, <2>3
    <3>2. 2 \in 1..k
      BY <3>1
    <3> QED
      BY <1>2, <3>2 DEF Taken
  <2>4. ASSUME p[k + 1] = "remove helper"
        PROVE  Taken(p, k, "stop helper")
    <3>1. k + 1 = 9
      BY <1>3, <2>1, <2>4
    <3>2. 2 \in 1..k
      BY <3>1
    <3> QED
      BY <1>2, <3>2 DEF Taken
  <2> QED
    BY <2>2, <2>3, <2>4
<1>5. \A x \in RemovalSteps : Taken(p, 9, x)
  BY <1>2, Places DEF RemovalSteps, Names, Taken
<1> QED
  BY <1>s, <1>2, <1>3, <1>4, <1>5 DEF p

-----------------------------------------------------------------------------
(* The steps of a command. *)

\* Where a command is in its list tells which step is the next.
LEMMA NextStep ==
    ASSUME InstallTypeOK, NEW steps \in Seq(Words), NEW k \in 0..Len(steps),
           script.left = After(steps, k)
    PROVE  /\ Step = "end" => k = Len(steps)
           /\ Step # "end" =>
                 /\ k + 1 \in 1..Len(steps) /\ Step = steps[k + 1]
                 /\ Rest \in Script /\ Rest.does = script.does /\ Rest.from = script.from
                 /\ Rest.withHelper = script.withHelper /\ Rest.problems = script.problems
                 /\ Rest.left = After(steps, k + 1)
<1>1. script \in Script /\ Len(steps) \in Nat
  BY DEF InstallTypeOK
<1>2. CASE k = Len(steps)
  <2>1. Step = "end"
    BY <1>2, AfterSteps DEF Step
  <2> QED
    BY <1>2, <2>1
<1>3. CASE k < Len(steps)
  <2>1. /\ script.left # << >> /\ Head(script.left) = steps[k + 1]
        /\ Tail(script.left) = After(steps, k + 1)
    BY <1>3, AfterSteps
  <2>2. k + 1 \in 1..Len(steps) /\ k + 1 \in 0..Len(steps)
    BY <1>1, <1>3
  <2>3. Step = steps[k + 1]
    BY <2>1 DEF Step
  <2>4. Step # "end"
    <3>1. Step \in Words
      BY <2>2, <2>3
    <3> QED
      BY <3>1 DEF Words, Names
  <2>5. Tail(script.left) \in Seq(Words)
    BY <2>1, <2>2, AfterSteps
  <2>6. Rest = [script EXCEPT !.left = Tail(script.left)]
    BY DEF Rest
  <2>7. /\ Rest \in Script /\ Rest.does = script.does /\ Rest.from = script.from
        /\ Rest.withHelper = script.withHelper /\ Rest.problems = script.problems
        /\ Rest.left = Tail(script.left)
    BY <1>1, <2>5, <2>6 DEF Script
  <2> QED
    BY <2>1, <2>2, <2>3, <2>4, <2>7
<1> QED
  BY <1>1, <1>2, <1>3

\* A script is one of the two commands, or none.
LEMMA Scripts ==
    /\ NoScript \in Script /\ NoScript.does = "nothing"
    /\ InstallTypeOK => /\ script = NoScript \/ script.does \in {"install", "uninstall"}
                        /\ script # NoScript => script.does \in {"install", "uninstall"}
<1>1. [n \in Names |-> NoVersion] \in [Names -> Version]
  BY DEF Version
<1>2. NoScript \in Script /\ NoScript.does = "nothing"
  BY <1>1 DEF NoScript, Script
<1> QED
  BY <1>2 DEF InstallTypeOK, Script

-----------------------------------------------------------------------------
(* The invariant is kept. *)

LEMMA InstallStart == InstallInit => InstallInv
<1> SUFFICES ASSUME InstallInit PROVE InstallInv
  OBVIOUS
<1>1. /\ binaries \in [Names -> Version] /\ helperBinary \in Version
      /\ running \in [Services -> Version]
  BY DEF InstallInit, Version
<1>r. /\ scripts \in Nat /\ refused \in [Services -> Nat]
      /\ \A s \in Services : refused[s] <= scripts
  BY DEF InstallInit
<1>2. \A s \in Services : running[s] = NoVersion
  BY DEF InstallInit
<1>3. InstallTypeOK
  BY <1>1, <1>r, Scripts DEF InstallInit, InstallTypeOK, Claims
<1>d. LeftBeside
  BY DEF InstallInit, LeftBeside
<1>4. running["helper"] = NoVersion
  BY <1>2 DEF Services
<1> QED
  BY <1>2, <1>3, <1>4, <1>d, Scripts DEF InstallInit, InstallInv, Reports, Backed, Stopped

LEMMA InstallBegins == InstallInv /\ runInstall => InstallInv'
<1> SUFFICES ASSUME InstallInv, runInstall PROVE InstallInv'
  OBVIOUS
<1>1. PICK from \in Trees, h \in BOOLEAN :
         /\ \A n \in Names : from[n] # NoVersion \/ (n = "goguma-helper" /\ ~h)
         /\ BeginCommand("install", from, h, BuildPlan(h))
  BY DEF runInstall
<1>2. from \in [Names -> Version]
  BY DEF Trees, Version, InstallInv, InstallTypeOK
<1>3. PICK p : p = BuildPlan(h)
  OBVIOUS
<1>4. p \in Seq(Words)
  BY <1>3, Plans
<1>5. /\ script' = [does |-> "install", from |-> from, withHelper |-> h, left |-> p,
                    problems |-> 0]
      /\ claim' = "nothing"
      /\ scripts' = scripts + 1
      /\ UNCHANGED << platform, binaries, helperBinary, units, partial, running, refused, abandoned >>
  BY <1>1, <1>3 DEF BeginCommand
<1>6. /\ script' \in Script /\ script'.does = "install" /\ script'.from = from
      /\ script'.withHelper = h /\ script'.left = p
  BY <1>2, <1>4, <1>5 DEF Script
<1>b. scripts' \in Nat /\ \A s \in Services : refused'[s] < scripts' /\ refused'[s] <= scripts'
  BY <1>5 DEF InstallInv, InstallTypeOK
<1>c. script = NoScript
  BY <1>1 DEF BeginCommand
<1>d. LeftBeside'
  BY <1>5, <1>c, Scripts DEF InstallInv, LeftBeside
<1>7. InstallTypeOK'
  BY <1>5, <1>6, <1>b DEF InstallInv, InstallTypeOK, Claims
<1>8. 0 \in 0..Len(p) /\ script'.left = After(p, 0)
  BY <1>4, <1>6, AfterSteps
<1>9. Placed(p, 0)'
  <2>1. \A x : ~Taken(p, 0, x)
    BY TakenNext
  <2> QED
    BY <2>1 DEF Placed
<1>10. Installing(p)'
  BY <1>1, <1>6, <1>8, <1>9 DEF Installing
<1>11. Installing(BuildPlan(script.withHelper))'
  BY <1>3, <1>6, <1>10
<1> QED
  BY <1>5, <1>6, <1>7, <1>11, <1>d DEF InstallInv, Reports, Backed, Binary, Stopped

LEMMA UninstallBegins == InstallInv /\ Uninstall => InstallInv'
<1> SUFFICES ASSUME InstallInv, Uninstall PROVE InstallInv'
  OBVIOUS
<1>1. PICK from \in Trees : BeginCommand("uninstall", from, FALSE, Removals)
  BY DEF Uninstall
<1>2. from \in [Names -> Version]
  BY DEF Trees, Version, InstallInv, InstallTypeOK
<1>3. Removals \in Seq(Words) /\ 0 \in 0..Len(Removals)
  <2>1. Removals \in Seq(Words) /\ Len(Removals) = 9
    BY RemovalOrder
  <2>2. 0 \in 0..9
    OBVIOUS
  <2> QED
    BY <2>1, <2>2
<1>4. /\ script' = [does |-> "uninstall", from |-> from, withHelper |-> FALSE,
                    left |-> Removals, problems |-> 0]
      /\ claim' = "nothing"
      /\ scripts' = scripts + 1
      /\ UNCHANGED << platform, binaries, helperBinary, units, partial, running, refused, abandoned >>
  BY <1>1 DEF BeginCommand
<1>5. /\ script' \in Script /\ script'.does = "uninstall" /\ script'.left = Removals
  BY <1>2, <1>3, <1>4 DEF Script
<1>b. /\ scripts' \in Nat /\ scripts' > 0
      /\ \A s \in Services : refused'[s] < scripts' /\ refused'[s] <= scripts'
  BY <1>4 DEF InstallInv, InstallTypeOK
<1>c. script = NoScript
  BY <1>1 DEF BeginCommand
<1>d. LeftBeside'
  BY <1>4, <1>c, Scripts DEF InstallInv, LeftBeside
<1>6. InstallTypeOK'
  BY <1>4, <1>5, <1>b DEF InstallInv, InstallTypeOK, Claims
<1>7. script'.left = After(Removals, 0)
  BY <1>3, <1>5, AfterSteps
<1>8. Gone(0)'
  <2>1. \A x : ~Taken(Removals, 0, x)
    BY TakenNext
  <2> QED
    BY <2>1 DEF Gone
<1>9. Uninstalling'
  BY <1>3, <1>7, <1>8, <1>b DEF Uninstalling, Services
<1> QED
  BY <1>4, <1>5, <1>6, <1>9, <1>d DEF InstallInv, Reports, Backed, Binary, Stopped

\* A command that stops, for whatever reason, leaves only what holds without it to be kept.
LEMMA NothingRuns ==
    ASSUME script' = NoScript, InstallTypeOK', Reports', Backed', LeftBeside' PROVE InstallInv'
  BY Scripts DEF InstallInv

LEMMA OpensSteps == InstallInv /\ OpensFile => InstallInv'
<1> SUFFICES ASSUME InstallInv, OpensFile PROVE InstallInv'
  OBVIOUS
<1>1. /\ script.does = "install" /\ Step \in Opened
      /\ partial' = partial \cup {Step}
      /\ units' = IF Step = "write daemon unit" THEN units \ {"daemon"} ELSE units
      /\ UNCHANGED << platform, binaries, helperBinary, running, script, claim, refused, abandoned,
                      scripts >>
  BY DEF OpensFile
<1>2. PICK h, p : h \in BOOLEAN /\ h = script.withHelper /\ p = BuildPlan(h)
  BY DEF InstallInv, InstallTypeOK, Script
<1>3. p \in Seq(Words)
  BY <1>2, Plans
<1>4. PICK k \in 0..Len(p) : script.left = After(p, k) /\ Placed(p, k)
  BY <1>1, <1>2 DEF InstallInv, Installing
<1>5. Step # "end"
  BY <1>1 DEF Opened, Names
<1>6. k + 1 \in 1..Len(p) /\ Step = p[k + 1]
  BY <1>1, <1>2, <1>3, <1>4, <1>5, NextStep DEF InstallInv
<1>7. k \in 0..(Len(p) - 1)
  BY <1>3, <1>6
<1>8. ~Taken(p, k, Step)
  BY <1>2, <1>6, <1>7, Plans
<1>9. InstallTypeOK'
  BY <1>1 DEF InstallInv, InstallTypeOK
<1>10. Placed(p, k)'
  BY <1>1, <1>4, <1>8 DEF Placed
<1>11. Installing(p)'
  BY <1>1, <1>2, <1>4, <1>10 DEF InstallInv, Installing
<1>12. Installing(BuildPlan(script.withHelper))'
  BY <1>1, <1>2, <1>11
<1>13. claim' = "nothing"
  BY <1>1, Scripts DEF InstallInv, Reports
<1>14. Backed'
  BY <1>1 DEF InstallInv, Backed, Binary, Stopped
<1>15. LeftBeside'
  <2>1. Step' = Step
    BY <1>1 DEF Step
  <2> QED
    BY <1>1, <2>1 DEF InstallInv, LeftBeside
<1> QED
  BY <1>1, <1>9, <1>12, <1>13, <1>14, <1>15 DEF InstallInv, Reports

LEMMA InstallsSteps == InstallInv /\ InstallsFile => InstallInv'
<1> SUFFICES ASSUME InstallInv, InstallsFile PROVE InstallInv'
  OBVIOUS
<1>1. /\ script.does = "install" /\ script' = Rest
      /\ partial' = partial \ {Step}
      /\ UNCHANGED << platform, running, claim, refused, abandoned, scripts >>
  BY DEF InstallsFile
<1>2. PICK h, p : h \in BOOLEAN /\ h = script.withHelper /\ p = BuildPlan(h)
  BY DEF InstallInv, InstallTypeOK, Script
<1>3. p \in Seq(Words)
  BY <1>2, Plans
<1>4. PICK k \in 0..Len(p) : script.left = After(p, k) /\ Placed(p, k)
  BY <1>1, <1>2 DEF InstallInv, Installing
<1>5. \A n \in Names : script.from[n] # NoVersion \/ (n = "goguma-helper" /\ ~h)
  BY <1>1, <1>2 DEF InstallInv, Installing
<1>6. Step # "end"
  BY DEF InstallsFile, Names
<1>7. /\ k + 1 \in 1..Len(p) /\ Step = p[k + 1]
      /\ script' \in Script /\ script'.does = "install" /\ script'.from = script.from
      /\ script'.withHelper = h /\ script'.left = After(p, k + 1)
  BY <1>1, <1>2, <1>3, <1>4, <1>6, NextStep DEF InstallInv
<1>8. k \in 0..(Len(p) - 1) /\ k \in Nat /\ k + 1 \in 0..Len(p)
  BY <1>3, <1>7
<1>9. /\ Step \in HelperSteps => h
      /\ Step = "goguma-daemon" => ~Taken(p, k, "load daemon")
      /\ Step = "install helper" => ~Taken(p, k, "load helper")
  BY <1>2, <1>7, <1>8, Plans
<1>10. \A x : Taken(p, k + 1, x) <=> Taken(p, k, x) \/ x = Step
  BY <1>7, <1>8, TakenNext
<1>11. claim = "nothing" /\ script.from \in [Names -> Version]
       /\ "goguma-helper" \in Names /\ "goguma-daemon" \in Names
  BY <1>1, Scripts DEF InstallInv, Reports, InstallTypeOK, Script, Names
<1>l. LeftBeside'
  BY <1>1 DEF InstallInv, LeftBeside
<1>m. \A x \in Opened : Taken(p, k + 1, x) => x \notin partial'
  BY <1>1, <1>4, <1>10 DEF Placed
<1>12. ASSUME InstallTypeOK', Placed(p, k + 1)', Backed' PROVE InstallInv'
  <2>1. Installing(p)'
    BY <1>4, <1>5, <1>7, <1>8, <1>12 DEF Installing
  <2>2. Installing(BuildPlan(script.withHelper))'
    BY <1>2, <1>7, <2>1
  <2>3. Reports'
    BY <1>1, <1>11 DEF Reports
  <2> QED
    BY <1>7, <1>12, <1>l, <2>2, <2>3 DEF InstallInv
<1>13. CASE /\ Step \in Names /\ binaries' = [binaries EXCEPT ![Step] = script.from[Step]]
            /\ UNCHANGED << helperBinary, units >>
  <2>1. /\ binaries' \in [Names -> Version] /\ binaries'[Step] = script.from[Step]
        /\ \A n \in Names : n # Step => binaries'[n] = binaries[n]
    BY <1>11, <1>13 DEF InstallInv, InstallTypeOK
  <2>2. InstallTypeOK'
    BY <1>1, <1>7, <1>13, <2>1 DEF InstallInv, InstallTypeOK
  <2>3. Step # "install helper" /\ Step # "write daemon unit" /\ Step # "write helper unit"
        /\ Step # "load daemon" /\ Step # "load helper"
    BY <1>13 DEF Names
  <2>4. Placed(p, k + 1)'
    BY <1>1, <1>4, <1>7, <1>9, <1>10, <1>11, <1>13, <1>m, <2>1, <2>3 DEF Placed
  <2>5. Backed'
    <3>1. \/ binaries'["goguma-daemon"] # NoVersion
          \/ binaries'["goguma-daemon"] = binaries["goguma-daemon"]
      BY <1>5, <1>11, <2>1
    <3> QED
      BY <1>1, <1>13, <3>1 DEF InstallInv, Backed, Binary, Services, Stopped
  <2> QED
    BY <1>12, <2>2, <2>4, <2>5
<1>14. CASE /\ Step = "install helper" /\ helperBinary' = script.from["goguma-helper"]
            /\ UNCHANGED << binaries, units >>
  <2>1. helperBinary' \in Version /\ h
    BY <1>9, <1>11, <1>14 DEF HelperSteps
  <2>2. helperBinary' # NoVersion
    BY <1>5, <1>11, <1>14, <2>1
  <2>3. InstallTypeOK'
    BY <1>1, <1>7, <1>14, <2>1 DEF InstallInv, InstallTypeOK
  <2>4. Step \notin Names
    BY <1>14 DEF Names
  <2>5. Placed(p, k + 1)'
    BY <1>1, <1>4, <1>7, <1>9, <1>10, <1>14, <1>m, <2>4 DEF Placed
  <2>6. Backed'
    BY <1>1, <1>14, <2>2 DEF InstallInv, Backed, Binary, Services, Stopped
  <2> QED
    BY <1>12, <2>3, <2>5, <2>6
<1>15. CASE /\ UNCHANGED << binaries, helperBinary >>
            /\ \/ Step = "write daemon unit" /\ units' = units \cup {"daemon"}
               \/ Step = "write helper unit" /\ units' = units \cup {"helper"}
  <2>1. units' \subseteq Services /\ units \subseteq units'
    BY <1>15 DEF InstallInv, InstallTypeOK, Services
  <2>2. InstallTypeOK'
    BY <1>1, <1>7, <1>15, <2>1 DEF InstallInv, InstallTypeOK
  <2>3. Step \notin Names
    BY <1>15 DEF Names
  <2>4. Placed(p, k + 1)'
    BY <1>1, <1>4, <1>7, <1>10, <1>15, <1>m, <2>1, <2>3 DEF Placed
  <2>5. Backed'
    BY <1>1, <1>15, <2>1 DEF InstallInv, Backed, Binary, Stopped
  <2> QED
    BY <1>12, <2>2, <2>4, <2>5
<1> QED
  BY <1>13, <1>14, <1>15 DEF InstallsFile

LEMMA LoadsSteps == InstallInv /\ LoadsService => InstallInv'
<1> SUFFICES ASSUME InstallInv, LoadsService PROVE InstallInv'
  OBVIOUS
<1>1. /\ script.does = "install" /\ Step \in {"load daemon", "load helper"}
      /\ running' = [running EXCEPT ![Service] =
                        IF platform = "linux" /\ running[Service] # NoVersion
                        THEN running[Service] ELSE Binary(Service)]
      /\ refused' = [refused EXCEPT ![Service] = 0] /\ script' = Rest
      /\ UNCHANGED << platform, binaries, helperBinary, units, partial, claim, abandoned, scripts >>
  BY DEF LoadsService
<1>2. PICK h, p : h \in BOOLEAN /\ h = script.withHelper /\ p = BuildPlan(h)
  BY DEF InstallInv, InstallTypeOK, Script
<1>3. p \in Seq(Words)
  BY <1>2, Plans
<1>4. PICK k \in 0..Len(p) : script.left = After(p, k) /\ Placed(p, k)
  BY <1>1, <1>2 DEF InstallInv, Installing
<1>5. \A n \in Names : script.from[n] # NoVersion \/ (n = "goguma-helper" /\ ~h)
  BY <1>1, <1>2 DEF InstallInv, Installing
<1>6. Step # "end"
  BY <1>1
<1>7. /\ k + 1 \in 1..Len(p) /\ Step = p[k + 1]
      /\ script' \in Script /\ script'.does = "install" /\ script'.from = script.from
      /\ script'.withHelper = h /\ script'.left = After(p, k + 1)
  BY <1>1, <1>2, <1>3, <1>4, <1>6, NextStep DEF InstallInv
<1>8. k \in 0..(Len(p) - 1) /\ k \in Nat /\ k + 1 \in 0..Len(p)
  BY <1>3, <1>7
<1>9. Step = "load helper" => Taken(p, k, "write helper unit")
  BY <1>2, <1>7, <1>8, Plans
<1>10. \A x : Taken(p, k + 1, x) <=> Taken(p, k, x) \/ x = Step
  BY <1>7, <1>8, TakenNext
<1>11. claim = "nothing"
  BY <1>1, Scripts DEF InstallInv, Reports
<1>12. /\ Service \in Services
       /\ Step = "load daemon" => Service = "daemon"
       /\ Step = "load helper" => Service = "helper"
  BY <1>1 DEF Service, Services
<1>13. /\ running' \in [Services -> Version]
       /\ running'[Service] = IF platform = "linux" /\ running[Service] # NoVersion
                              THEN running[Service] ELSE Binary(Service)
       /\ \A s \in Services : s # Service => running'[s] = running[s]
  <2>1. Binary(Service) \in Version
    BY DEF Binary, Names, InstallInv, InstallTypeOK
  <2> QED
    BY <1>1, <1>12, <2>1 DEF InstallInv, InstallTypeOK
<1>r. /\ refused' \in [Services -> Nat] /\ \A s \in Services : refused'[s] <= scripts
      /\ \A s \in Services : s # Service => refused'[s] = refused[s]
  <2>1. /\ refused \in [Services -> Nat] /\ \A s \in Services : refused[s] <= scripts
        /\ scripts \in Nat /\ 0 <= scripts
    BY DEF InstallInv, InstallTypeOK
  <2>2. PICK v : v = Service
    OBVIOUS
  <2>3. refused' = [refused EXCEPT ![v] = 0] /\ v \in Services
    BY <1>1, <1>12, <2>2
  <2> QED
    BY <2>1, <2>2, <2>3
<1>m. \A x \in Opened : Taken(p, k + 1, x) => x \notin partial
  <2>1. Step \notin Opened
    BY <1>1 DEF Opened, Names
  <2> QED
    BY <1>4, <1>10, <2>1 DEF Placed
<1>l. LeftBeside'
  <2>1. Step \notin Names
    BY <1>1 DEF Names
  <2> QED
    BY <1>1, <2>1 DEF InstallInv, LeftBeside
<1>14. InstallTypeOK'
  BY <1>1, <1>7, <1>13, <1>r DEF InstallInv, InstallTypeOK
<1>15. Step \notin Names /\ Step # "install helper" /\ Step # "write daemon unit"
       /\ Step # "write helper unit"
  BY <1>1 DEF Names
<1>16. platform = "darwin" => running'[Service] = Binary(Service)
  BY <1>13
<1>17. Placed(p, k + 1)'
  <2>1. platform = "darwin" /\ Taken(p, k + 1, "load daemon")
            => running'["daemon"] = binaries["goguma-daemon"]
    BY <1>1, <1>4, <1>10, <1>12, <1>13, <1>16 DEF Placed, Binary, Services
  <2>2. platform = "darwin" /\ Taken(p, k + 1, "load helper")
            => running'["helper"] = helperBinary
    BY <1>1, <1>4, <1>10, <1>12, <1>13, <1>16 DEF Placed, Binary, Services
  <2> QED
    BY <1>1, <1>4, <1>7, <1>10, <1>15, <1>m, <2>1, <2>2 DEF Placed
<1>e. Binary(Service) # NoVersion
  <2>1. /\ Step = "load daemon" => Taken(p, k, "goguma-daemon")
        /\ Step = "load helper" => Taken(p, k, "install helper")
        /\ Step = "load helper" => h
    BY <1>2, <1>7, <1>8, Plans DEF HelperSteps
  <2>2. "goguma-daemon" \in Names /\ "goguma-helper" \in Names /\ "goguma-daemon" # "goguma-helper"
    BY DEF Names
  <2> QED
    BY <1>1, <1>4, <1>5, <1>12, <2>1, <2>2 DEF Placed, Binary
<1>18. Backed'
  <2>1. \A s \in Services : Binary(s)' = Binary(s)
    BY <1>1 DEF Binary
  <2>2. Binary(Service) # NoVersion
    BY <1>1, <1>e
  <2>3. \A s \in Services : s # Service => Stopped(s)' = Stopped(s)
    BY <1>13, <1>r DEF Stopped
  <2>4. Service = "helper" => "helper" \in units
    BY <1>1, <1>4, <1>9, <1>12 DEF Placed
  <2> QED
    BY <1>1, <2>1, <2>2, <2>3, <2>4 DEF InstallInv, Backed, Services
<1>19. Installing(p)'
  BY <1>4, <1>5, <1>7, <1>8, <1>17 DEF Installing
<1>20. Installing(BuildPlan(script.withHelper))'
  BY <1>2, <1>7, <1>19
<1>21. Reports'
  BY <1>1, <1>11 DEF Reports
<1> QED
  BY <1>7, <1>14, <1>18, <1>20, <1>21, <1>l DEF InstallInv

LEMMA InstallFailing == InstallInv /\ InstallFails => InstallInv'
<1> SUFFICES ASSUME InstallInv, InstallFails PROVE InstallInv'
  OBVIOUS
<1>1. /\ script.does = "install" /\ script' = NoScript
      /\ running' = running \/ running' = [running EXCEPT ![Service] = NoVersion]
      /\ partial' \subseteq partial
      /\ abandoned' = (abandoned \/ Step \in Names \cap partial')
      /\ UNCHANGED << platform, binaries, helperBinary, units, claim, refused, scripts >>
  BY DEF InstallFails, EndsEarly
<1>2. claim = "nothing"
  BY <1>1, Scripts DEF InstallInv, Reports
<1>3. /\ running' \in [Services -> Version]
      /\ \A s \in Services : running'[s] = running[s] \/ running'[s] = NoVersion
  BY <1>1 DEF InstallInv, InstallTypeOK, Version
<1>4. InstallTypeOK'
  BY <1>1, <1>3, Scripts DEF InstallInv, InstallTypeOK
<1>5. Backed'
  <2>1. \A s \in Services : Binary(s)' = Binary(s)
    BY <1>1 DEF Binary
  <2> QED
    BY <1>1, <1>3, <2>1 DEF InstallInv, Backed, Services, Stopped
<1>l. LeftBeside'
  BY <1>1 DEF InstallInv, LeftBeside
<1>6. Reports'
  BY <1>1, <1>2 DEF Reports
<1> QED
  BY <1>1, <1>4, <1>5, <1>6, <1>l, NothingRuns

LEMMA Verifying == InstallInv /\ verifyInstall => InstallInv'
<1> SUFFICES ASSUME InstallInv, verifyInstall PROVE InstallInv'
  OBVIOUS
<1>1. /\ script.does = "install" /\ Step = "end" /\ script' = NoScript
      /\ claim' = IF running["daemon"] = NoVersion
                     \/ (script.withHelper /\ running["helper"] = NoVersion)
                  THEN "nothing"
                  ELSE IF script.withHelper THEN "installed" ELSE "installed without helper"
      /\ UNCHANGED << platform, binaries, helperBinary, units, partial, running, refused, abandoned,
                      scripts >>
  BY DEF verifyInstall
<1>2. PICK h, p : h \in BOOLEAN /\ h = script.withHelper /\ p = BuildPlan(h)
  BY DEF InstallInv, InstallTypeOK, Script
<1>3. p \in Seq(Words)
  BY <1>2, Plans
<1>4. PICK k \in 0..Len(p) : script.left = After(p, k) /\ Placed(p, k)
  BY <1>1, <1>2 DEF InstallInv, Installing
<1>5. \A n \in Names : script.from[n] # NoVersion \/ (n = "goguma-helper" /\ ~h)
  BY <1>1, <1>2 DEF InstallInv, Installing
<1>6. k = Len(p)
  BY <1>1, <1>3, <1>4, NextStep DEF InstallInv
<1>7. \A x \in Steps : (x \in HelperSteps => h) => Taken(p, k, x)
  BY <1>2, <1>6, Plans
<1>8. InstallTypeOK'
  BY <1>1, Scripts DEF InstallInv, InstallTypeOK, Claims
<1>9. Backed'
  BY <1>1 DEF InstallInv, Backed, Binary, Stopped
<1>l. LeftBeside'
  <2>1. Step \notin Names
    BY <1>1 DEF Names
  <2> QED
    BY <1>1, <2>1 DEF InstallInv, LeftBeside
<1>10. Reports'
  <2>1. claim' = "installed"
            => h /\ running["daemon"] # NoVersion /\ running["helper"] # NoVersion
    BY <1>1, <1>2
  <2>2. claim' # "uninstalled"
    BY <1>1
  <2>3. ASSUME h
        PROVE  /\ \A n \in Names : binaries[n] = script.from[n] /\ script.from[n] # NoVersion
               /\ helperBinary = script.from["goguma-helper"]
               /\ "daemon" \in units /\ "helper" \in units /\ partial = {}
               /\ platform = "darwin" => /\ running["daemon"] = binaries["goguma-daemon"]
                                         /\ running["helper"] = helperBinary
    <3>1. \A x \in Steps : Taken(p, k, x)
      BY <1>7, <2>3
    <3> QED
      BY <1>4, <1>5, <2>3, <3>1 DEF Placed, Steps, Opened, InstallInv, InstallTypeOK
  <2>4. claim' = "installed" =>
          /\ units = Services /\ partial = {}
          /\ \A n \in Names : binaries[n] # NoVersion
          /\ helperBinary = binaries["goguma-helper"]
          /\ \A s \in Services : running[s] # NoVersion
          /\ platform = "darwin" => \A s \in Services : running[s] = Binary(s)
    <3> SUFFICES ASSUME claim' = "installed"
                 PROVE  /\ units = Services /\ partial = {}
                        /\ \A n \in Names : binaries[n] # NoVersion
                        /\ helperBinary = binaries["goguma-helper"]
                        /\ \A s \in Services : running[s] # NoVersion
                        /\ platform = "darwin" => \A s \in Services : running[s] = Binary(s)
      OBVIOUS
    <3>1. units = Services /\ partial = {}
      BY <2>1, <2>3 DEF InstallInv, InstallTypeOK, Services
    <3>2. /\ \A n \in Names : binaries[n] # NoVersion
          /\ helperBinary = binaries["goguma-helper"]
      BY <2>1, <2>3 DEF Names
    <3>3. \A s \in Services : running[s] # NoVersion
      BY <2>1 DEF Services
    <3>4. platform = "darwin" => \A s \in Services : running[s] = Binary(s)
      BY <2>1, <2>3 DEF Services, Binary
    <3> QED
      BY <3>1, <3>2, <3>3, <3>4
  <2>5. \A s \in Services : Binary(s)' = Binary(s)
    BY <1>1 DEF Binary
  <2> QED
    BY <1>1, <2>2, <2>4, <2>5 DEF Reports
<1> QED
  BY <1>1, <1>8, <1>9, <1>10, <1>l, NothingRuns

\* The next of the removals.
LEMMA GoesOn ==
    ASSUME InstallInv, script.does = "uninstall", Step # "end"
    PROVE  \E k \in 0..8 :
              /\ k + 1 \in 0..Len(Removals) /\ Gone(k) /\ Step = Removals[k + 1]
              /\ \A x : Taken(Removals, k + 1, x) <=> Taken(Removals, k, x) \/ x = Step
              /\ Rest \in Script /\ Rest.does = "uninstall"
              /\ Rest.problems = script.problems /\ Rest.left = After(Removals, k + 1)
<1>1. Removals \in Seq(Words) /\ Len(Removals) = 9
  BY RemovalOrder
<1>2. PICK k \in 0..Len(Removals) : script.left = After(Removals, k) /\ Gone(k)
  BY DEF InstallInv, Uninstalling
<1>3. /\ k + 1 \in 1..Len(Removals) /\ Step = Removals[k + 1]
      /\ Rest \in Script /\ Rest.does = "uninstall"
      /\ Rest.problems = script.problems /\ Rest.left = After(Removals, k + 1)
  BY <1>1, <1>2, NextStep DEF InstallInv
<1>4. k \in 0..8 /\ k \in Nat /\ k + 1 \in 0..Len(Removals)
  BY <1>1, <1>3
<1>5. \A x : Taken(Removals, k + 1, x) <=> Taken(Removals, k, x) \/ x = Step
  BY <1>3, <1>4, TakenNext
<1> QED
  BY <1>2, <1>3, <1>4, <1>5

\* A removal that was a problem is still the next one taken.
LEMMA Problem ==
    ASSUME Rest \in Script
    PROVE  LET s == [Rest EXCEPT !.problems = Rest.problems + 1]
           IN  /\ s \in Script /\ s.does = Rest.does /\ s.left = Rest.left
               /\ s.problems # 0
<1>1. Rest.problems \in Nat
  BY DEF Script
<1>2. Rest.problems + 1 \in Nat /\ Rest.problems + 1 # 0
  BY <1>1
<1> QED
  BY <1>2 DEF Script

LEMMA StopsSteps == InstallInv /\ StopsService => InstallInv'
<1> SUFFICES ASSUME InstallInv, StopsService PROVE InstallInv'
  OBVIOUS
<1>1. /\ script.does = "uninstall" /\ Step \in {"stop daemon", "stop helper"}
      /\ UNCHANGED << platform, binaries, helperBinary, units, partial, claim, abandoned, scripts >>
  BY DEF StopsService
<1>2. PICK k \in 0..8 :
         /\ k + 1 \in 0..Len(Removals) /\ Gone(k) /\ Step = Removals[k + 1]
         /\ \A x : Taken(Removals, k + 1, x) <=> Taken(Removals, k, x) \/ x = Step
         /\ Rest \in Script /\ Rest.does = "uninstall"
         /\ Rest.problems = script.problems /\ Rest.left = After(Removals, k + 1)
  BY <1>1, GoesOn
<1>3. /\ script' \in Script /\ script'.does = "uninstall"
      /\ script'.left = After(Removals, k + 1)
      /\ script'.problems = 0 => script.problems = 0 /\ script' = Rest
  <2>1. script' = Rest \/ script' = [Rest EXCEPT !.problems = Rest.problems + 1]
    BY DEF StopsService
  <2> QED
    BY <1>2, <2>1, Problem
<1>4. PICK v \in Services :
         /\ v = Service
         /\ Step = "stop daemon" => v = "daemon"
         /\ Step = "stop helper" => v = "helper"
  BY <1>1 DEF Service, Services
<1>5. /\ running' \in [Services -> Version] /\ refused' \in [Services -> Nat]
      /\ \A s \in Services : refused'[s] <= scripts
      /\ Stopped(v)'
      /\ \A s \in Services : s # v => running'[s] = running[s] /\ refused'[s] = refused[s]
      /\ script'.problems = 0 => refused'["helper"] < scripts
  <2>0. /\ scripts > 0 /\ scripts \in Nat /\ (script.problems = 0 => refused["helper"] < scripts)
        /\ refused \in [Services -> Nat] /\ \A s \in Services : refused[s] <= scripts
        /\ running \in [Services -> Version] /\ NoVersion \in Version
    BY <1>1 DEF InstallInv, InstallTypeOK, Uninstalling, Version
  <2>1. CASE v = "helper" /\ "helper" \notin units /\ UNCHANGED << running, refused >>
    <3>1. Stopped("helper")
      BY <2>1 DEF InstallInv, Backed
    <3> QED
      BY <1>3, <2>0, <2>1, <3>1 DEF Stopped
  <2>2. CASE /\ running' = [running EXCEPT ![v] = NoVersion]
             /\ refused' = [refused EXCEPT ![v] = 0]
    <3>1. /\ running' \in [Services -> Version] /\ running'[v] = NoVersion
          /\ \A s \in Services : s # v => running'[s] = running[s]
      BY <2>0, <2>2
    <3>2. /\ refused' \in [Services -> Nat] /\ refused'[v] = 0
          /\ \A s \in Services : s # v => refused'[s] = refused[s]
      BY <2>0, <2>2
    <3>3. \A s \in Services : refused'[s] <= scripts
      BY <2>0, <3>2
    <3>4. script'.problems = 0 => refused'["helper"] < scripts
      BY <1>3, <2>0, <3>2 DEF Services
    <3> QED
      BY <3>1, <3>2, <3>3, <3>4 DEF Stopped
  <2>3. CASE /\ refused' = [refused EXCEPT ![v] = scripts] /\ UNCHANGED running
             /\ script' = IF v = "daemon" THEN Rest
                          ELSE [Rest EXCEPT !.problems = Rest.problems + 1]
    <3>1. script'.problems = 0 => v = "daemon"
      BY <1>2, <2>3, Problem
    <3>2. /\ refused' \in [Services -> Nat] /\ refused'[v] = scripts /\ scripts # 0
          /\ \A s \in Services : s # v => refused'[s] = refused[s]
      BY <2>0, <2>3
    <3>3. \A s \in Services : refused'[s] <= scripts
      BY <2>0, <3>2
    <3>4. script'.problems = 0 => refused'["helper"] < scripts
      BY <1>3, <2>0, <3>1, <3>2 DEF Services
    <3> QED
      BY <2>0, <2>3, <3>2, <3>3, <3>4 DEF Stopped
  <2>4. \/ v = "helper" /\ "helper" \notin units /\ UNCHANGED << running, refused >>
        \/ /\ running' = [running EXCEPT ![v] = NoVersion]
           /\ refused' = [refused EXCEPT ![v] = 0]
        \/ /\ refused' = [refused EXCEPT ![v] = scripts] /\ UNCHANGED running
           /\ script' = IF v = "daemon" THEN Rest ELSE [Rest EXCEPT !.problems = Rest.problems + 1]
    <3>1. \/ Service = "helper" /\ "helper" \notin units /\ UNCHANGED << running, refused >>
          \/ /\ running' = [running EXCEPT ![Service] = NoVersion]
             /\ refused' = [refused EXCEPT ![Service] = 0]
          \/ /\ refused' = [refused EXCEPT ![Service] = scripts] /\ UNCHANGED running
             /\ script' = IF Service = "daemon" THEN Rest
                          ELSE [Rest EXCEPT !.problems = Rest.problems + 1]
      BY Zenon DEF StopsService
    <3> QED
      BY <1>4, <3>1
  <2> QED
    BY <2>1, <2>2, <2>3, <2>4
<1>6. InstallTypeOK'
  BY <1>1, <1>3, <1>5 DEF InstallInv, InstallTypeOK
<1>7. claim = "nothing"
  BY <1>1, Scripts DEF InstallInv, Reports
<1>8. Step \notin Names /\ Step # "remove helper" /\ Step # "remove daemon unit"
      /\ Step # "remove helper unit"
  BY <1>1 DEF Names
<1>k. \A s \in Services : Stopped(s) => Stopped(s)'
  BY <1>5 DEF Stopped
<1>9. Gone(k + 1)'
  <2>1. /\ Taken(Removals, k + 1, "stop daemon") => Stopped("daemon")'
        /\ Taken(Removals, k + 1, "stop helper") => Stopped("helper")'
    <3>s. \A s \in Services : s = v => Stopped(s)'
      BY <1>5 DEF Stopped
    <3>3. "daemon" \in Services /\ "helper" \in Services
      BY DEF Services
    <3>1. Step = "stop daemon" => Stopped("daemon")'
      BY <1>4, <3>s, <3>3
    <3>2. Step = "stop helper" => Stopped("helper")'
      BY <1>4, <3>s, <3>3
    <3> QED
      BY <1>2, <1>k, <3>1, <3>2, <3>3 DEF Gone
  <2>2. script'.problems = 0 =>
          /\ \A n \in Names : Taken(Removals, k + 1, n) => binaries[n] = NoVersion
          /\ Taken(Removals, k + 1, "remove helper") => helperBinary = NoVersion
          /\ Taken(Removals, k + 1, "remove daemon unit") => /\ "daemon" \notin units
                                                             /\ "write daemon unit" \notin partial
          /\ Taken(Removals, k + 1, "remove helper unit") => "helper" \notin units
    BY <1>2, <1>3, <1>8 DEF Gone
  <2> QED
    BY <1>1, <2>1, <2>2 DEF Gone
<1>10. Uninstalling'
  BY <1>1, <1>2, <1>3, <1>5, <1>9 DEF InstallInv, Uninstalling
<1>11. Backed'
  BY <1>1, <1>4, <1>5, <1>k DEF InstallInv, Backed, Binary, Services
<1>l. LeftBeside'
  BY <1>1, <1>3 DEF InstallInv, LeftBeside
<1> QED
  BY <1>1, <1>3, <1>6, <1>7, <1>10, <1>11, <1>l DEF InstallInv, Reports

LEMMA RemovesSteps == InstallInv /\ RemovesFile => InstallInv'
<1> SUFFICES ASSUME InstallInv, RemovesFile PROVE InstallInv'
  OBVIOUS
<1>1. /\ script.does = "uninstall" /\ script' = Rest
      /\ partial' = IF Step = "remove daemon unit" THEN partial \ {"write daemon unit"} ELSE partial
      /\ UNCHANGED << platform, running, claim, refused, abandoned, scripts >>
  BY DEF RemovesFile
<1>2. Step # "end"
  BY DEF RemovesFile, Names
<1>3. PICK k \in 0..8 :
         /\ k + 1 \in 0..Len(Removals) /\ Gone(k) /\ Step = Removals[k + 1]
         /\ \A x : Taken(Removals, k + 1, x) <=> Taken(Removals, k, x) \/ x = Step
         /\ Rest \in Script /\ Rest.does = "uninstall"
         /\ Rest.problems = script.problems /\ Rest.left = After(Removals, k + 1)
  BY <1>1, <1>2, GoesOn
<1>4. claim = "nothing"
  BY <1>1, Scripts DEF InstallInv, Reports
<1>5. /\ Step = "goguma-daemon" => Stopped("daemon")
      /\ Step \in {"remove helper unit", "remove helper"} => Stopped("helper")
  BY <1>3, RemovalOrder DEF Gone
<1>6. /\ binaries' \in [Names -> Version] /\ helperBinary' \in Version
      /\ units' \subseteq Services
      /\ \A n \in Names : binaries'[n] = IF n = Step THEN NoVersion ELSE binaries[n]
      /\ helperBinary' = IF Step = "remove helper" THEN NoVersion ELSE helperBinary
      /\ "daemon" \in units' <=> "daemon" \in units /\ Step # "remove daemon unit"
      /\ "helper" \in units' <=> "helper" \in units /\ Step # "remove helper unit"
  BY DEF RemovesFile, Names, Version, InstallInv, InstallTypeOK
<1>7. Step \notin {"stop daemon", "stop helper"}
  BY DEF RemovesFile, Names
<1>8. InstallTypeOK'
  BY <1>1, <1>3, <1>6 DEF InstallInv, InstallTypeOK
<1>9. Gone(k + 1)'
  <2>1. /\ Taken(Removals, k + 1, "stop daemon") => Stopped("daemon")
        /\ Taken(Removals, k + 1, "stop helper") => Stopped("helper")
    BY <1>3, <1>7 DEF Gone
  <2>2. script.problems = 0 =>
          /\ \A n \in Names : Taken(Removals, k + 1, n) => binaries'[n] = NoVersion
          /\ Taken(Removals, k + 1, "remove helper") => helperBinary' = NoVersion
          /\ Taken(Removals, k + 1, "remove daemon unit") => /\ "daemon" \notin units'
                                                             /\ "write daemon unit" \notin partial'
          /\ Taken(Removals, k + 1, "remove helper unit") => "helper" \notin units'
    BY <1>1, <1>3, <1>6 DEF Gone
  <2> QED
    BY <1>1, <1>3, <2>1, <2>2 DEF Gone, Stopped
<1>10. Uninstalling'
  BY <1>1, <1>3, <1>9 DEF InstallInv, Uninstalling
<1>11. Backed'
  <2>1. Stopped("daemon") \/ Binary("daemon")' # NoVersion
    BY <1>5, <1>6 DEF InstallInv, Backed, Binary, Services, Names
  <2>2. Stopped("helper") \/ (Binary("helper")' # NoVersion /\ "helper" \in units')
    BY <1>5, <1>6 DEF InstallInv, Backed, Binary, Services
  <2> QED
    BY <1>1, <2>1, <2>2 DEF Backed, Services, Stopped
<1>l. LeftBeside'
  BY <1>1, <1>3 DEF InstallInv, LeftBeside
<1>12. Reports'
  BY <1>1, <1>4 DEF Reports
<1> QED
  BY <1>1, <1>3, <1>8, <1>10, <1>11, <1>12, <1>l DEF InstallInv

LEMMA RemovalFailing == InstallInv /\ RemovalFails => InstallInv'
<1> SUFFICES ASSUME InstallInv, RemovalFails PROVE InstallInv'
  OBVIOUS
<1>1. /\ script.does = "uninstall" /\ Step # "end"
      /\ script' = [Rest EXCEPT !.problems = Rest.problems + 1]
      /\ UNCHANGED << platform, binaries, helperBinary, units, partial, running, claim, refused,
                      abandoned, scripts >>
  BY DEF RemovalFails
<1>2. PICK k \in 0..8 :
         /\ k + 1 \in 0..Len(Removals) /\ Gone(k) /\ Step = Removals[k + 1]
         /\ \A x : Taken(Removals, k + 1, x) <=> Taken(Removals, k, x) \/ x = Step
         /\ Rest \in Script /\ Rest.does = "uninstall"
         /\ Rest.problems = script.problems /\ Rest.left = After(Removals, k + 1)
  BY <1>1, GoesOn
<1>3. /\ script' \in Script /\ script'.does = "uninstall"
      /\ script'.left = After(Removals, k + 1) /\ script'.problems # 0
  BY <1>1, <1>2, Problem
<1>4. Step \notin {"stop daemon", "stop helper"}
  BY DEF RemovalFails, Names
<1>5. claim = "nothing"
  BY <1>1, Scripts DEF InstallInv, Reports
<1>6. InstallTypeOK'
  BY <1>1, <1>3 DEF InstallInv, InstallTypeOK
<1>7. Gone(k + 1)'
  BY <1>1, <1>2, <1>3, <1>4 DEF Gone, Stopped
<1>8. Uninstalling'
  BY <1>1, <1>2, <1>3, <1>7 DEF InstallInv, Uninstalling
<1>9. Backed'
  BY <1>1 DEF InstallInv, Backed, Binary, Stopped
<1>l. LeftBeside'
  BY <1>1, <1>3 DEF InstallInv, LeftBeside
<1>10. Reports'
  BY <1>1, <1>5 DEF Reports
<1> QED
  BY <1>3, <1>6, <1>8, <1>9, <1>10, <1>l DEF InstallInv

LEMMA Uninstalled == InstallInv /\ UninstallEnds => InstallInv'
<1> SUFFICES ASSUME InstallInv, UninstallEnds PROVE InstallInv'
  OBVIOUS
<1>1. /\ script.does = "uninstall" /\ Step = "end" /\ script' = NoScript
      /\ claim' = IF script.problems = 0 THEN "uninstalled" ELSE "nothing"
      /\ UNCHANGED << platform, binaries, helperBinary, units, partial, running, refused, abandoned,
                      scripts >>
  BY DEF UninstallEnds
<1>2. Removals \in Seq(Words) /\ Len(Removals) = 9
  BY RemovalOrder
<1>3. PICK k \in 0..Len(Removals) : script.left = After(Removals, k) /\ Gone(k)
  BY <1>1 DEF InstallInv, Uninstalling
<1>4. k = 9
  BY <1>1, <1>2, <1>3, NextStep DEF InstallInv
<1>5. \A x \in RemovalSteps : Taken(Removals, k, x)
  BY <1>4, RemovalOrder
<1>6. InstallTypeOK'
  BY <1>1, Scripts DEF InstallInv, InstallTypeOK, Claims
<1>7. Backed'
  BY <1>1 DEF InstallInv, Backed, Binary, Stopped
<1>l. LeftBeside'
  BY <1>1 DEF InstallInv, LeftBeside
<1>8. /\ Stopped("daemon") /\ Stopped("helper")
      /\ script.problems = 0 => refused["helper"] < scripts
  BY <1>1, <1>3, <1>5 DEF Gone, RemovalSteps, InstallInv, Uninstalling
<1>9. script.problems = 0 =>
        /\ \A n \in Names : binaries[n] = NoVersion
        /\ helperBinary = NoVersion /\ "daemon" \notin units /\ "helper" \notin units
        /\ "write daemon unit" \notin partial
  BY <1>3, <1>5 DEF Gone, RemovalSteps
<1>10. "daemon" \notin units /\ "helper" \notin units => units = {}
  BY DEF InstallInv, InstallTypeOK, Services
<1>11. Reports'
  BY <1>1, <1>8, <1>9, <1>10 DEF Reports, Services, Stopped
<1> QED
  BY <1>1, <1>6, <1>7, <1>11, <1>l, NothingRuns

-----------------------------------------------------------------------------
(* Kills, crashes and reboots. *)

LEMMA KilledSteps == InstallInv /\ CommandKilled => InstallInv'
<1> SUFFICES ASSUME InstallInv, CommandKilled PROVE InstallInv'
  OBVIOUS
<1>1. /\ script # NoScript /\ script' = NoScript
      /\ abandoned' = (abandoned \/ (script.does = "install" /\ Step \in Names \cap partial'))
      /\ UNCHANGED << platform, binaries, helperBinary, units, partial, running, claim, refused,
                      scripts >>
  BY DEF CommandKilled, EndsEarly
<1>2. claim = "nothing"
  BY <1>1 DEF InstallInv, Reports
<1>3. InstallTypeOK'
  BY <1>1, Scripts DEF InstallInv, InstallTypeOK
<1>4. Backed'
  BY <1>1 DEF InstallInv, Backed, Binary, Stopped
<1>l. LeftBeside'
  BY <1>1 DEF InstallInv, LeftBeside
<1>5. Reports'
  BY <1>1, <1>2 DEF Reports
<1> QED
  BY <1>1, <1>3, <1>4, <1>5, <1>l, NothingRuns

LEMMA RestartSteps == InstallInv /\ ServiceRestarts => InstallInv'
<1> SUFFICES ASSUME InstallInv, ServiceRestarts PROVE InstallInv'
  OBVIOUS
<1>1. PICK s \in Services :
         running[s] # NoVersion /\ running' = [running EXCEPT ![s] = Binary(s)]
  BY DEF ServiceRestarts
<1>2. UNCHANGED << platform, binaries, helperBinary, units, partial, script, claim, refused,
                   abandoned, scripts >>
  BY DEF ServiceRestarts
<1>3. Binary(s) \in Version
  BY DEF Binary, Names, InstallInv, InstallTypeOK
<1>4. /\ running' \in [Services -> Version]
      /\ \A t \in Services : running'[t] = IF t = s THEN Binary(t) ELSE running[t]
  BY <1>1, <1>3 DEF InstallInv, InstallTypeOK
<1>5. \A t \in Services : running[t] = NoVersion => running'[t] = NoVersion
  BY <1>1, <1>4
<1>6. \A t \in Services : running[t] = Binary(t) => running'[t] = Binary(t)
  BY <1>4
<1>7. \A t \in Services : Binary(t)' = Binary(t)
  BY <1>2 DEF Binary
<1>k. \A t \in Services : Stopped(t) => Stopped(t)'
  BY <1>2, <1>5 DEF Stopped
<1>8. InstallTypeOK'
  BY <1>2, <1>4 DEF InstallInv, InstallTypeOK
<1>9. Backed'
  BY <1>2, <1>7, <1>k DEF InstallInv, Backed, Services
<1>10. Reports'
  <2>1. ASSUME claim = "installed" PROVE \A t \in Services : running'[t] # NoVersion
    <3>1. \A t \in Services : Binary(t) # NoVersion
      BY <2>1 DEF InstallInv, Reports, Binary, Names
    <3> QED
      BY <1>4, <2>1, <3>1 DEF InstallInv, Reports
  <2>2. claim = "installed" /\ platform = "darwin"
            => \A t \in Services : running'[t] = Binary(t)
    BY <1>6 DEF InstallInv, Reports
  <2> QED
    BY <1>2, <1>7, <1>k, <2>1, <2>2 DEF InstallInv, Reports
<1>11. \A steps, k : Placed(steps, k) => Placed(steps, k)'
  <2>1. platform = "darwin" =>
           /\ running["daemon"] = binaries["goguma-daemon"] => running'["daemon"] = binaries["goguma-daemon"]
           /\ running["helper"] = helperBinary => running'["helper"] = helperBinary
    BY <1>6 DEF Binary, Services
  <2> SUFFICES ASSUME NEW steps, NEW k, Placed(steps, k) PROVE Placed(steps, k)'
    OBVIOUS
  <2>2. \A x \in Opened : Taken(steps, k, x) => x \notin partial'
    BY <1>2 DEF Placed
  <2> QED
    BY <1>2, <2>1, <2>2 DEF Placed
<1>12. \A k : Gone(k) => Gone(k)'
  BY <1>2, <1>k DEF Gone, Services
<1>13. \A steps : Installing(steps) => Installing(steps)'
  BY <1>2, <1>11 DEF Installing
<1>14. Uninstalling => Uninstalling'
  BY <1>2, <1>12 DEF Uninstalling
<1>l. LeftBeside'
  <2>1. Step' = Step
    BY <1>2 DEF Step
  <2> QED
    BY <1>2, <2>1 DEF InstallInv, LeftBeside
<1> QED
  BY <1>2, <1>8, <1>9, <1>10, <1>13, <1>14, <1>l DEF InstallInv

LEMMA RebootSteps == InstallInv /\ Reboots => InstallInv'
<1> SUFFICES ASSUME InstallInv, Reboots PROVE InstallInv'
  OBVIOUS
<1>1. /\ running' = [s \in Services |-> Started(s)]
      /\ script' = NoScript /\ refused' = [s \in Services |-> 0]
      /\ abandoned' = (abandoned \/ (script.does = "install" /\ Step \in Names \cap partial'))
      /\ UNCHANGED << platform, binaries, helperBinary, units, partial, claim, scripts >>
  BY DEF Reboots, EndsEarly
<1>2. \A s \in Services : Binary(s)' = Binary(s) /\ Binary(s) \in Version
  BY <1>1 DEF Binary, Names, InstallInv, InstallTypeOK
<1>3. /\ running' \in [Services -> Version]
      /\ \A s \in Services : running'[s] = IF s \in units THEN Binary(s) ELSE NoVersion
  BY <1>1, <1>2 DEF Started, Version
<1>r. refused' \in [Services -> Nat] /\ \A s \in Services : refused'[s] = 0 /\ refused'[s] <= scripts
  BY <1>1 DEF InstallInv, InstallTypeOK
<1>4. InstallTypeOK'
  BY <1>1, <1>3, <1>r, Scripts DEF InstallInv, InstallTypeOK
<1>l. LeftBeside'
  BY <1>1 DEF InstallInv, LeftBeside
<1>5. Backed'
  <2>1. /\ \A s \in Services : running'[s] = NoVersion \/ Binary(s)' # NoVersion
        /\ running'["helper"] = NoVersion \/ "helper" \in units'
    BY <1>1, <1>2, <1>3 DEF Services
  <2> QED
    BY <2>1 DEF Backed, Stopped
<1>6. Reports'
  <2>1. ASSUME claim = "installed"
        PROVE  /\ \A s \in Services : running'[s] = Binary(s)
               /\ \A s \in Services : Binary(s) # NoVersion
    BY <1>3, <2>1 DEF InstallInv, Reports, Binary, Names
  <2>2. claim = "uninstalled" => \A s \in Services : running'[s] = NoVersion
    BY <1>3 DEF InstallInv, Reports
  <2>3. claim = "uninstalled" => refused'["helper"] < scripts
    <3>1. "helper" \in Services
      BY DEF Services
    <3>2. refused["helper"] \in Nat /\ scripts \in Nat /\ refused'["helper"] = 0
      BY <1>r, <3>1 DEF InstallInv, InstallTypeOK
    <3>3. claim = "uninstalled" => refused["helper"] < scripts
      BY DEF InstallInv, Reports
    <3> QED
      BY <3>2, <3>3
  <2> QED
    BY <1>1, <1>2, <2>1, <2>2, <2>3 DEF InstallInv, Reports, Stopped
<1> QED
  BY <1>1, <1>4, <1>5, <1>6, <1>l, NothingRuns

-----------------------------------------------------------------------------
(* The theorems. *)

\* The state has its types; a command that runs has done what the steps it took are for, in
\* their order, unless they failed; a file that was opened and not written is the one the command
\* is at, or of a copy that was cut short (abandoned); what the last command reported holds
\* still, with InstallIsHonest's two exceptions; and, unless it would not stop, no service runs a
\* program that is not there, nor the helper without the unit file that uninstall looks for
\* (copyFile, BuildPlan, Uninstall, runInstall, cmdUninstall).
THEOREM InstallInvariant == InstallSpec => []InstallInv
<1>1. InstallInit => InstallInv
  BY InstallStart
<1>2. InstallInv /\ [InstallNext]_installVars => InstallInv'
  <2> SUFFICES ASSUME InstallInv, [InstallNext]_installVars PROVE InstallInv'
    OBVIOUS
  <2>1. CASE UNCHANGED installVars
    <3>1. \A steps, k : Placed(steps, k)' <=> Placed(steps, k)
      BY <2>1 DEF Placed, installVars
    <3>2. \A k : Gone(k)' <=> Gone(k)
      BY <2>1 DEF Gone, Stopped, installVars
    <3>3. /\ \A steps : Installing(steps) => Installing(steps)'
          /\ Uninstalling => Uninstalling'
      BY <2>1, <3>1, <3>2 DEF Installing, Uninstalling, installVars
    <3>4. LeftBeside'
      BY <2>1 DEF InstallInv, LeftBeside, Step, installVars
    <3> QED
      BY <2>1, <3>3, <3>4 DEF InstallInv, InstallTypeOK, Reports, Backed, Binary, Stopped, installVars
  <2>2. CASE InstallNext
    BY <2>2, InstallBegins, UninstallBegins, OpensSteps, InstallsSteps, LoadsSteps, InstallFailing,
       Verifying, StopsSteps, RemovesSteps, RemovalFailing, Uninstalled, KilledSteps,
       RestartSteps, RebootSteps DEF InstallNext
  <2> QED
    BY <2>1, <2>2
<1> QED
  BY <1>1, <1>2, PTL DEF InstallSpec

\* What setup and uninstall report is so and stays so, over failed steps, kills, crashes and
\* reboots. An install leaves no copy half done, of its own or an earlier command's. An uninstall
\* that was clean leaves nothing but the `.new` of a copy that was killed or could not be renamed,
\* and a service that would not stop: the daemon, of which it reports nothing, or the helper, if
\* an earlier uninstall could not unload it and removed its plist (copyFile, verifyInstall,
\* Uninstall, cmdUninstall).
THEOREM InstallsAreHonest == InstallSpec => []InstallIsHonest
<1>1. InstallInv => InstallIsHonest
  <2> SUFFICES ASSUME InstallInv PROVE InstallIsHonest
    OBVIOUS
  <2>1. claim = "installed" /\ platform = "darwin"
            => \A s \in Services : running[s] = Started(s)
    BY DEF InstallInv, Reports, Started
  <2>2. claim = "uninstalled" => partial = {} \/ (abandoned /\ partial \subseteq Names)
    <3> SUFFICES ASSUME claim = "uninstalled" PROVE partial = {} \/ (abandoned /\ partial \subseteq Names)
      OBVIOUS
    <3>1. script.does = "nothing" /\ partial \subseteq Names
      BY Scripts DEF InstallInv, InstallTypeOK, Reports, Opened
    <3> QED
      BY <3>1 DEF InstallInv, LeftBeside
  <2> QED
    BY <2>1, <2>2 DEF InstallInv, Reports, Backed, Stopped, InstallIsHonest
<1> QED
  BY <1>1, InstallInvariant, PTL

-----------------------------------------------------------------------------
(* Import. Where the command can be, and what it can report of a job. *)

CrontabPcs == {"read", "backup", "install", "verify", "restore"}
PlistPcs == {"check", "copy", "edit", "install plist", "lint", "bootout", "bootstrap", "read back",
             "undo", "undo and reload", "bootout again", "bootstrap again"}
Results == {"none", "skipped", "not registered", "registered", "untouched", "applied",
            "put back", "not restored", "interrupted"}
Jobs == DOMAIN Candidates
LaunchdJobs == {i \in Jobs : Candidates[i].source = "launchd"}

ImportTypeOK ==
    /\ at \in [pc : {"choose", "done"} \cup CrontabPcs \cup PlistPcs, i : Jobs, line : [Jobs -> Nat]]
    /\ report \in [Jobs -> Results]
    /\ crontab \in Seq(Seq(Word)) /\ copy \in Seq(Seq(Word))
    /\ plain \in Seq(Seq(Word)) /\ plainCopy \in Seq(Seq(Word))
    /\ original \in PlistForms /\ unreported \in BOOLEAN

\* Where the command is tells what it works on, and the jobs still to come are untouched.
PlaceInv ==
    /\ at.pc \in CrontabPcs => Candidate.source = "crontab"
    /\ at.pc \in PlistPcs => Candidate.source = "launchd"
    /\ at.pc # "done" => \A j \in Jobs : j >= at.i => report[j] = "none"

\* A crontab runs what the user has put there, each line as it is or in the wrapper of a job
\* that is reported as wrapped.
Agrees(text, lines, reported) ==
    /\ Len(text) = Len(lines)
    /\ \A n \in DOMAIN text :
          \/ text[n] = lines[n]
          \/ \E j \in Jobs : /\ reported[j] = "applied" /\ lines[n] = Candidates[j].command
                             /\ text[n] = wrapCommand(Candidates[j])

NothingBad == \A j \in Jobs : report[j] \notin Bad
Applied == [report EXCEPT ![at.i] = "applied"]

\* What was read is what the user had then, the line still to be replaced; what was written
\* has the job in its wrapper and the rest as it was read, or does not have the job so at all.
CrontabInv ==
    /\ \A n \in DOMAIN plain : plain[n] \notin Wrappers
    /\ \A n \in DOMAIN plainCopy : plainCopy[n] \notin Wrappers
    /\ NothingBad =>
          /\ at.pc \notin {"verify", "restore"} => Agrees(crontab, plain, report)
          /\ at.pc \in {"backup", "install", "verify", "restore"} =>
                /\ Agrees(copy, plainCopy, report)
                /\ at.line[at.i] \in DOMAIN copy /\ copy[at.line[at.i]] = Candidate.command
          /\ at.pc = "verify" =>
                \/ Agrees(crontab, plain, Applied)
                \/ \A n \in DOMAIN crontab : crontab[n] # wrapCommand(Candidate)

\* A plist in its wrapper, ...
InWrapper(p, id) ==
    [program |-> IF p.program = "" THEN "" ELSE markPath,
     args |-> << markPath, id >> \o commandOf(p), needsRoot |-> p.needsRoot]

\* ... the words that are put before its arguments, ...
Added(p, id) == IF p.args = None THEN << markPath, id, p.program >> ELSE << markPath, id >>

\* ... and it after the first k of the edits that lead there.
AfterEdits(p, id, k) ==
    LET m == Len(Added(p, id))
    IN  [program |-> IF p.program # "" /\ k = m + 1 THEN markPath ELSE p.program,
         args |-> SubSeq(Added(p, id), 1, IF k > m THEN m ELSE k) \o p.args,
         needsRoot |-> p.needsRoot]

Pristine == plist = original /\ loaded = {original}

\* What launchd has loaded is the plist as it was, or all of it in the wrapper.
PlistSafe(id) ==
    /\ \/ loaded \subseteq {original}
       \/ loaded \subseteq {InWrapper(original, id)} /\ ~AlreadyWrapped(original)
    /\ plist # original => plistBackup = {original}

\* How far the edit is, at every step of it.
PlistSteps ==
    LET w == InWrapper(original, Candidate.id)
        es == insertWrapper(original, Candidate.id)
    IN  /\ at.pc \in {"check", "copy"} => Pristine
        /\ at.pc # "check" => ~AlreadyWrapped(original)
        /\ at.pc \in PlistPcs \ {"check", "copy"} => plistBackup = {original}
        /\ at.pc \in {"edit", "install plist", "lint", "bootout", "undo"} => loaded = {original}
        /\ at.pc = "edit" =>
              /\ plist.needsRoot = original.needsRoot /\ (plist.needsRoot => plist = original)
              /\ \E k \in 0 .. Len(es) - 1 :
                    /\ toDo = SubSeq(es, k + 1, Len(es))
                    /\ (IF plist.needsRoot THEN draft ELSE plist) = AfterEdits(original, Candidate.id, k)
        /\ at.pc = "install plist" => plist = original /\ draft = w
        /\ at.pc \in {"lint", "bootout", "bootstrap", "read back", "undo and reload"} => plist = w
        /\ at.pc \in {"bootout again", "bootstrap again"} =>
              /\ plist \in {original, w, Emptied(w)}
              /\ ~unreported => plist = original
        /\ at.pc \in {"bootstrap", "bootstrap again"} => loaded = {}
        /\ at.pc = "read back" => loaded = {w}
        /\ at.pc \in {"undo and reload", "bootout again"} => loaded \subseteq {w}

\* What is reported of it afterwards.
PlistReported(i) ==
    LET w == InWrapper(original, Candidates[i].id)
    IN  /\ report[i] \in {"skipped", "not registered", "registered", "untouched"} => Pristine
        /\ report[i] = "put back" => PlistSafe(Candidates[i].id) /\ (~unreported => Pristine)
        /\ report[i] = "none" /\ at.pc \notin PlistPcs => Pristine
        /\ report[i] = "applied" =>
              \/ Pristine /\ AlreadyWrapped(original)
              \/ /\ plist = w /\ loaded = {w} /\ plistBackup = {original}
                 /\ ~AlreadyWrapped(original)
        /\ report[i] \in Bad => PlistSafe(Candidates[i].id)

PlistInv ==
    /\ LaunchdJobs = {} => Pristine
    /\ at.pc \in PlistPcs => PlistSteps
    /\ \A i \in LaunchdJobs : PlistReported(i)

PatternInv ==
    \A j \in registered : j.detection = "pattern" /\ j.wrappable =>
       \E i \in Jobs : /\ j.match = SuggestPattern(Command(i))
                       /\ Distinctive(j.match, KnownCommands)

ImportInv == ImportTypeOK /\ PlaceInv /\ CrontabInv /\ PlistInv /\ PatternInv

LEMMA CandidatesAre ==
    /\ Jobs = 1 .. Len(Candidates) /\ Len(Candidates) \in Nat /\ Len(Candidates) >= 1
    /\ \A i \in Jobs : /\ Candidates[i].id \in Word /\ Candidates[i].command \in Seq(Word)
                       /\ Candidates[i].command # << >>
                       /\ Candidates[i].wrappable \in BOOLEAN
                       /\ Candidates[i].wrappable => Candidates[i].source \in {"crontab", "launchd"}
                       /\ Candidates[i].command \notin Wrappers
    /\ \A i, j \in Jobs : i # j => Candidates[i].id # Candidates[j].id
    /\ \A i, j \in LaunchdJobs : i = j
<1> DEFINE C == [id : Word, source : {"crontab", "launchd", "app"},
                 command : Seq(Word) \ {None}, wrappable : BOOLEAN]
<1>1. Candidates \in Seq(C) /\ Candidates # << >>
  BY CandidatesAssumption
<1>2. Jobs = 1 .. Len(Candidates) /\ Len(Candidates) \in Nat
  BY <1>1 DEF Jobs
<1>3. Len(Candidates) # 0
  <2> HIDE DEF C
  <2> QED
    BY <1>1
<1>4. \A i \in Jobs : Candidates[i] \in C
  <2> HIDE DEF C
  <2> QED
    BY <1>1, <1>2
<1>5. \A i \in Jobs : /\ Candidates[i].id \in Word /\ Candidates[i].command \in Seq(Word)
                      /\ Candidates[i].command # << >>
                      /\ Candidates[i].wrappable \in BOOLEAN
  BY <1>4 DEF None
<1>6. \A i, j \in Jobs : i # j => Candidates[i].id # Candidates[j].id
  BY CandidatesAssumption DEF Jobs
<1>7. \A i, j \in LaunchdJobs : i = j
  BY CandidatesAssumption DEF LaunchdJobs, Jobs
<1>8. \A i \in Jobs : Candidates[i].wrappable => Candidates[i].source \in {"crontab", "launchd"}
  BY CandidatesAssumption DEF Jobs
<1>9. \A i \in Jobs : Candidates[i].command \notin Wrappers
  BY CrontabAssumption DEF Jobs
<1> QED
  BY <1>2, <1>3, <1>5, <1>6, <1>7, <1>8, <1>9

-----------------------------------------------------------------------------
(* The words of a command in its wrapper. *)

LEMMA WordsAre == markPath \in Word /\ "--" \in Word /\ "" \in Word /\ markPath # ""
<1>1. markPath # ""
  BY DEF markPath
<1> QED
  BY <1>1, CandidatesAssumption

LEMMA Triples == ASSUME NEW W, NEW a \in W, NEW b \in W, NEW c \in W
                 PROVE  << a, b, c >> \in Seq(W) /\ << a, b >> \in Seq(W) /\ << a >> \in Seq(W)
  OBVIOUS

LEMMA Concatenated ==
    ASSUME NEW W, NEW s \in Seq(W), NEW t \in Seq(W)
    PROVE  /\ s \o t \in Seq(W) /\ Len(s \o t) = Len(s) + Len(t)
           /\ \A i \in 1 .. Len(s) : (s \o t)[i] = s[i]
           /\ \A i \in 1 .. Len(t) : (s \o t)[Len(s) + i] = t[i]
  OBVIOUS

LEMMA WrapIs ==
    ASSUME NEW i \in Jobs
    PROVE  /\ wrapCommand(Candidates[i]) \in Seq(Word) /\ wrapCommand(Candidates[i]) # << >>
           /\ wrapCommand(Candidates[i])[2] = Candidates[i].id
           /\ wrapCommand(Candidates[i]) \in Wrappers
<1> DEFINE c == Candidates[i]
           h == << markPath, c.id, "--" >>
<1>1. c.id \in Word /\ c.command \in Seq(Word)
  BY CandidatesAre
<1>2. h \in Seq(Word) /\ Len(h) = 3 /\ h[2] = c.id
  BY <1>1, WordsAre, Triples
<1>3. wrapCommand(c) = h \o c.command
  BY DEF wrapCommand
<1> HIDE DEF h, c
<1>4. /\ wrapCommand(c) \in Seq(Word) /\ Len(wrapCommand(c)) = 3 + Len(c.command)
      /\ wrapCommand(c)[2] = h[2]
  <2>1. /\ h \o c.command \in Seq(Word) /\ Len(h \o c.command) = Len(h) + Len(c.command)
        /\ \A n \in 1 .. Len(h) : (h \o c.command)[n] = h[n]
    BY <1>1, <1>2, Concatenated
  <2>2. 2 \in 1 .. Len(h)
    BY <1>2
  <2> QED
    BY <1>2, <1>3, <2>1, <2>2
<1>5. Len(c.command) \in Nat
  BY <1>1
<1>6. wrapCommand(c) # << >>
  <2>1. Len(<< >>) = 0
    OBVIOUS
  <2> QED
    BY <1>4, <1>5, <2>1
<1>7. wrapCommand(c)[2] = c.id
  BY <1>2, <1>4
<1> QED
  BY <1>4, <1>6, <1>7 DEF Wrappers, Jobs, c

LEMMA WrapsDiffer ==
    ASSUME NEW i \in Jobs, NEW j \in Jobs, wrapCommand(Candidates[i]) = wrapCommand(Candidates[j])
    PROVE  i = j
  BY WrapIs, CandidatesAre

-----------------------------------------------------------------------------
(* Where the command goes. *)

Pcs == {"choose", "done"} \cup CrontabPcs \cup PlistPcs

LEMMA GotoMoves ==
    ASSUME ImportTypeOK, NEW pc \in Pcs, Goto(pc)
    PROVE  /\ at'.pc = pc /\ at'.i = at.i /\ at'.line = at.line /\ report' = report
           /\ at' \in [pc : Pcs, i : Jobs, line : [Jobs -> Nat]]
  BY DEF ImportTypeOK, Goto, Pcs

LEMMA ReportedMoves ==
    ASSUME ImportTypeOK, PlaceInv, at.pc # "done", NEW result \in Results, Reported(result)
    PROVE  /\ at'.pc \in {"choose", "done"} /\ at'.line = at.line
           /\ at' \in [pc : Pcs, i : Jobs, line : [Jobs -> Nat]]
           /\ report' \in [Jobs -> Results] /\ report'[at.i] = result /\ report[at.i] = "none"
           /\ \A j \in Jobs : j # at.i => report'[j] = report[j]
           /\ at'.pc # "done" => at'.i = at.i + 1
           /\ at'.pc \notin CrontabPcs \cup PlistPcs
<1>1. at.i \in Jobs /\ at.i \in Int /\ at.i <= Len(Candidates) /\ at.i >= 1
  BY CandidatesAre DEF ImportTypeOK
<1>2. /\ report' \in [Jobs -> Results] /\ report'[at.i] = result
      /\ \A j \in Jobs : j # at.i => report'[j] = report[j]
  BY <1>1 DEF ImportTypeOK, Reported
<1>3. report[at.i] = "none"
  BY <1>1 DEF PlaceInv
<1>4. CASE at.i = Len(Candidates)
  <2>1. at' = [at EXCEPT !.pc = "done"]
    BY <1>4 DEF Reported
  <2>2. at'.pc = "done" /\ at'.line = at.line /\ at' \in [pc : Pcs, i : Jobs, line : [Jobs -> Nat]]
    BY <2>1 DEF ImportTypeOK, Pcs
  <2> QED
    BY <1>2, <1>3, <2>2 DEF CrontabPcs, PlistPcs
<1>5. CASE at.i # Len(Candidates)
  <2>1. at' = [at EXCEPT !.pc = "choose", !.i = at.i + 1]
    BY <1>5 DEF Reported
  <2>2. at.i + 1 \in Jobs
    BY <1>1, <1>5, CandidatesAre
  <2>3. /\ at'.pc = "choose" /\ at'.line = at.line /\ at'.i = at.i + 1
        /\ at' \in [pc : Pcs, i : Jobs, line : [Jobs -> Nat]]
    BY <2>1, <2>2 DEF ImportTypeOK, Pcs
  <2> QED
    BY <1>2, <1>3, <2>3 DEF CrontabPcs, PlistPcs
<1> QED
  BY <1>4, <1>5

LEMMA PlacesGoto ==
    ASSUME ImportTypeOK, PlaceInv, NEW pc \in Pcs, Goto(pc), at.pc # "done",
           pc \in CrontabPcs => Candidate.source = "crontab",
           pc \in PlistPcs => Candidate.source = "launchd"
    PROVE  PlaceInv'
<1>1. at'.pc = pc /\ at'.i = at.i /\ report' = report
  BY GotoMoves
<1> QED
  BY <1>1 DEF PlaceInv, Candidate

LEMMA PlacesReported ==
    ASSUME ImportTypeOK, PlaceInv, at.pc # "done", NEW result \in Results, Reported(result)
    PROVE  PlaceInv'
<1>1. at'.pc \notin CrontabPcs \cup PlistPcs
  BY ReportedMoves
<1>2. at.i \in Int /\ \A j \in Jobs : j \in Int
  BY CandidatesAre DEF ImportTypeOK
<1>3. ASSUME at'.pc # "done", NEW j \in Jobs, j >= at'.i PROVE report'[j] = "none"
  <2>1. at'.i = at.i + 1
    BY <1>3, ReportedMoves
  <2>2. j >= at.i /\ j # at.i
    BY <2>1, <1>2, <1>3
  <2>3. report'[j] = report[j]
    BY <2>2, ReportedMoves
  <2> QED
    BY <2>2, <2>3 DEF PlaceInv
<1>4. at'.pc # "done" => \A j \in Jobs : j >= at'.i => report'[j] = "none"
  BY <1>3
<1>5. /\ at'.pc \in CrontabPcs => Candidate'.source = "crontab"
      /\ at'.pc \in PlistPcs => Candidate'.source = "launchd"
  BY <1>1
<1> QED
  BY <1>4, <1>5 DEF PlaceInv

-----------------------------------------------------------------------------
(* The crontab. *)

LEMMA AgreesMore ==
    ASSUME NEW text, NEW lines, NEW reported, NEW later, Agrees(text, lines, reported),
           \A j \in Jobs : reported[j] = "applied" => later[j] = "applied"
    PROVE  Agrees(text, lines, later)
  BY DEF Agrees

\* What is reported of the job at hand does not disturb what the others' reports rest on.
LEMMA CrontabReported ==
    ASSUME ImportTypeOK, PlaceInv, CrontabInv, at.pc # "done",
           NEW result \in Results, Reported(result), UNCHANGED plainCopy,
           \A n \in DOMAIN plain' : plain'[n] \notin Wrappers,
           NothingBad /\ result \notin Bad => Agrees(crontab', plain', report')
    PROVE  CrontabInv'
<1>1. /\ at'.pc \notin CrontabPcs /\ at'.pc \in {"choose", "done"}
      /\ report'[at.i] = result /\ report[at.i] = "none"
      /\ \A j \in Jobs : j # at.i => report'[j] = report[j]
      /\ at.i \in Jobs
  BY ReportedMoves DEF ImportTypeOK
<1>2. ASSUME NothingBad' PROVE Agrees(crontab', plain', report')
  <2>1. result \notin Bad /\ NothingBad
    BY <1>1, <1>2 DEF NothingBad, Bad
  <2> QED
    BY <1>2, <2>1
<1>3. at'.pc \notin {"backup", "install", "verify", "restore"}
  BY <1>1 DEF CrontabPcs
<1>4. \A n \in DOMAIN plainCopy : plainCopy[n] \notin Wrappers
  BY DEF CrontabInv
<1> QED
  BY <1>2, <1>3, <1>4 DEF CrontabInv

LEMMA CrontabUntouched ==
    ASSUME ImportTypeOK, PlaceInv, CrontabInv, at.pc # "done",
           NEW result \in Results, Reported(result), UNCHANGED << plain, plainCopy, crontab >>,
           at.pc \notin {"verify", "restore"}
    PROVE  CrontabInv'
<1>1. \A j \in Jobs : report[j] = "applied" => report'[j] = "applied"
  BY ReportedMoves
<1>2. NothingBad => Agrees(crontab', plain', report')
  BY <1>1, AgreesMore DEF CrontabInv
<1>3. \A n \in DOMAIN plain : plain[n] \notin Wrappers
  BY DEF CrontabInv
<1> QED
  BY <1>2, <1>3, CrontabReported

LEMMA CrontabGoto ==
    ASSUME ImportTypeOK, CrontabInv, NEW pc \in Pcs, Goto(pc),
           UNCHANGED << plain, plainCopy, crontab >>,
           at.pc \notin {"verify", "restore"},
           pc \notin {"backup", "install", "verify", "restore"}
    PROVE  CrontabInv'
<1>1. at'.pc = pc /\ report' = report
  BY GotoMoves
<1> QED
  BY <1>1 DEF CrontabInv, NothingBad

-----------------------------------------------------------------------------
(* Every step, and the crontab. *)

LEMMA ChangedSeq ==
    ASSUME NEW S, NEW s \in Seq(S), NEW n, NEW v \in S
    PROVE  /\ [s EXCEPT ![n] = v] \in Seq(S) /\ Len([s EXCEPT ![n] = v]) = Len(s)
           /\ DOMAIN [s EXCEPT ![n] = v] = DOMAIN s
           /\ n \in DOMAIN s => [s EXCEPT ![n] = v][n] = v
           /\ \A m \in DOMAIN s : m # n => [s EXCEPT ![n] = v][m] = s[m]
<1>1. CASE n \in DOMAIN s
  BY <1>1
<1>2. CASE n \notin DOMAIN s
  <2>1. [s EXCEPT ![n] = v] = s
    BY <1>2
  <2> QED
    BY <1>2, <2>1
<1> QED
  BY <1>1, <1>2

LEMMA TypesGoto ==
    ASSUME ImportTypeOK, NEW pc \in Pcs, Goto(pc), UNCHANGED original, unreported' \in BOOLEAN,
           crontab' \in Seq(Seq(Word)), copy' \in Seq(Seq(Word)), plain' \in Seq(Seq(Word)),
           plainCopy' \in Seq(Seq(Word))
    PROVE  ImportTypeOK'
<1>1. at' \in [pc : Pcs, i : Jobs, line : [Jobs -> Nat]] /\ report' = report
  BY GotoMoves
<1> QED
  BY <1>1 DEF ImportTypeOK, Pcs

LEMMA TypesReported ==
    ASSUME ImportTypeOK, PlaceInv, at.pc # "done", NEW result \in Results, Reported(result),
           UNCHANGED original, unreported' \in BOOLEAN,
           crontab' \in Seq(Seq(Word)), copy' \in Seq(Seq(Word)), plain' \in Seq(Seq(Word)),
           plainCopy' \in Seq(Seq(Word))
    PROVE  ImportTypeOK'
<1>1. at' \in [pc : Pcs, i : Jobs, line : [Jobs -> Nat]] /\ report' \in [Jobs -> Results]
  BY ReportedMoves
<1> QED
  BY <1>1 DEF ImportTypeOK, Pcs

InPlace == ImportTypeOK /\ PlaceInv /\ CrontabInv

\* A step that leaves the crontab alone.
LEMMA AsideReported ==
    ASSUME InPlace, at.pc \notin {"done", "verify", "restore"}, NEW result \in Results,
           Reported(result), UNCHANGED << crontab, copy, plain, plainCopy, original >>,
           unreported' \in BOOLEAN
    PROVE  InPlace'
<1>1. ImportTypeOK'
  BY TypesReported DEF InPlace, ImportTypeOK
<1>2. PlaceInv' /\ CrontabInv'
  BY PlacesReported, CrontabUntouched DEF InPlace
<1> QED
  BY <1>1, <1>2 DEF InPlace

LEMMA AsideGoto ==
    ASSUME InPlace, at.pc \notin {"done", "verify", "restore"}, NEW pc \in Pcs, Goto(pc),
           pc \notin {"backup", "install", "verify", "restore"},
           pc \in CrontabPcs => Candidate.source = "crontab",
           pc \in PlistPcs => Candidate.source = "launchd",
           UNCHANGED << crontab, copy, plain, plainCopy, original >>, unreported' \in BOOLEAN
    PROVE  InPlace'
<1>1. ImportTypeOK'
  BY TypesGoto DEF InPlace, ImportTypeOK
<1>2. PlaceInv' /\ CrontabInv'
  BY PlacesGoto, CrontabGoto DEF InPlace
<1> QED
  BY <1>1, <1>2 DEF InPlace

LEMMA PcsApart ==
    /\ {"none", "skipped", "not registered", "registered", "untouched", "applied",
        "put back", "not restored", "interrupted"} \subseteq Results
    /\ CrontabPcs \subseteq Pcs /\ PlistPcs \subseteq Pcs /\ {"choose", "done"} \subseteq Pcs
    /\ CrontabPcs \cap PlistPcs = {} /\ "done" \notin CrontabPcs \cup PlistPcs
    /\ "choose" \notin CrontabPcs \cup PlistPcs
    /\ "verify" \notin PlistPcs /\ "restore" \notin PlistPcs
  BY DEF Results, CrontabPcs, PlistPcs, Pcs

LEMMA RegisterPlaces == ASSUME InPlace, RegisterCandidate PROVE InPlace'
<1>1. /\ UNCHANGED << crontab, copy, plain, plainCopy, original >> /\ at.pc = "choose"
      /\ unreported' \in BOOLEAN
  BY DEF RegisterCandidate, crontabVars, historyVars, InPlace, ImportTypeOK
<1>2. PICK choice \in chooseAction :
         \/ Reported("skipped") \/ Reported("not registered") \/ Reported("registered")
         \/ /\ choice = "mark"
            /\ IF Candidate.source = "crontab" THEN Goto("read") ELSE Goto("check")
  BY DEF RegisterCandidate
<1>3. CASE Reported("skipped") \/ Reported("not registered") \/ Reported("registered")
  BY <1>1, <1>3, AsideReported, PcsApart
<1>4. CASE choice = "mark" /\ Candidate.source = "crontab" /\ Goto("read")
  <2>1. "read" \in Pcs /\ "read" \notin PlistPcs
    BY DEF Pcs, CrontabPcs, PlistPcs
  <2> QED
    BY <1>1, <1>4, <2>1, AsideGoto
<1>5. CASE choice = "mark" /\ Candidate.source # "crontab" /\ Goto("check")
  <2>1. "check" \in Pcs /\ "check" \notin CrontabPcs
    BY DEF Pcs, CrontabPcs, PlistPcs
  <2>2. Candidate.wrappable
    BY <1>5, <1>2 DEF chooseAction
  <2>3. at.i \in Jobs
    BY DEF InPlace, ImportTypeOK
  <2>4. Candidate.source = "launchd"
    BY <1>5, <2>2, <2>3, CandidatesAre DEF Candidate
  <2> QED
    BY <1>1, <1>5, <2>1, <2>4, AsideGoto
<1> QED
  BY <1>2, <1>3, <1>4, <1>5

LEMMA ReadPlaces == ASSUME InPlace, ReadCrontab PROVE InPlace'
<1>1. /\ UNCHANGED << crontab, plain, original >> /\ at.pc = "read" /\ unreported' \in BOOLEAN
  BY DEF ReadCrontab, InPlace, ImportTypeOK
<1>2. CASE Reported("untouched") /\ UNCHANGED << copy, plainCopy >>
  BY <1>1, <1>2, AsideReported, PcsApart
<1>3. CASE /\ ReplaceCrontabCommand(crontab, at.line[at.i], Candidate.command, wrapCommand(Candidate)) # None
           /\ copy' = crontab /\ plainCopy' = plain /\ Goto("backup")
  <2>1. /\ "backup" \in Pcs /\ "backup" \notin PlistPcs
        /\ Candidate.source = "crontab"
    BY <1>1 DEF Pcs, CrontabPcs, PlistPcs, InPlace, PlaceInv
  <2>2. ImportTypeOK' /\ PlaceInv'
    BY <1>1, <1>3, <2>1, TypesGoto, PlacesGoto DEF InPlace, ImportTypeOK
  <2>3. at'.pc = "backup" /\ at'.i = at.i /\ at'.line = at.line /\ report' = report
    BY <1>3, <2>1, GotoMoves DEF InPlace
  <2>4. at.line[at.i] \in DOMAIN crontab /\ crontab[at.line[at.i]] = Candidate.command
    BY <1>3 DEF ReplaceCrontabCommand
  <2>6. Candidate' = Candidate
    BY <2>3 DEF Candidate
  <2>7. CrontabInv'
    BY <1>1, <1>3, <2>3, <2>4, <2>6 DEF InPlace, CrontabInv, NothingBad
  <2> QED
    BY <2>2, <2>7 DEF InPlace
<1> QED
  BY <1>2, <1>3 DEF ReadCrontab

LEMMA BackUpPlaces == ASSUME InPlace, BackUpCrontab PROVE InPlace'
<1>1. /\ UNCHANGED << crontab, copy, plain, plainCopy, original >> /\ at.pc = "backup"
      /\ unreported' \in BOOLEAN
  BY DEF BackUpCrontab, historyVars, InPlace, ImportTypeOK
<1>2. CASE Reported("untouched")
  BY <1>1, <1>2, AsideReported, PcsApart
<1>3. CASE Goto("install")
  <2>1. /\ "install" \in Pcs /\ "install" \notin PlistPcs
        /\ Candidate.source = "crontab"
    BY <1>1 DEF Pcs, CrontabPcs, PlistPcs, InPlace, PlaceInv
  <2>2. ImportTypeOK' /\ PlaceInv'
    BY <1>1, <1>3, <2>1, TypesGoto, PlacesGoto DEF InPlace, ImportTypeOK
  <2>3. at'.pc = "install" /\ at'.i = at.i /\ at'.line = at.line /\ report' = report
    BY <1>3, <2>1, GotoMoves DEF InPlace
  <2>6. Candidate' = Candidate
    BY <2>3 DEF Candidate
  <2>7. CrontabInv'
    BY <1>1, <2>3, <2>6 DEF InPlace, CrontabInv, NothingBad
  <2> QED
    BY <2>2, <2>7 DEF InPlace
<1> QED
  BY <1>2, <1>3 DEF BackUpCrontab

LEMMA InstallPlaces == ASSUME InPlace, InstallCrontab PROVE InPlace'
<1> DEFINE l == at.line[at.i]
           w == wrapCommand(Candidate)
           after == ReplaceCrontabCommand(copy, l, Candidate.command, w)
<1>1. UNCHANGED << copy, plainCopy, original >> /\ at.pc = "install" /\ unreported' \in BOOLEAN
  BY DEF InstallCrontab, InPlace, ImportTypeOK
<1>2. CASE Reported("untouched") /\ UNCHANGED << crontab, plain >>
  BY <1>1, <1>2, AsideReported, PcsApart
<1>3. ASSUME Goto("verify"), crontab' \in {after, [after EXCEPT ![l] = << >>]}, plain' = plainCopy
      PROVE  InPlace'
  <2>1. /\ "verify" \in Pcs /\ "verify" \notin PlistPcs
        /\ Candidate.source = "crontab"
    BY <1>1 DEF Pcs, CrontabPcs, PlistPcs, InPlace, PlaceInv
  <2>2. /\ at.i \in Jobs /\ at.i \in Int /\ copy \in Seq(Seq(Word)) /\ plainCopy \in Seq(Seq(Word))
        /\ report \in [Jobs -> Results]
    BY CandidatesAre DEF InPlace, ImportTypeOK
  <2>3. w \in Seq(Word) /\ w # << >>
    BY <2>2, WrapIs DEF Candidate
  <2>4. << >> \in Seq(Word)
    OBVIOUS
  <2>5. after \in Seq(Seq(Word))
    <3>1. CASE after = None
      BY <3>1 DEF None
    <3>2. CASE after = [copy EXCEPT ![l] = w]
      <4> HIDE DEF after, w, l
      <4> QED
        BY <3>2, <2>2, <2>3, ChangedSeq
    <3> QED
      BY <3>1, <3>2 DEF ReplaceCrontabCommand
  <2>6. crontab' \in Seq(Seq(Word))
    <3> HIDE DEF after, w, l
    <3>1. [after EXCEPT ![l] = << >>] \in Seq(Seq(Word))
      BY <2>4, <2>5, ChangedSeq
    <3> QED
      BY <1>3, <2>5, <3>1
  <2>7. ImportTypeOK' /\ PlaceInv'
    BY <1>1, <1>3, <2>1, <2>2, <2>6, TypesGoto, PlacesGoto DEF InPlace
  <2>8. at'.pc = "verify" /\ at'.i = at.i /\ at'.line = at.line /\ report' = report
    BY <1>3, <2>1, GotoMoves DEF InPlace
  <2>9. Candidate' = Candidate /\ Applied' = Applied
    BY <2>8 DEF Candidate, Applied
  <2>10. ASSUME NothingBad
         PROVE  /\ Agrees(copy, plainCopy, report) /\ l \in DOMAIN copy /\ copy[l] = Candidate.command
                /\ \/ Agrees(crontab', plainCopy, Applied)
                   \/ \A n \in DOMAIN crontab' : crontab'[n] # w
    <3>1. /\ Agrees(copy, plainCopy, report)
          /\ l \in DOMAIN copy /\ copy[l] = Candidate.command
          /\ \A n \in DOMAIN plainCopy : plainCopy[n] \notin Wrappers
      BY <1>1, <2>10 DEF InPlace, CrontabInv
    <3>2. after = [copy EXCEPT ![l] = w]
      BY <3>1 DEF ReplaceCrontabCommand
    <3>3. [after EXCEPT ![l] = << >>] = [copy EXCEPT ![l] = << >>]
      <4> HIDE DEF after, w, l
      <4> QED
        BY <2>2, <3>2
    <3>4. /\ \A j \in Jobs : wrapCommand(Candidates[j]) \in Wrappers
          /\ Candidate.command \notin Wrappers /\ Candidate = Candidates[at.i]
      BY <2>2, CandidatesAre, WrapIs DEF Candidate
    <3>5. report[at.i] = "none"
      BY <1>1, <2>2 DEF InPlace, PlaceInv
    <3>6. DOMAIN plainCopy = DOMAIN copy
      BY <2>2, <3>1 DEF Agrees
    <3>7. ASSUME NEW n \in DOMAIN copy PROVE copy[n] # w
      <4>1. plainCopy[n] # w
        BY <2>2, <3>1, <3>4, <3>6
      <4>2. ASSUME NEW j \in Jobs, report[j] = "applied", copy[n] = wrapCommand(Candidates[j])
            PROVE  copy[n] # w
        BY <2>2, <3>4, <3>5, <4>2, WrapsDiffer
      <4> QED
        BY <3>1, <4>1, <4>2 DEF Agrees
    <3>8. CASE crontab' = [copy EXCEPT ![l] = << >>]
      <4>1. /\ DOMAIN crontab' = DOMAIN copy /\ crontab'[l] = << >>
            /\ \A n \in DOMAIN copy : n # l => crontab'[n] = copy[n]
        <5> HIDE DEF w, l
        <5> QED
          BY <2>2, <2>4, <3>1, <3>8, ChangedSeq
      <4>2. \A n \in DOMAIN crontab' : crontab'[n] # w
        BY <2>3, <3>7, <4>1
      <4> QED
        BY <3>1, <4>2
    <3>9. CASE crontab' = [copy EXCEPT ![l] = w]
      <4>1. /\ Len(crontab') = Len(copy) /\ DOMAIN crontab' = DOMAIN copy /\ crontab'[l] = w
            /\ \A n \in DOMAIN copy : n # l => crontab'[n] = copy[n]
        <5> HIDE DEF w, l
        <5> QED
          BY <2>2, <2>3, <3>1, <3>9, ChangedSeq
      <4>2. plainCopy[l] = Candidate.command
        BY <3>1, <3>4 DEF Agrees
      <4>3. /\ Applied[at.i] = "applied"
            /\ \A j \in Jobs : report[j] = "applied" => Applied[j] = "applied"
        BY <2>2 DEF Applied
      <4>4. ASSUME NEW n \in DOMAIN crontab'
            PROVE  \/ crontab'[n] = plainCopy[n]
                   \/ \E j \in Jobs : /\ Applied[j] = "applied"
                                      /\ plainCopy[n] = Candidates[j].command
                                      /\ crontab'[n] = wrapCommand(Candidates[j])
        <5>1. CASE n = l
          BY <2>2, <3>4, <4>1, <4>2, <4>3, <5>1
        <5>2. CASE n # l
          BY <3>1, <4>1, <4>3, <5>2 DEF Agrees
        <5> QED
          BY <5>1, <5>2
      <4>5. Len(crontab') = Len(plainCopy)
        BY <3>1, <4>1 DEF Agrees
      <4> QED
        BY <3>1, <4>4, <4>5 DEF Agrees
    <3> QED
      BY <1>3, <3>2, <3>3, <3>8, <3>9
  <2>12. CrontabInv'
    <3>1. \A n \in DOMAIN plainCopy : plainCopy[n] \notin Wrappers
      BY DEF InPlace, CrontabInv
    <3>2. NothingBad' => NothingBad
      BY <2>8 DEF NothingBad
    <3>3. wrapCommand(Candidate)' = w
      BY <2>9
    <3> HIDE DEF after
    <3> QED
      BY <1>1, <1>3, <2>8, <2>9, <2>10, <3>1, <3>2, <3>3 DEF CrontabInv
  <2> QED
    BY <2>7, <2>12 DEF InPlace
<1> QED
  BY <1>2, <1>3 DEF InstallCrontab

LEMMA VerifyPlaces == ASSUME InPlace, VerifyCrontab PROVE InPlace'
<1> DEFINE l == at.line[at.i]
           w == wrapCommand(Candidate)
<1>1. /\ UNCHANGED << crontab, copy, plain, plainCopy, original >> /\ at.pc = "verify"
      /\ at.i \in Jobs /\ crontab \in Seq(Seq(Word)) /\ copy \in Seq(Seq(Word))
      /\ plain \in Seq(Seq(Word)) /\ plainCopy \in Seq(Seq(Word)) /\ unreported' \in BOOLEAN
      /\ report \in [Jobs -> Results]
      /\ \A n \in DOMAIN plain : plain[n] \notin Wrappers
  BY DEF VerifyCrontab, crontabVars, historyVars, InPlace, ImportTypeOK, CrontabInv
<1>3. CASE wrappedIsLive(crontab, l, w) /\ Reported("applied")
  <2>1. "applied" \in Results /\ "applied" \notin Bad
    BY DEF Results, Bad
  <2>2. ImportTypeOK' /\ PlaceInv'
    BY <1>1, <1>3, <2>1, TypesReported, PlacesReported DEF InPlace
  <2>3. report' = Applied
    BY <1>3 DEF Reported, Applied
  <2>4. NothingBad => Agrees(crontab, plain, Applied)
    BY <1>1, <1>3 DEF InPlace, CrontabInv, wrappedIsLive
  <2>5. CrontabInv'
    BY <1>1, <1>3, <2>1, <2>3, <2>4, CrontabReported DEF InPlace
  <2> QED
    BY <2>2, <2>5 DEF InPlace
<1>4. CASE Goto("restore")
  <2>1. /\ "restore" \in Pcs /\ "restore" \notin PlistPcs
        /\ Candidate.source = "crontab"
    BY <1>1 DEF Pcs, CrontabPcs, PlistPcs, InPlace, PlaceInv
  <2>2. ImportTypeOK' /\ PlaceInv'
    BY <1>1, <1>4, <2>1, TypesGoto, PlacesGoto DEF InPlace, ImportTypeOK
  <2>3. at'.pc = "restore" /\ at'.i = at.i /\ at'.line = at.line /\ report' = report
    BY <1>4, <2>1, GotoMoves DEF InPlace
  <2>4. Candidate' = Candidate
    BY <2>3 DEF Candidate
  <2>6. CrontabInv'
    BY <1>1, <2>3, <2>4 DEF InPlace, CrontabInv, NothingBad
  <2> QED
    BY <2>2, <2>6 DEF InPlace
<1> QED
  BY <1>3, <1>4 DEF VerifyCrontab

LEMMA RestorePlaces == ASSUME InPlace, RestoreCrontab PROVE InPlace'
<1>1. /\ UNCHANGED << copy, plainCopy, original >> /\ at.pc = "restore" /\ unreported' \in BOOLEAN
      /\ crontab \in Seq(Seq(Word)) /\ copy \in Seq(Seq(Word)) /\ plain \in Seq(Seq(Word))
      /\ plainCopy \in Seq(Seq(Word))
      /\ \A n \in DOMAIN plain : plain[n] \notin Wrappers
      /\ \A n \in DOMAIN plainCopy : plainCopy[n] \notin Wrappers
  BY DEF RestoreCrontab, InPlace, ImportTypeOK, CrontabInv
<1>2. /\ {"put back", "not restored"} \subseteq Results /\ "not restored" \in Bad
  BY DEF Results, Bad
<1>3. PICK result \in {"put back", "not restored"} :
         /\ Reported(result) /\ crontab' = IF result = "put back" THEN copy ELSE crontab
         /\ plain' = IF result = "put back" THEN plainCopy ELSE plain
  BY DEF RestoreCrontab
<1>4. /\ crontab' \in Seq(Seq(Word)) /\ plain' \in Seq(Seq(Word)) /\ result \in Results
      /\ \A n \in DOMAIN plain' : plain'[n] \notin Wrappers
  BY <1>1, <1>2, <1>3
<1>5. ImportTypeOK' /\ PlaceInv'
  BY <1>1, <1>3, <1>4, TypesReported, PlacesReported DEF InPlace
<1>6. \A j \in Jobs : report[j] = "applied" => report'[j] = "applied"
  BY <1>1, <1>3, <1>4, ReportedMoves DEF InPlace
<1>7. ASSUME NothingBad, result \notin Bad PROVE Agrees(crontab', plain', report')
  <2>1. crontab' = copy /\ plain' = plainCopy /\ Agrees(copy, plainCopy, report)
    BY <1>1, <1>2, <1>3, <1>7 DEF InPlace, CrontabInv
  <2>2. Agrees(copy, plainCopy, report')
    BY <1>6, <2>1, AgreesMore
  <2> QED
    BY <2>1, <2>2
<1>8. CrontabInv'
  BY <1>1, <1>3, <1>4, <1>7, CrontabReported DEF InPlace
<1> QED
  BY <1>5, <1>8 DEF InPlace

LEMMA InterruptedPlaces == ASSUME InPlace, Interrupted PROVE InPlace'
<1>1. /\ UNCHANGED << crontab, copy, plain, plainCopy, original, unreported >> /\ at.pc # "done"
      /\ at' = [at EXCEPT !.pc = "done"]
      /\ report' = [report EXCEPT ![at.i] = IF at.pc = "choose" THEN @ ELSE "interrupted"]
  BY DEF Interrupted, crontabVars, historyVars
<1>2. /\ at \in [pc : Pcs, i : Jobs, line : [Jobs -> Nat]] /\ report \in [Jobs -> Results]
      /\ at.i \in Jobs
  BY DEF InPlace, ImportTypeOK, Pcs
<1>3. at' \in [pc : Pcs, i : Jobs, line : [Jobs -> Nat]] /\ at'.pc = "done"
  BY <1>1, <1>2, PcsApart
<1>4. /\ report' \in [Jobs -> Results]
      /\ at.pc = "choose" => report' = report
      /\ at.pc # "choose" => report'[at.i] = "interrupted"
  BY <1>1, <1>2, PcsApart
<1>5. ImportTypeOK'
  BY <1>1, <1>3, <1>4 DEF InPlace, ImportTypeOK, Pcs
<1>6. PlaceInv'
  BY <1>3, PcsApart DEF PlaceInv
<1>7. ASSUME NothingBad' PROVE Agrees(crontab', plain', report')
  <2>1. at.pc = "choose"
    BY <1>2, <1>4, <1>7 DEF NothingBad, Bad
  <2>2. report' = report /\ NothingBad
    BY <1>4, <1>7, <2>1 DEF NothingBad
  <2>3. Agrees(crontab, plain, report)
    BY <1>1, <1>7, <2>1, <2>2 DEF InPlace, CrontabInv
  <2> QED
    BY <1>1, <2>2, <2>3
<1>9. CrontabInv'
  BY <1>1, <1>3, <1>7 DEF InPlace, CrontabInv
<1> QED
  BY <1>5, <1>6, <1>9 DEF InPlace

-----------------------------------------------------------------------------
(* The user edits the crontab, and what it would be without this program with it. *)

LEMMA Removed ==
    ASSUME NEW S, NEW s \in Seq(S), NEW n \in DOMAIN s
    PROVE  /\ RemoveAt(s, n) \in Seq(S) /\ Len(RemoveAt(s, n)) = Len(s) - 1
           /\ DOMAIN RemoveAt(s, n) = 1 .. (Len(s) - 1)
           /\ \A m \in 1 .. (Len(s) - 1) :
                 RemoveAt(s, n)[m] = IF m < n THEN s[m] ELSE s[m + 1]
<1>1. n \in 1 .. Len(s) /\ Len(s) \in Nat
  OBVIOUS
<1> DEFINE a == SubSeq(s, 1, n - 1)
           b == SubSeq(s, n + 1, Len(s))
<1>2. a \in Seq(S) /\ Len(a) = n - 1 /\ \A m \in 1 .. (n - 1) : a[m] = s[m]
  BY <1>1
<1>3. b \in Seq(S) /\ Len(b) = Len(s) - n /\ \A m \in 1 .. (Len(s) - n) : b[m] = s[n + m]
  BY <1>1
<1>4. RemoveAt(s, n) = a \o b
  BY DEF RemoveAt
<1> HIDE DEF a, b
<1>5. a \o b \in Seq(S) /\ Len(a \o b) = Len(s) - 1
  BY <1>1, <1>2, <1>3, Concatenated
<1>6. ASSUME NEW m \in 1 .. (Len(s) - 1)
      PROVE  (a \o b)[m] = IF m < n THEN s[m] ELSE s[m + 1]
  <2>1. CASE m < n
    <3>1. m \in 1 .. Len(a)
      BY <1>1, <1>2, <2>1
    <3>2. (a \o b)[m] = a[m]
      BY <3>1, <1>2, <1>3, Concatenated
    <3> QED
      BY <1>2, <2>1, <3>1, <3>2
  <2>2. CASE ~(m < n)
    <3>1. /\ m - (n - 1) \in 1 .. Len(b) /\ Len(a) + (m - (n - 1)) = m
          /\ n + (m - (n - 1)) = m + 1
      BY <1>1, <1>2, <1>3, <2>2
    <3>2. (a \o b)[m] = b[m - (n - 1)]
      <4>1. \A i \in 1 .. Len(b) : (a \o b)[Len(a) + i] = b[i]
        BY <1>2, <1>3, Concatenated
      <4>2. (a \o b)[Len(a) + (m - (n - 1))] = b[m - (n - 1)]
        BY <3>1, <4>1
      <4> QED
        BY <3>1, <4>2
    <3> QED
      BY <1>3, <2>2, <3>1, <3>2
  <2> QED
    BY <2>1, <2>2
<1> QED
  BY <1>4, <1>5, <1>6

LEMMA OnTop ==
    ASSUME NEW S, NEW s \in Seq(S), NEW x \in S
    PROVE  /\ << x >> \o s \in Seq(S) /\ Len(<< x >> \o s) = Len(s) + 1
           /\ \A m \in 1 .. (Len(s) + 1) :
                 (<< x >> \o s)[m] = IF m = 1 THEN x ELSE s[m - 1]
  OBVIOUS

LEMMA OnALine ==
    ASSUME NEW S, NEW s \in Seq(S), NEW n
    PROVE  /\ Without(s, n) \in Seq(S)
           /\ \A m \in DOMAIN Without(s, n) : \E k \in DOMAIN s : Without(s, n)[m] = s[k]
<1>1. CASE n \in DOMAIN s
  <2>1. /\ RemoveAt(s, n) \in Seq(S) /\ DOMAIN RemoveAt(s, n) = 1 .. (Len(s) - 1)
        /\ \A m \in 1 .. (Len(s) - 1) :
              RemoveAt(s, n)[m] = IF m < n THEN s[m] ELSE s[m + 1]
    BY <1>1, Removed
  <2>2. ASSUME NEW m \in 1 .. (Len(s) - 1) PROVE m \in DOMAIN s /\ m + 1 \in DOMAIN s
    OBVIOUS
  <2>3. \A m \in 1 .. (Len(s) - 1) : \E k \in DOMAIN s : RemoveAt(s, n)[m] = s[k]
    BY <2>1, <2>2
  <2> QED
    BY <1>1, <2>1, <2>3 DEF Without
<1>2. CASE n \notin DOMAIN s
  BY <1>2 DEF Without
<1> QED
  BY <1>1, <1>2

\* An edit does the same to both, and puts no wrapper anywhere.
LEMMA EditsAgree ==
    ASSUME UserEditsCrontab, crontab \in Seq(Seq(Word)), plain \in Seq(Seq(Word)),
           \A n \in DOMAIN plain : plain[n] \notin Wrappers, NEW reported
    PROVE  /\ crontab' \in Seq(Seq(Word)) /\ plain' \in Seq(Seq(Word))
           /\ \A n \in DOMAIN plain' : plain'[n] \notin Wrappers
           /\ Agrees(crontab, plain, reported) => Agrees(crontab', plain', reported)
           /\ \A n \in DOMAIN crontab' :
                 crontab'[n] = OtherLine \/ \E k \in DOMAIN crontab : crontab'[n] = crontab[k]
<1>1. /\ crontab \in Seq(Seq(Word)) /\ plain \in Seq(Seq(Word))
      /\ OtherLine \in Seq(Word) /\ OtherLine \notin Wrappers
      /\ \A n \in DOMAIN plain : plain[n] \notin Wrappers
  BY CrontabAssumption
<1> DEFINE Line(n) == \/ crontab[n] = plain[n]
                      \/ \E j \in Jobs : /\ reported[j] = "applied"
                                         /\ plain[n] = Candidates[j].command
                                         /\ crontab[n] = wrapCommand(Candidates[j])
           Line2(n) == \/ crontab'[n] = plain'[n]
                       \/ \E j \in Jobs : /\ reported[j] = "applied"
                                          /\ plain'[n] = Candidates[j].command
                                          /\ crontab'[n] = wrapCommand(Candidates[j])
           Alike == Len(crontab) = Len(plain) /\ \A n \in DOMAIN crontab : Line(n)
           Alike2 == Len(crontab') = Len(plain') /\ \A n \in DOMAIN crontab' : Line2(n)
           Good == /\ crontab' \in Seq(Seq(Word)) /\ plain' \in Seq(Seq(Word))
                   /\ \A n \in DOMAIN plain' : plain'[n] \notin Wrappers
                   /\ (Alike => Alike2)
                   /\ \A n \in DOMAIN crontab' : \/ crontab'[n] = OtherLine
                                                 \/ \E k \in DOMAIN crontab : crontab'[n] = crontab[k]
<1>2. ASSUME crontab' = << OtherLine >> \o crontab, plain' = << OtherLine >> \o plain
      PROVE  Good
  <2>1. /\ crontab' \in Seq(Seq(Word)) /\ Len(crontab') = Len(crontab) + 1
        /\ \A m \in 1 .. (Len(crontab) + 1) :
              crontab'[m] = (IF m = 1 THEN OtherLine ELSE crontab[m - 1])
    BY <1>1, <1>2, OnTop
  <2>2. /\ plain' \in Seq(Seq(Word)) /\ Len(plain') = Len(plain) + 1
        /\ \A m \in 1 .. (Len(plain) + 1) :
              plain'[m] = (IF m = 1 THEN OtherLine ELSE plain[m - 1])
    BY <1>1, <1>2, OnTop
  <2>3. ASSUME NEW n \in DOMAIN plain' PROVE plain'[n] \notin Wrappers
    <3>1. n \in 1 .. (Len(plain) + 1) /\ (n # 1 => n - 1 \in DOMAIN plain)
      BY <1>1, <2>2
    <3> QED
      BY <1>1, <2>2, <3>1
  <2>4. ASSUME Len(crontab) = Len(plain), \A n \in DOMAIN crontab : Line(n),
               NEW n \in DOMAIN crontab'
        PROVE  Line2(n)
    <3>1. /\ n \in 1 .. (Len(crontab) + 1) /\ n \in 1 .. (Len(plain) + 1)
          /\ (n # 1 => n - 1 \in DOMAIN crontab)
      BY <1>1, <2>1, <2>4
    <3>2. CASE n = 1
      BY <2>1, <2>2, <3>1, <3>2
    <3>3. CASE n # 1
      <4>1. crontab'[n] = crontab[n - 1] /\ plain'[n] = plain[n - 1]
        BY <2>1, <2>2, <3>1, <3>3
      <4>2. Line(n - 1)
        BY <2>4, <3>1, <3>3
      <4> QED
        BY <4>1, <4>2
    <3> QED
      BY <3>2, <3>3
  <2>5. Alike => Alike2
    BY <2>1, <2>2, <2>4
  <2>6. ASSUME NEW n \in DOMAIN crontab'
        PROVE  crontab'[n] = OtherLine \/ \E k \in DOMAIN crontab : crontab'[n] = crontab[k]
    <3>1. n \in 1 .. (Len(crontab) + 1) /\ (n # 1 => n - 1 \in DOMAIN crontab)
      BY <1>1, <2>1
    <3> QED
      BY <2>1, <3>1
  <2> QED
    BY <2>1, <2>2, <2>3, <2>5, <2>6
<1>3. ASSUME NEW n \in DOMAIN crontab, crontab' = [crontab EXCEPT ![n] = OtherLine],
             plain' = [plain EXCEPT ![n] = OtherLine]
      PROVE  Good
  <2>1. /\ crontab' \in Seq(Seq(Word)) /\ Len(crontab') = Len(crontab)
        /\ DOMAIN crontab' = DOMAIN crontab /\ crontab'[n] = OtherLine
        /\ \A m \in DOMAIN crontab : m # n => crontab'[m] = crontab[m]
    BY <1>1, <1>3, ChangedSeq
  <2>2. /\ plain' \in Seq(Seq(Word)) /\ Len(plain') = Len(plain)
        /\ DOMAIN plain' = DOMAIN plain
        /\ (n \in DOMAIN plain => plain'[n] = OtherLine)
        /\ \A m \in DOMAIN plain : m # n => plain'[m] = plain[m]
    <3>1. /\ plain' \in Seq(Seq(Word)) /\ Len(plain') = Len(plain)
          /\ DOMAIN plain' = DOMAIN plain
          /\ \A m \in DOMAIN plain : m # n => plain'[m] = plain[m]
      <4>1. CASE n \in DOMAIN plain
        BY <1>1, <1>3, <4>1, ChangedSeq
      <4>2. CASE n \notin DOMAIN plain
        <5>1. [plain EXCEPT ![n] = OtherLine] = plain
          BY <1>1, <4>2
        <5> QED
          BY <1>1, <1>3, <5>1
      <4> QED
        BY <4>1, <4>2
    <3>2. n \in DOMAIN plain => plain'[n] = OtherLine
      BY <1>3
    <3> QED
      BY <3>1, <3>2
  <2>3. ASSUME NEW m \in DOMAIN plain' PROVE plain'[m] \notin Wrappers
    BY <1>1, <2>2
  <2>4. ASSUME Len(crontab) = Len(plain), \A m \in DOMAIN crontab : Line(m),
               NEW m \in DOMAIN crontab'
        PROVE  Line2(m)
    <3>1. DOMAIN plain = DOMAIN crontab
      BY <1>1, <2>4
    <3>2. CASE m = n
      BY <2>1, <2>2, <3>1, <3>2
    <3>3. CASE m # n
      <4>1. crontab'[m] = crontab[m] /\ plain'[m] = plain[m] /\ Line(m)
        BY <2>1, <2>2, <2>4, <3>1, <3>3
      <4> QED
        BY <4>1
    <3> QED
      BY <3>2, <3>3
  <2>5. \A m \in DOMAIN crontab' :
           crontab'[m] = OtherLine \/ \E k \in DOMAIN crontab : crontab'[m] = crontab[k]
    BY <2>1
  <2> QED
    BY <2>1, <2>2, <2>3, <2>4, <2>5
<1>4. ASSUME NEW n \in DOMAIN crontab, crontab' = Without(crontab, n), plain' = Without(plain, n)
      PROVE  Good
  <2>1. /\ crontab' \in Seq(Seq(Word)) /\ plain' \in Seq(Seq(Word))
        /\ \A m \in DOMAIN plain' : \E k \in DOMAIN plain : plain'[m] = plain[k]
        /\ \A m \in DOMAIN crontab' : \E k \in DOMAIN crontab : crontab'[m] = crontab[k]
    BY <1>1, <1>4, OnALine
  <2>2. ASSUME NEW m \in DOMAIN plain' PROVE plain'[m] \notin Wrappers
    BY <1>1, <2>1
  <2>3. ASSUME Len(crontab) = Len(plain), \A m \in DOMAIN crontab : Line(m)
        PROVE  Len(crontab') = Len(plain') /\ \A m \in DOMAIN crontab' : Line2(m)
    <3>1. n \in DOMAIN plain
      BY <1>1, <2>3
    <3>2. crontab' = RemoveAt(crontab, n) /\ plain' = RemoveAt(plain, n)
      BY <1>4, <3>1 DEF Without
    <3>3. /\ Len(crontab') = Len(crontab) - 1 /\ DOMAIN crontab' = 1 .. (Len(crontab) - 1)
          /\ \A m \in 1 .. (Len(crontab) - 1) :
                 crontab'[m] = IF m < n THEN crontab[m] ELSE crontab[m + 1]
      BY <1>1, <3>2, Removed
    <3>4. /\ Len(plain') = Len(plain) - 1
          /\ \A m \in 1 .. (Len(plain) - 1) :
                 plain'[m] = IF m < n THEN plain[m] ELSE plain[m + 1]
      BY <1>1, <3>1, <3>2, Removed
    <3>5. ASSUME NEW m \in DOMAIN crontab' PROVE Line2(m)
      <4> DEFINE k == IF m < n THEN m ELSE m + 1
      <4>1. k \in DOMAIN crontab
        BY <1>1, <3>3
      <4>2. crontab'[m] = crontab[k] /\ plain'[m] = plain[k]
        BY <2>3, <3>3, <3>4, <3>5
      <4>3. Line(k)
        BY <2>3, <4>1
      <4> QED
        BY <4>2, <4>3
    <3> QED
      BY <2>3, <3>3, <3>4, <3>5
  <2> QED
    BY <2>1, <2>2, <2>3
<1>5. Good
  BY <1>2, <1>3, <1>4 DEF UserEditsCrontab
<1> QED
  BY <1>5 DEF Agrees

LEMMA UserPlaces == ASSUME InPlace, UserEditsCrontab PROVE InPlace'
<1>1. /\ UNCHANGED << at, report, copy, plainCopy, original, unreported >>
      /\ crontab \in Seq(Seq(Word)) /\ plain \in Seq(Seq(Word)) /\ at.i \in Jobs
      /\ OtherLine \notin Wrappers
      /\ \A n \in DOMAIN plain : plain[n] \notin Wrappers
  BY CrontabAssumption DEF UserEditsCrontab, InPlace, ImportTypeOK, CrontabInv
<1>2. Candidate' = Candidate /\ Applied' = Applied
  BY <1>1 DEF Candidate, Applied
<1>3. /\ crontab' \in Seq(Seq(Word)) /\ plain' \in Seq(Seq(Word))
      /\ \A n \in DOMAIN plain' : plain'[n] \notin Wrappers
      /\ \A n \in DOMAIN crontab' :
            crontab'[n] = OtherLine \/ \E k \in DOMAIN crontab : crontab'[n] = crontab[k]
  BY <1>1, EditsAgree
<1>4. Agrees(crontab, plain, report) => Agrees(crontab', plain', report)
  BY <1>1, EditsAgree
<1>5. Agrees(crontab, plain, Applied) => Agrees(crontab', plain', Applied)
  BY <1>1, EditsAgree
<1>6. ImportTypeOK' /\ PlaceInv'
  BY <1>1, <1>2, <1>3 DEF InPlace, ImportTypeOK, PlaceInv
<1>7. ASSUME \A n \in DOMAIN crontab : crontab[n] # wrapCommand(Candidate)
      PROVE  \A n \in DOMAIN crontab' : crontab'[n] # wrapCommand(Candidate)
  <2>1. wrapCommand(Candidate) \in Wrappers
    BY <1>1, WrapIs DEF Candidate
  <2> QED
    BY <1>1, <1>3, <1>7, <2>1
<1>8. CrontabInv'
  <2>1. wrapCommand(Candidate)' = wrapCommand(Candidate) /\ NothingBad' = NothingBad
    BY <1>1, <1>2 DEF NothingBad
  <2> QED
    BY <1>1, <1>2, <1>3, <1>4, <1>5, <1>7, <2>1 DEF InPlace, CrontabInv
<1> QED
  BY <1>6, <1>8 DEF InPlace

-----------------------------------------------------------------------------
(* The edits of a plist, one after another. *)

LEMMA InsertAtIs ==
    ASSUME NEW u, NEW i, NEW x
    PROVE  InsertAt(u, i, x) = SubSeq(u, 1, i - 1) \o << x >> \o SubSeq(u, i, Len(u))
  BY DEF InsertAt

LEMMA Inserted ==
    ASSUME NEW W, NEW s \in Seq(W), NEW t \in Seq(W), NEW x \in W
    PROVE  InsertAt(s \o t, Len(s) + 1, x) = (s \o << x >>) \o t
<1> DEFINE u == s \o t
<1>1. /\ u \in Seq(W) /\ Len(u) = Len(s) + Len(t) /\ Len(s) \in Nat /\ Len(t) \in Nat
      /\ \A i \in 1 .. Len(s) : u[i] = s[i]
      /\ \A i \in 1 .. Len(t) : u[Len(s) + i] = t[i]
  BY Concatenated
<1> HIDE DEF u
<1>2. SubSeq(u, 1, Len(s)) = s
  BY <1>1
<1>3. SubSeq(u, Len(s) + 1, Len(u)) = t
  BY <1>1
<1>4. InsertAt(u, Len(s) + 1, x) = SubSeq(u, 1, Len(s)) \o << x >> \o SubSeq(u, Len(s) + 1, Len(u))
  <2> DEFINE j == Len(s) + 1
  <2>1. j - 1 = Len(s)
    BY <1>1
  <2> HIDE DEF j
  <2>2. InsertAt(u, j, x) = SubSeq(u, 1, j - 1) \o << x >> \o SubSeq(u, j, Len(u))
    BY InsertAtIs
  <2> QED
    BY <2>1, <2>2, Zenon DEF j
<1> QED
  BY <1>2, <1>3, <1>4 DEF u

LEMMA PlistIs ==
    ASSUME NEW p \in PlistForms
    PROVE  /\ p \in Plist /\ p.program \in Word /\ p.args \in Seq(Word)
           /\ p.args = None => p.program # ""
           /\ p = [program |-> p.program, args |-> p.args, needsRoot |-> p.needsRoot]
  BY PlistFormsAssumption DEF Plist

ArgsEdit(n, w) == [key |-> "args", at |-> n, word |-> w]
ProgramEdit == [key |-> "program", at |-> 0, word |-> markPath]
Edits == [key : {"args", "program"}, at : 0 .. 3, word : Word]

LEMMA Tuples ==
    ASSUME NEW W, NEW a \in W, NEW b \in W, NEW c \in W
    PROVE  /\ << >> \in Seq(W) /\ Len(<< >>) = 0
           /\ << a >> \in Seq(W) /\ Len(<< a >>) = 1 /\ << a >>[1] = a
           /\ << a, b >> \in Seq(W) /\ Len(<< a, b >>) = 2
           /\ << a, b >>[1] = a /\ << a, b >>[2] = b
           /\ << a, b, c >> \in Seq(W) /\ Len(<< a, b, c >>) = 3
           /\ << a, b, c >>[1] = a /\ << a, b, c >>[2] = b /\ << a, b, c >>[3] = c
  OBVIOUS

LEMMA AddedIs ==
    ASSUME NEW p \in PlistForms, NEW id \in Word
    PROVE  /\ Added(p, id) \in Seq(Word)
           /\ Added(p, id)[1] = markPath /\ Added(p, id)[2] = id
           /\ p.args = None => Len(Added(p, id)) = 3 /\ Added(p, id)[3] = p.program
           /\ p.args # None => Len(Added(p, id)) = 2
           /\ Len(Added(p, id)) \in {2, 3}
<1>1. p.program \in Word /\ markPath \in Word
  BY PlistIs, WordsAre
<1>2. CASE p.args = None
  <2>1. Added(p, id) = << markPath, id, p.program >>
    BY <1>2 DEF Added
  <2> QED
    BY <1>1, <1>2, <2>1, Tuples
<1>3. CASE p.args # None
  <2>1. Added(p, id) = << markPath, id >>
    BY <1>3 DEF Added
  <2> QED
    BY <1>1, <1>3, <2>1, Tuples
<1> QED
  BY <1>2, <1>3

LEMMA EditsAre ==
    ASSUME NEW p \in PlistForms, NEW id \in Word
    PROVE  /\ insertWrapper(p, id) \in Seq(Edits)
           /\ p.program = "" => Len(insertWrapper(p, id)) = Len(Added(p, id))
           /\ p.program # "" =>
                 /\ Len(insertWrapper(p, id)) = Len(Added(p, id)) + 1
                 /\ insertWrapper(p, id)[Len(Added(p, id)) + 1] = ProgramEdit
           /\ \A k \in 1 .. Len(Added(p, id)) :
                 insertWrapper(p, id)[k] = ArgsEdit(k, Added(p, id)[k])
<1>1. p.program \in Word /\ markPath \in Word
  BY PlistIs, WordsAre
<1> DEFINE e1 == ArgsEdit(1, markPath)
           e2 == ArgsEdit(2, id)
           e3 == ArgsEdit(3, p.program)
           before == IF p.args = None THEN << e1, e2, e3 >> ELSE << e1, e2 >>
           after == IF p.program = "" THEN << >> ELSE << ProgramEdit >>
           m == Len(Added(p, id))
<1>2. e1 \in Edits /\ e2 \in Edits /\ e3 \in Edits /\ ProgramEdit \in Edits
  <2>1. \A n \in {1, 2, 3}, w \in Word : ArgsEdit(n, w) \in Edits
    BY DEF Edits, ArgsEdit
  <2>2. ProgramEdit \in Edits
    BY <1>1 DEF Edits, ProgramEdit
  <2> QED
    BY <1>1, <2>1, <2>2
<1>3. insertWrapper(p, id) = before \o after
  BY DEF insertWrapper, ArgsEdit, ProgramEdit
<1>4. /\ before \in Seq(Edits) /\ Len(before) = m
      /\ \A k \in 1 .. m : before[k] = ArgsEdit(k, Added(p, id)[k])
  <2>1. CASE p.args = None
    <3>0. m = 3
      BY <2>1, AddedIs, Zenon
    <3>1. m = 3 /\ \A k \in 1 .. m : k = 1 \/ k = 2 \/ k = 3
      <4> HIDE DEF m
      <4> QED
        BY <3>0
    <3>2. /\ before = << e1, e2, e3 >> /\ Added(p, id)[1] = markPath
          /\ Added(p, id)[2] = id /\ Added(p, id)[3] = p.program
      BY <2>1, AddedIs
    <3>3. /\ before \in Seq(Edits) /\ Len(before) = 3
          /\ before[1] = e1 /\ before[2] = e2 /\ before[3] = e3
      <4> HIDE DEF e1, e2, e3, before
      <4> QED
        BY <1>2, <3>2, Tuples
    <3> HIDE DEF m, before
    <3> QED
      BY <3>1, <3>2, <3>3
  <2>2. CASE p.args # None
    <3>0. m = 2
      BY <2>2, AddedIs, Zenon
    <3>1. m = 2 /\ \A k \in 1 .. m : k = 1 \/ k = 2
      <4> HIDE DEF m
      <4> QED
        BY <3>0
    <3>2. /\ before = << e1, e2 >> /\ Added(p, id)[1] = markPath
          /\ Added(p, id)[2] = id
      BY <2>2, AddedIs
    <3>3. /\ before \in Seq(Edits) /\ Len(before) = 2
          /\ before[1] = e1 /\ before[2] = e2
      <4> HIDE DEF e1, e2, e3, before
      <4> QED
        BY <1>2, <3>2, Tuples
    <3> HIDE DEF m, before
    <3> QED
      BY <3>1, <3>2, <3>3
  <2> QED
    BY <2>1, <2>2
<1>5. /\ after \in Seq(Edits)
      /\ p.program = "" => Len(after) = 0
      /\ p.program # "" => Len(after) = 1 /\ after[1] = ProgramEdit
  <2> HIDE DEF e1, e2, e3
  <2> QED
    BY <1>2, Tuples
<1> HIDE DEF e1, e2, e3, before, after
<1>6. /\ before \o after \in Seq(Edits) /\ Len(before \o after) = Len(before) + Len(after)
      /\ \A k \in 1 .. Len(before) : (before \o after)[k] = before[k]
      /\ \A k \in 1 .. Len(after) : (before \o after)[Len(before) + k] = after[k]
  <2>1. before \in Seq(Edits) /\ after \in Seq(Edits)
    BY <1>4, <1>5
  <2> QED
    BY <2>1, Concatenated
<1>7. m \in Nat
  <2>1. m \in {2, 3}
    BY AddedIs, Zenon
  <2> HIDE DEF m
  <2> QED
    BY <2>1
<1> HIDE DEF m
<1>8. p.program # "" => (before \o after)[m + 1] = ProgramEdit /\ Len(before \o after) = m + 1
  <2>1. ASSUME Len(after) = 1 PROVE (before \o after)[m + 1] = after[1] /\ Len(before \o after) = m + 1
    BY <1>4, <1>6, <2>1
  <2> QED
    BY <1>5, <2>1
<1>9. p.program = "" => Len(before \o after) = m
  <2>1. ASSUME Len(after) = 0 PROVE Len(before \o after) = m
    BY <1>4, <1>6, <1>7, <2>1
  <2> QED
    BY <1>5, <2>1
<1>10. \A k \in 1 .. m : (before \o after)[k] = ArgsEdit(k, Added(p, id)[k])
  BY <1>4, <1>6
<1> QED
  BY <1>3, <1>6, <1>8, <1>9, <1>10 DEF m

LEMMA AddedOneByOne ==
    ASSUME NEW p \in PlistForms, NEW id \in Word, NEW k \in 0 .. Len(Added(p, id)) - 1
    PROVE  InsertAt(SubSeq(Added(p, id), 1, k) \o p.args, k + 1, Added(p, id)[k + 1])
              = SubSeq(Added(p, id), 1, k + 1) \o p.args
<1> DEFINE a == Added(p, id)
           s == SubSeq(a, 1, k)
<1>1. a \in Seq(Word) /\ Len(a) \in {2, 3} /\ p.args \in Seq(Word)
  BY AddedIs, PlistIs, Zenon
<1> HIDE DEF a
<1>2. k \in 0 .. Len(a) - 1 /\ k + 1 \in 1 .. Len(a)
  BY <1>1 DEF a
<1>3. s \in Seq(Word) /\ Len(s) = k
  BY <1>1, <1>2
<1>4. a[k + 1] \in Word
  BY <1>1, <1>2
<1>5. SubSeq(a, 1, k + 1) = SubSeq(a, 1, k + 1 - 1) \o << a[k + 1] >>
  BY <1>1, <1>2, SubSeqRecursiveSecond
<1>6. SubSeq(a, 1, k + 1) = s \o << a[k + 1] >>
  <2>1. k + 1 - 1 = k
    BY <1>2
  <2> QED
    BY <1>5, <2>1, Zenon
<1> HIDE DEF s
<1>7. InsertAt(s \o p.args, Len(s) + 1, a[k + 1]) = (s \o << a[k + 1] >>) \o p.args
  BY <1>1, <1>3, <1>4, Inserted
<1> QED
  BY <1>3, <1>6, <1>7 DEF a, s

LEMMA AfterIs ==
    ASSUME NEW p, NEW id, NEW k, Len(Added(p, id)) \in Nat
    PROVE  /\ k \in 0 .. Len(Added(p, id)) =>
                 AfterEdits(p, id, k) = [program |-> p.program,
                                         args |-> SubSeq(Added(p, id), 1, k) \o p.args,
                                         needsRoot |-> p.needsRoot]
           /\ k = Len(Added(p, id)) + 1 =>
                 AfterEdits(p, id, k) =
                    [program |-> IF p.program # "" THEN markPath ELSE p.program,
                     args |-> SubSeq(Added(p, id), 1, Len(Added(p, id))) \o p.args,
                     needsRoot |-> p.needsRoot]
<1> DEFINE m == Len(Added(p, id))
<1>1. m \in Nat /\ k \in 0 .. m => ~(k > m) /\ k # m + 1
  <2> HIDE DEF m
  <2> QED
    OBVIOUS
<1>2. m \in Nat /\ k = m + 1 => k > m
  <2> HIDE DEF m
  <2> QED
    OBVIOUS
<1>3. AfterEdits(p, id, k) =
         [program |-> IF p.program # "" /\ k = m + 1 THEN markPath ELSE p.program,
          args |-> SubSeq(Added(p, id), 1, IF k > m THEN m ELSE k) \o p.args,
          needsRoot |-> p.needsRoot]
  BY DEF AfterEdits
<1> HIDE DEF m
<1>4. m \in Nat /\ k \in 0 .. m =>
         AfterEdits(p, id, k) = [program |-> p.program,
                                 args |-> SubSeq(Added(p, id), 1, k) \o p.args,
                                 needsRoot |-> p.needsRoot]
  BY <1>1, <1>3, Zenon
<1>5. m \in Nat /\ k = m + 1 =>
         AfterEdits(p, id, k) = [program |-> IF p.program # "" THEN markPath ELSE p.program,
                                 args |-> SubSeq(Added(p, id), 1, m) \o p.args,
                                 needsRoot |-> p.needsRoot]
  BY <1>2, <1>3, Zenon
<1> QED
  BY <1>4, <1>5 DEF m

LEMMA OneEdit ==
    ASSUME NEW p \in PlistForms, NEW id \in Word, NEW k \in 0 .. Len(insertWrapper(p, id)) - 1
    PROVE  Edited(AfterEdits(p, id, k), insertWrapper(p, id)[k + 1]) = AfterEdits(p, id, k + 1)
<1> DEFINE a == Added(p, id)
           m == Len(Added(p, id))
           e == insertWrapper(p, id)[k + 1]
           here == AfterEdits(p, id, k)
<1>1. m \in Nat
  <2>1. m \in {2, 3}
    BY AddedIs, Zenon
  <2> HIDE DEF m
  <2> QED
    BY <2>1
<1>2. /\ p.program = "" => Len(insertWrapper(p, id)) = m
      /\ p.program # "" => /\ Len(insertWrapper(p, id)) = m + 1
                           /\ insertWrapper(p, id)[m + 1] = ProgramEdit
      /\ \A n \in 1 .. m : insertWrapper(p, id)[n] = ArgsEdit(n, a[n])
  BY EditsAre
<1>3. k \in 0 .. m - 1 \/ (p.program # "" /\ k = m)
  <2> DEFINE n == Len(insertWrapper(p, id))
  <2>1. n = m \/ (p.program # "" /\ n = m + 1)
    BY <1>2
  <2> HIDE DEF m, n
  <2>2. k \in 0 .. n - 1
    BY DEF n
  <2>3. ASSUME n = m PROVE k \in 0 .. m - 1
    BY <2>2, <2>3
  <2>4. ASSUME n = m + 1 PROVE k \in 0 .. m - 1 \/ k = m
    BY <1>1, <2>2, <2>4
  <2> QED
    BY <2>1, <2>3, <2>4
<1>4. CASE k \in 0 .. m - 1
  <2>1. k \in 0 .. m /\ k + 1 \in 0 .. m /\ k + 1 \in 1 .. m
    <3> HIDE DEF m
    <3> QED
      BY <1>1, <1>4
  <2>2. e = ArgsEdit(k + 1, a[k + 1])
    BY <1>2, <2>1
  <2>3. here = [program |-> p.program, args |-> SubSeq(a, 1, k) \o p.args, needsRoot |-> p.needsRoot]
    BY <1>1, <2>1, AfterIs
  <2>4. AfterEdits(p, id, k + 1) = [program |-> p.program, args |-> SubSeq(a, 1, k + 1) \o p.args,
                                    needsRoot |-> p.needsRoot]
    BY <1>1, <2>1, AfterIs
  <2>5. InsertAt(SubSeq(a, 1, k) \o p.args, k + 1, a[k + 1]) = SubSeq(a, 1, k + 1) \o p.args
    BY <1>4, AddedOneByOne
  <2>6. e.key # "program" /\ e.at = k + 1 /\ e.word = a[k + 1]
    BY <2>2 DEF ArgsEdit
  <2>7. Edited(here, e) = [here EXCEPT !.args = InsertAt(here.args, k + 1, a[k + 1])]
    BY <2>6 DEF Edited
  <2> HIDE DEF a, m, e, here
  <2>8. here.args = SubSeq(a, 1, k) \o p.args
    BY <2>3
  <2>9. Edited(here, e) = [here EXCEPT !.args = SubSeq(a, 1, k + 1) \o p.args]
    BY <2>5, <2>7, <2>8
  <2> QED
    <3>1. Edited(here, e) = AfterEdits(p, id, k + 1)
      BY <2>3, <2>4, <2>9
    <3> QED
      BY <3>1 DEF e, here
<1>5. CASE p.program # "" /\ k = m
  <2>1. k \in 0 .. m /\ k + 1 = m + 1
    <3> HIDE DEF m
    <3>1. k = m
      BY <1>5
    <3> QED
      BY <1>1, <3>1
  <2>2. e = ProgramEdit
    BY <1>2, <1>5, <2>1
  <2>3. here = [program |-> p.program, args |-> SubSeq(a, 1, m) \o p.args, needsRoot |-> p.needsRoot]
    BY <1>1, <1>5, <2>1, AfterIs
  <2>4. AfterEdits(p, id, k + 1) = [program |-> markPath, args |-> SubSeq(a, 1, m) \o p.args,
                                    needsRoot |-> p.needsRoot]
    BY <1>1, <1>5, <2>1, AfterIs
  <2>5. Edited(here, e) = [here EXCEPT !.program = markPath]
    BY <2>2 DEF Edited, ProgramEdit
  <2> HIDE DEF a, m, e, here
  <2>6. Edited(here, e) = AfterEdits(p, id, k + 1)
    BY <2>3, <2>4, <2>5
  <2> QED
    BY <2>6 DEF e, here
<1> QED
  BY <1>3, <1>4, <1>5

LEMMA NoEdits ==
    ASSUME NEW p \in PlistForms, NEW id \in Word
    PROVE  AfterEdits(p, id, 0) = p
<1>1. Added(p, id) \in Seq(Word) /\ p.args \in Seq(Word)
  BY AddedIs, PlistIs
<1>2. SubSeq(Added(p, id), 1, 0) \o p.args = p.args
  <2>1. SubSeq(Added(p, id), 1, 0) = << >>
    BY SubSeqEmpty
  <2> QED
    BY <1>1, <2>1
<1>3. 0 \in 0 .. Len(Added(p, id)) /\ Len(Added(p, id)) \in Nat
  BY <1>1
<1>4. AfterEdits(p, id, 0) = [program |-> p.program, args |-> SubSeq(Added(p, id), 1, 0) \o p.args,
                              needsRoot |-> p.needsRoot]
  BY <1>3, AfterIs
<1>5. p = [program |-> p.program, args |-> p.args, needsRoot |-> p.needsRoot]
  BY PlistIs
<1> QED
  BY <1>2, <1>4, <1>5, Zenon

LEMMA AddedAll ==
    ASSUME NEW p \in PlistForms, NEW id \in Word
    PROVE  /\ Added(p, id) \o p.args = << markPath, id >> \o commandOf(p)
           /\ commandOf(p) \in Seq(Word) /\ commandOf(p) # << >>
<1>1. p.program \in Word /\ p.args \in Seq(Word) /\ markPath \in Word
  BY PlistIs, WordsAre
<1>2. CASE p.args = None
  <2>1. Added(p, id) = << markPath, id, p.program >> /\ commandOf(p) = << p.program >>
        /\ p.args = << >>
    BY <1>2 DEF Added, commandOf, None
  <2>2. << markPath, id, p.program >> \o << >> = << markPath, id, p.program >>
    BY <1>1
  <2>3. << markPath, id >> \o << p.program >> = << markPath, id, p.program >>
    <3> DEFINE s == << markPath, id >>
               t == << p.program >>
               u == << markPath, id, p.program >>
    <3>1. /\ s \in Seq(Word) /\ Len(s) = 2 /\ s[1] = markPath /\ s[2] = id
          /\ t \in Seq(Word) /\ Len(t) = 1 /\ t[1] = p.program
          /\ u \in Seq(Word) /\ Len(u) = 3 /\ u[1] = markPath /\ u[2] = id /\ u[3] = p.program
      BY <1>1, Tuples
    <3> HIDE DEF s, t, u
    <3>2. /\ s \o t \in Seq(Word) /\ Len(s \o t) = 3
          /\ \A i \in 1 .. 2 : (s \o t)[i] = s[i]
          /\ \A i \in 1 .. 1 : (s \o t)[2 + i] = t[i]
      <4>1. /\ s \o t \in Seq(Word) /\ Len(s \o t) = Len(s) + Len(t)
            /\ \A i \in 1 .. Len(s) : (s \o t)[i] = s[i]
            /\ \A i \in 1 .. Len(t) : (s \o t)[Len(s) + i] = t[i]
        <5>1. s \in Seq(Word) /\ t \in Seq(Word)
          BY <3>1
        <5> QED
          BY <5>1, Concatenated
      <4> QED
        BY <3>1, <4>1
    <3>3. (s \o t)[1] = s[1] /\ (s \o t)[2] = s[2] /\ (s \o t)[3] = t[1]
      BY <3>2
    <3>4. \A i \in 1 .. 3 : i = 1 \/ i = 2 \/ i = 3
      OBVIOUS
    <3>5. \A i \in 1 .. Len(s \o t) : (s \o t)[i] = u[i]
      BY <3>1, <3>2, <3>3, <3>4
    <3>6. s \o t = u
      BY <3>1, <3>2, <3>5, SeqEqual
    <3> QED
      BY <3>6 DEF s, t, u
  <2>4. << p.program >> \in Seq(Word) /\ << p.program >> # << >>
    BY <1>1, Tuples
  <2> QED
    BY <2>1, <2>2, <2>3, <2>4
<1>3. CASE p.args # None
  BY <1>1, <1>3 DEF Added, commandOf, None
<1> QED
  BY <1>2, <1>3

LEMMA AllEdits ==
    ASSUME NEW p \in PlistForms, NEW id \in Word
    PROVE  AfterEdits(p, id, Len(insertWrapper(p, id))) = InWrapper(p, id)
<1> DEFINE a == Added(p, id)
           m == Len(Added(p, id))
<1>1. a \in Seq(Word) /\ m \in Nat
  <2>1. a \in Seq(Word)
    BY AddedIs
  <2> QED
    BY <2>1
<1>2. SubSeq(a, 1, m) = a
  BY <1>1, SubSeqFull
<1>3. a \o p.args = << markPath, id >> \o commandOf(p)
  BY AddedAll
<1>4. InWrapper(p, id) = [program |-> IF p.program = "" THEN "" ELSE markPath,
                          args |-> SubSeq(a, 1, m) \o p.args, needsRoot |-> p.needsRoot]
  BY <1>2, <1>3 DEF InWrapper
<1>5. CASE p.program = ""
  <2>1. Len(insertWrapper(p, id)) = m
    BY <1>5, EditsAre
  <2>2. m \in 0 .. m
    <3> HIDE DEF m
    <3> QED
      BY <1>1
  <2> QED
    <3>1. AfterEdits(p, id, m) = [program |-> p.program, args |-> SubSeq(a, 1, m) \o p.args,
                                  needsRoot |-> p.needsRoot]
      BY <1>1, <2>2, AfterIs
    <3>2. (IF p.program = "" THEN "" ELSE markPath) = p.program
      BY <1>5
    <3> QED
      BY <1>4, <2>1, <3>1, <3>2, Zenon
<1>6. CASE p.program # ""
  <2>1. Len(insertWrapper(p, id)) = m + 1
    BY <1>6, EditsAre
  <2> QED
    BY <1>1, <1>4, <1>6, <2>1, AfterIs, Zenon
<1> QED
  BY <1>5, <1>6

-----------------------------------------------------------------------------
(* What launchd runs. *)

LEMMA HeadAndTail ==
    ASSUME NEW W, NEW s \in Seq(W), s # << >>
    PROVE  /\ Len(s) \in Nat /\ Len(s) >= 1 /\ 1 \in DOMAIN s /\ s[1] \in W
           /\ << s[1] >> \o Tail(s) = s
<1>1. Len(s) \in Nat /\ Len(s) >= 1 /\ 1 \in DOMAIN s /\ s[1] \in W
  OBVIOUS
<1>2. /\ Tail(s) \in Seq(W) /\ Len(Tail(s)) = Len(s) - 1
      /\ \A i \in 1 .. Len(Tail(s)) : Tail(s)[i] = s[i + 1]
  BY HeadTailProperties
<1>3. << s[1] >> \in Seq(W) /\ Len(<< s[1] >>) = 1 /\ << s[1] >>[1] = s[1]
  BY <1>1
<1> DEFINE t == Tail(s)
           h == << s[1] >>
<1> HIDE DEF t, h
<1>4. h \in Seq(W) /\ t \in Seq(W)
  BY <1>2, <1>3 DEF h, t
<1>5. /\ h \o t \in Seq(W) /\ Len(h \o t) = Len(h) + Len(t)
      /\ \A i \in 1 .. Len(h) : (h \o t)[i] = h[i]
      /\ \A i \in 1 .. Len(t) : (h \o t)[Len(h) + i] = t[i]
  BY <1>4, Concatenated
<1>6. Len(h) = 1 /\ h[1] = s[1] /\ Len(t) = Len(s) - 1 /\ \A i \in 1 .. Len(t) : t[i] = s[i + 1]
  BY <1>2, <1>3 DEF h, t
<1>7. Len(h \o t) = Len(s)
  BY <1>1, <1>5, <1>6
<1>8. ASSUME NEW i \in 1 .. Len(s) PROVE (h \o t)[i] = s[i]
  <2>1. CASE i = 1
    BY <1>5, <1>6, <2>1
  <2>2. CASE i # 1
    <3>1. i - 1 \in 1 .. Len(t) /\ Len(h) + (i - 1) = i /\ (i - 1) + 1 = i
      BY <1>1, <1>6, <2>2
    <3>2. (h \o t)[Len(h) + (i - 1)] = t[i - 1] /\ t[i - 1] = s[(i - 1) + 1]
      BY <1>5, <1>6, <3>1
    <3> QED
      BY <3>1, <3>2
  <2> QED
    BY <2>1, <2>2
<1>9. h \o t = s
  BY <1>5, <1>7, <1>8, SeqEqual
<1> QED
  BY <1>1, <1>9 DEF h, t

LEMMA RunsInWrapper ==
    ASSUME NEW p \in PlistForms, NEW id \in Word
    PROVE  /\ Runs(InWrapper(p, id)).command = commandOf(p)
           /\ Runs(InWrapper(p, id)).wrapper = id
           /\ Runs(InWrapper(p, id)) = [wrapper |-> id, command |-> commandOf(p)]
<1> DEFINE w == InWrapper(p, id)
           h == << markPath, id >>
           c == commandOf(p)
<1>1. c \in Seq(Word) /\ c # << >> /\ h \in Seq(Word) /\ Len(h) = 2 /\ h[1] = markPath /\ h[2] = id
  BY AddedAll, WordsAre, Tuples
<1>2. w.args = h \o c /\ w.program = IF p.program = "" THEN "" ELSE markPath
  BY DEF InWrapper
<1> HIDE DEF w, h, c
<1>3. c \in Seq(Word) /\ h \in Seq(Word) /\ Len(c) \in Nat
  BY <1>1
<1>4. /\ w.args \in Seq(Word) /\ Len(w.args) = Len(h) + Len(c)
      /\ \A i \in 1 .. Len(h) : w.args[i] = h[i]
      /\ \A i \in 1 .. Len(c) : w.args[Len(h) + i] = c[i]
  <2>1. /\ h \o c \in Seq(Word) /\ Len(h \o c) = Len(h) + Len(c)
        /\ \A i \in 1 .. Len(h) : (h \o c)[i] = h[i]
        /\ \A i \in 1 .. Len(c) : (h \o c)[Len(h) + i] = c[i]
    BY <1>3, Concatenated
  <2>2. w.args = h \o c
    BY <1>2
  <2> QED
    BY <2>1, <2>2
<1>5. /\ Len(w.args) = 2 + Len(c) /\ w.args[1] = markPath /\ w.args[2] = id
      /\ \A i \in 1 .. Len(c) : w.args[2 + i] = c[i]
  BY <1>1, <1>3, <1>4
<1>6. SubSeq(w.args, 3, Len(w.args)) = c
  <2>1. SubSeq(w.args, 3, Len(w.args)) \in Seq(Word)
    BY <1>4
  <2>2. Len(SubSeq(w.args, 3, Len(w.args))) = Len(c)
    BY <1>3, <1>5, <1>4
  <2>3. \A i \in 1 .. Len(c) : SubSeq(w.args, 3, Len(w.args))[i] = w.args[2 + i]
    BY <1>3, <1>5, <1>4
  <2> QED
    BY <1>3, <1>5, <2>1, <2>2, <2>3, SeqEqual
<1>7. Len(w.args) > 1
  BY <1>3, <1>5
<1>8. (IF w.program # "" THEN w.program ELSE w.args[1]) = markPath
  BY <1>2, <1>5
<1>9. Runs(w) = [wrapper |-> IF Len(w.args) > 1 THEN w.args[2] ELSE "",
                 command |-> SubSeq(w.args, 3, Len(w.args))]
  BY <1>8 DEF Runs
<1>10. Runs(w) = [wrapper |-> id, command |-> c]
  BY <1>5, <1>6, <1>7, <1>9
<1> QED
  BY <1>10 DEF w, c

-----------------------------------------------------------------------------
(* Every step, and the plist. *)

LEMMA Here ==
    ASSUME InPlace
    PROVE  /\ at.i \in Jobs /\ Candidate.id \in Word /\ Candidate = Candidates[at.i]
           /\ original \in PlistForms /\ at.pc \in Pcs
           /\ Candidate.source = "launchd" <=> at.i \in LaunchdJobs
           /\ at.pc \in PlistPcs => LaunchdJobs = {at.i} /\ report[at.i] = "none"
<1>1. at.i \in Jobs /\ original \in PlistForms /\ at.pc \in Pcs /\ at.i \in Int
  BY CandidatesAre DEF InPlace, ImportTypeOK, Pcs
<1>2. Candidate = Candidates[at.i] /\ Candidate.id \in Word
  BY <1>1, CandidatesAre DEF Candidate
<1>3. Candidate.source = "launchd" <=> at.i \in LaunchdJobs
  BY <1>1, <1>2 DEF LaunchdJobs
<1>4. ASSUME at.pc \in PlistPcs PROVE LaunchdJobs = {at.i} /\ report[at.i] = "none"
  <2>1. at.i \in LaunchdJobs
    BY <1>3, <1>4 DEF InPlace, PlaceInv
  <2>2. LaunchdJobs = {at.i}
    BY <2>1, CandidatesAre
  <2>3. at.pc # "done" /\ at.i >= at.i
    <3>1. at.pc # "done"
      BY <1>4 DEF PlistPcs
    <3>2. at.i >= at.i
      BY <1>1
    <3> QED
      BY <3>1, <3>2
  <2> QED
    BY <1>1, <2>2, <2>3 DEF InPlace, PlaceInv
<1> QED
  BY <1>1, <1>2, <1>3, <1>4

LEMMA SafeMeanwhile ==
    ASSUME InPlace, PlistInv, at.pc \in PlistPcs
    PROVE  PlistSafe(Candidate.id)
<1>1. PlistSteps
  BY DEF PlistInv
<1> DEFINE w == InWrapper(original, Candidate.id)
<1>2. CASE at.pc \in {"check", "copy"}
  BY <1>1, <1>2 DEF PlistSteps, Pristine, PlistSafe
<1>3. CASE at.pc \in {"edit", "install plist", "lint", "bootout", "undo"}
  <2>1. loaded = {original} /\ plistBackup = {original}
    BY <1>1, <1>3 DEF PlistSteps, PlistPcs
  <2> QED
    BY <2>1 DEF PlistSafe
<1>4. CASE at.pc \in {"bootstrap", "bootstrap again"}
  <2>1. loaded = {} /\ plistBackup = {original}
    BY <1>1, <1>4 DEF PlistSteps, PlistPcs
  <2> QED
    BY <2>1 DEF PlistSafe
<1>5. CASE at.pc \in {"read back", "undo and reload", "bootout again"}
  <2>1. loaded \subseteq {w} /\ plistBackup = {original} /\ ~AlreadyWrapped(original)
    <3> HIDE DEF w
    <3>1. PlistSteps = PlistSteps
      OBVIOUS
    <3> QED
      BY <1>1, <1>5 DEF PlistSteps, PlistPcs, w
  <2> QED
    BY <2>1 DEF PlistSafe
<1> QED
  BY <1>2, <1>3, <1>4, <1>5 DEF PlistPcs

\* The crontab's steps, and those between the jobs.
LEMMA PlistAsideReported ==
    ASSUME InPlace, PlistInv, UNCHANGED << plistVars, original, unreported >>,
           at.pc \notin PlistPcs, at.pc # "done", NEW result \in Results, Reported(result),
           result \in {"skipped", "not registered", "registered"} \/ at.i \notin LaunchdJobs
    PROVE  PlistInv'
<1>1. /\ at'.pc \notin PlistPcs /\ report'[at.i] = result /\ report[at.i] = "none"
      /\ \A j \in Jobs : j # at.i => report'[j] = report[j]
  BY ReportedMoves DEF InPlace
<1>2. UNCHANGED << plist, loaded, plistBackup, original, unreported >>
  BY DEF plistVars
<1>3. Pristine' <=> Pristine
  BY <1>2 DEF Pristine
<1>4. ASSUME NEW i \in LaunchdJobs PROVE PlistReported(i)'
  <2>1. i \in Jobs /\ PlistReported(i)
    BY DEF LaunchdJobs, PlistInv
  <2>2. CASE i = at.i
    <3>1. Pristine
      BY <1>1, <2>1, <2>2 DEF PlistReported
    <3>2. result \in {"skipped", "not registered", "registered"} /\ report'[i] = result
      BY <1>1, <2>2
    <3> QED
      BY <1>3, <3>1, <3>2 DEF PlistReported, Bad
  <2>3. CASE i # at.i
    <3>1. report'[i] = report[i]
      BY <1>1, <2>1, <2>3
    <3>2. PlistSafe(Candidates[i].id)' <=> PlistSafe(Candidates[i].id)
      BY <1>2 DEF PlistSafe
    <3>3. unreported' <=> unreported
      OBVIOUS
    <3> QED
      BY <1>1, <1>2, <1>3, <2>1, <3>1, <3>2, <3>3 DEF PlistReported
  <2> QED
    BY <2>2, <2>3
<1> QED
  BY <1>1, <1>3, <1>4 DEF PlistInv

LEMMA PlistAsideSame ==
    ASSUME PlistInv, UNCHANGED << plistVars, original, unreported, report >>,
           at.pc \notin PlistPcs, at'.pc \notin PlistPcs
    PROVE  PlistInv'
<1>1. UNCHANGED << plist, loaded, plistBackup, original, unreported >>
  BY DEF plistVars
<1>2. Pristine' <=> Pristine
  BY <1>1 DEF Pristine
<1>3. ASSUME NEW i \in LaunchdJobs PROVE PlistReported(i)'
  <2>1. PlistReported(i)
    BY DEF PlistInv
  <2>2. PlistSafe(Candidates[i].id)' <=> PlistSafe(Candidates[i].id)
    BY <1>1 DEF PlistSafe
  <2>3. unreported' <=> unreported
    BY <1>1
  <2> QED
    BY <1>1, <1>2, <2>1, <2>2, <2>3 DEF PlistReported
<1> QED
  BY <1>2, <1>3 DEF PlistInv

\* The plist's steps.
LEMMA PlistEnds ==
    ASSUME InPlace, PlistInv, at.pc \in PlistPcs, UNCHANGED original,
           NEW result \in {"untouched", "put back", "applied"}, Reported(result),
           result = "untouched" => Pristine',
           NEW id, id = Candidate.id,
           result = "put back" => PlistSafe(id)' /\ (~unreported' => Pristine'),
           result = "applied" =>
              \/ Pristine' /\ AlreadyWrapped(original)
              \/ /\ plist' = InWrapper(original, Candidate.id)
                 /\ loaded' = {InWrapper(original, Candidate.id)}
                 /\ plistBackup' = {original} /\ ~AlreadyWrapped(original)
    PROVE  PlistInv'
<1>1. LaunchdJobs = {at.i} /\ Candidate = Candidates[at.i]
  BY Here
<1>2. at'.pc \notin PlistPcs /\ report'[at.i] = result
  <2>1. result \in Results /\ at.pc # "done"
    BY PcsApart
  <2> QED
    BY <2>1, ReportedMoves DEF InPlace
<1>3. ASSUME NEW i \in LaunchdJobs PROVE PlistReported(i)'
  <2>1. i = at.i /\ report'[i] = result
    BY <1>1, <1>2
  <2>2. Candidates[i].id = Candidate.id
    BY <1>1, <2>1
  <2> QED
    BY <2>1, <2>2 DEF PlistReported, PlistSafe, Bad
<1>4. LaunchdJobs # {}
  BY <1>1
<1> QED
  BY <1>2, <1>3, <1>4 DEF PlistInv

LEMMA PlistGoes ==
    ASSUME InPlace, PlistInv, at.pc \in PlistPcs, UNCHANGED original,
           NEW pc \in PlistPcs, Goto(pc), PlistSteps'
    PROVE  PlistInv'
<1>1. LaunchdJobs = {at.i} /\ report[at.i] = "none"
  BY Here
<1>2. at'.pc = pc /\ report' = report
  BY GotoMoves, PcsApart DEF InPlace
<1>3. ASSUME NEW i \in LaunchdJobs PROVE PlistReported(i)'
  <2>1. at'.pc \in PlistPcs /\ report'[i] = "none"
    BY <1>1, <1>2
  <2> QED
    BY <2>1 DEF PlistReported, Bad
<1>4. LaunchdJobs # {}
  BY <1>1
<1> QED
  BY <1>2, <1>3, <1>4 DEF PlistInv

LEMMA RegisterPlist == ASSUME InPlace, PlistInv, RegisterCandidate PROVE PlistInv'
<1>1. UNCHANGED << plistVars, original, unreported >> /\ at.pc = "choose"
  BY DEF RegisterCandidate, historyVars
<1>2. at.pc \notin PlistPcs /\ at.pc # "done"
  BY <1>1, PcsApart
<1>3. PICK choice \in chooseAction :
         \/ Reported("skipped") \/ Reported("not registered") \/ Reported("registered")
         \/ /\ choice = "mark"
            /\ IF Candidate.source = "crontab" THEN Goto("read") ELSE Goto("check")
  BY DEF RegisterCandidate
<1>4. CASE Reported("skipped") \/ Reported("not registered") \/ Reported("registered")
  BY <1>1, <1>2, <1>4, PlistAsideReported, PcsApart
<1>5. CASE choice = "mark" /\ Candidate.source = "crontab" /\ Goto("read")
  <2>1. "read" \in Pcs /\ "read" \notin PlistPcs
    BY DEF Pcs, CrontabPcs, PlistPcs
  <2>2. at'.pc = "read" /\ report' = report
    BY <1>5, <2>1, GotoMoves DEF InPlace
  <2> QED
    BY <1>1, <1>2, <2>1, <2>2, PlistAsideSame
<1>6. CASE choice = "mark" /\ Candidate.source # "crontab" /\ Goto("check")
  <2>1. "check" \in Pcs /\ "check" \in PlistPcs
    BY DEF Pcs, PlistPcs
  <2>2. at'.pc = "check" /\ at'.i = at.i /\ report' = report
    BY <1>6, <2>1, GotoMoves DEF InPlace
  <2>3. UNCHANGED << plist, loaded, plistBackup, original, unreported >>
    BY <1>1 DEF plistVars
  <2>4. at.i \in LaunchdJobs /\ report[at.i] = "none"
    <3>1. Candidate.wrappable
      BY <1>3, <1>6 DEF chooseAction
    <3>2. at.i \in Jobs /\ Candidate = Candidates[at.i]
      BY Here
    <3>3. at.i \in LaunchdJobs
      BY <1>6, <3>1, <3>2, CandidatesAre DEF LaunchdJobs
    <3>4. at.i \in Int
      BY <3>2, CandidatesAre
    <3>5. at.i >= at.i
      BY <3>4
    <3> QED
      BY <1>2, <3>2, <3>3, <3>5 DEF InPlace, PlaceInv
  <2>5. Pristine
    BY <1>2, <2>4 DEF PlistInv, PlistReported
  <2>6. Pristine'
    BY <2>3, <2>5 DEF Pristine
  <2>7. PlistSteps'
    BY <2>2, <2>6 DEF PlistSteps
  <2>8. ASSUME NEW i \in LaunchdJobs PROVE PlistReported(i)'
    <3>1. i = at.i
      BY <2>4, CandidatesAre
    <3> QED
      BY <2>1, <2>2, <2>4, <3>1 DEF PlistReported, Bad
  <2>9. LaunchdJobs # {}
    BY <2>4
  <2> QED
    BY <2>7, <2>8, <2>9 DEF PlistInv
<1> QED
  BY <1>3, <1>4, <1>5, <1>6

\* A job of the crontab's is no job of launchd's.
LEMMA CrontabPlist ==
    ASSUME InPlace, PlistInv, at.pc \in CrontabPcs, UNCHANGED << plistVars, original, unreported >>,
           \/ \E pc \in CrontabPcs : Goto(pc)
           \/ \E result \in Results : Reported(result)
    PROVE  PlistInv'
<1>1. at.pc \notin PlistPcs /\ at.pc # "done"
  BY PcsApart
<1>2. at.i \notin LaunchdJobs
  <2>1. Candidate.source = "crontab"
    BY DEF InPlace, PlaceInv
  <2> QED
    BY <2>1, Here
<1>3. CASE \E result \in Results : Reported(result)
  BY <1>1, <1>2, <1>3, PlistAsideReported
<1>4. ASSUME NEW pc \in CrontabPcs, Goto(pc) PROVE PlistInv'
  <2>1. at'.pc = pc /\ report' = report /\ pc \notin PlistPcs
    BY <1>4, PcsApart, GotoMoves DEF InPlace
  <2> QED
    BY <1>1, <2>1, PlistAsideSame
<1> QED
  BY <1>3, <1>4

LEMMA CheckPlistKeeps == ASSUME InPlace, PlistInv, CheckPlist PROVE InPlace' /\ PlistInv'
<1>1. /\ UNCHANGED << crontab, copy, plain, plainCopy, original, unreported, plist, loaded,
                      plistBackup >>
      /\ at.pc = "check" /\ unreported' \in BOOLEAN
  BY DEF CheckPlist, crontabVars, plistVars, historyVars, InPlace, ImportTypeOK
<1>2. /\ at.pc \in PlistPcs /\ at.pc \notin {"done", "verify", "restore"}
      /\ "copy" \in PlistPcs /\ "copy" \notin CrontabPcs
      /\ "copy" \notin {"backup", "install", "verify", "restore"} /\ "copy" \in Pcs
  BY <1>1 DEF PlistPcs, CrontabPcs, Pcs
<1>3. Pristine /\ plist = original
  BY <1>1, <1>2 DEF PlistInv, PlistSteps, Pristine
<1>4. Pristine'
  BY <1>1, <1>3 DEF Pristine
<1>5. CASE AlreadyWrapped(plist) /\ Reported("applied")
  <2>1. AlreadyWrapped(original) /\ "applied" \notin Bad
    BY <1>3, <1>5 DEF Bad
  <2> QED
    BY <1>1, <1>2, <1>4, <1>5, <2>1, PlistEnds, AsideReported, PcsApart
<1>6. CASE ~AlreadyWrapped(plist) /\ Goto("copy")
  <2>1. at'.pc = "copy"
    BY <1>2, <1>6, GotoMoves DEF InPlace
  <2>2. PlistSteps'
    BY <1>1, <1>3, <1>4, <1>6, <2>1 DEF PlistSteps
  <2>3. Candidate.source = "launchd"
    BY <1>2 DEF InPlace, PlaceInv
  <2> QED
    BY <1>1, <1>2, <1>6, <2>2, <2>3, PlistGoes, AsideGoto
<1>7. CASE Reported("untouched")
  <2>1. "untouched" \notin Bad
    BY DEF Bad
  <2> QED
    BY <1>1, <1>2, <1>4, <1>7, <2>1, PlistEnds, AsideReported, PcsApart
<1> QED
  BY <1>5, <1>6, <1>7 DEF CheckPlist

LEMMA PlistMoves ==
    ASSUME InPlace, PlistInv, at.pc \in PlistPcs,
           UNCHANGED << crontabVars, plain, plainCopy, original >>, unreported' \in BOOLEAN,
           NEW pc \in PlistPcs, Goto(pc), PlistSteps'
    PROVE  InPlace' /\ PlistInv'
<1>1. UNCHANGED << crontab, copy, plain, plainCopy, original >>
  BY DEF crontabVars
<1>2. /\ at.pc \notin {"done", "verify", "restore"} /\ pc \in Pcs
      /\ pc \notin CrontabPcs /\ pc \notin {"backup", "install", "verify", "restore"}
  BY DEF PlistPcs, CrontabPcs, Pcs
<1>3. Candidate.source = "launchd"
  BY DEF InPlace, PlaceInv
<1> QED
  BY <1>1, <1>2, <1>3, PlistGoes, AsideGoto

LEMMA PlistStops ==
    ASSUME InPlace, PlistInv, at.pc \in PlistPcs,
           UNCHANGED << crontabVars, plain, plainCopy, original >>, unreported' \in BOOLEAN,
           NEW result \in {"untouched", "put back", "applied"}, Reported(result),
           result = "untouched" => Pristine',
           NEW id, id = Candidate.id,
           result = "put back" => PlistSafe(id)' /\ (~unreported' => Pristine'),
           result = "applied" =>
              \/ Pristine' /\ AlreadyWrapped(original)
              \/ /\ plist' = InWrapper(original, Candidate.id)
                 /\ loaded' = {InWrapper(original, Candidate.id)}
                 /\ plistBackup' = {original} /\ ~AlreadyWrapped(original)
    PROVE  InPlace' /\ PlistInv'
<1>1. UNCHANGED << crontab, copy, plain, plainCopy, original >>
  BY DEF crontabVars
<1>2. at.pc \notin {"done", "verify", "restore"} /\ result \in Results
  BY DEF PlistPcs, Results
<1>3. InPlace'
  BY <1>1, <1>2, AsideReported
<1>4. PlistInv'
  BY <1>1, PlistEnds
<1> QED
  BY <1>3, <1>4

\* Where a step of the plist's goes, for the candidate it is at.
LEMMA Going ==
    ASSUME InPlace, NEW pc \in PlistPcs, Goto(pc)
    PROVE  at'.pc = pc /\ at'.i = at.i /\ Candidate' = Candidate
<1>1. at'.pc = pc /\ at'.i = at.i
  BY GotoMoves, PcsApart DEF InPlace
<1> QED
  BY <1>1 DEF Candidate

LEMMA BackUpPlistKeeps == ASSUME InPlace, PlistInv, BackUpPlist PROVE InPlace' /\ PlistInv'
<1>1. /\ UNCHANGED << crontabVars, plain, plainCopy, original, unreported, plist, loaded >> /\ at.pc = "copy"
      /\ at.pc \in PlistPcs /\ "edit" \in PlistPcs
      /\ unreported' \in BOOLEAN
  BY DEF BackUpPlist, historyVars, PlistPcs, InPlace, ImportTypeOK
<1>2. Pristine /\ plist = original /\ loaded = {original} /\ ~AlreadyWrapped(original)
  BY <1>1 DEF PlistInv, PlistSteps, Pristine
<1>3. Pristine'
  BY <1>1, <1>2 DEF Pristine
<1>4. CASE Reported("untouched")
  <2>1. "untouched" \notin Bad
    BY DEF Bad
  <2> QED
    BY <1>1, <1>3, <1>4, <2>1, PlistStops
<1>5. CASE /\ plistBackup' = {plist} /\ toDo' = insertWrapper(plist, Candidate.id)
           /\ draft' = (IF plist.needsRoot THEN plist ELSE None) /\ Goto("edit")
  <2>1. at'.pc = "edit" /\ Candidate' = Candidate
    BY <1>1, <1>5, Going
  <2> DEFINE es == insertWrapper(original, Candidate.id)
             n == Len(es)
  <2>2. es \in Seq(Edits) /\ n \in Nat /\ n >= 1 /\ original \in PlistForms
        /\ Candidate.id \in Word
    <3>1. original \in PlistForms /\ Candidate.id \in Word
      BY Here
    <3>2. es \in Seq(Edits) /\ (n = Len(Added(original, Candidate.id))
                                \/ n = Len(Added(original, Candidate.id)) + 1)
      BY <3>1, EditsAre
    <3>3. Len(Added(original, Candidate.id)) \in {2, 3}
      BY <3>1, AddedIs, Zenon
    <3>4. n \in Nat /\ n >= 1
      <4> DEFINE m == Len(Added(original, Candidate.id))
      <4>1. m \in {2, 3} /\ (n = m \/ n = m + 1)
        BY <3>2, <3>3
      <4> HIDE DEF n, m
      <4> QED
        BY <4>1
    <3> QED
      BY <3>1, <3>2, <3>4
  <2>3. toDo' = SubSeq(es, 0 + 1, n)
    <3>1. SubSeq(es, 1, n) = es
      BY <2>2, SubSeqFull
    <3> QED
      BY <1>2, <1>5, <3>1
  <2>4. (IF plist'.needsRoot THEN draft' ELSE plist') = AfterEdits(original, Candidate.id, 0)
    <3>1. AfterEdits(original, Candidate.id, 0) = original
      BY <2>2, NoEdits
    <3> QED
      BY <1>1, <1>2, <1>5, <3>1
  <2>5. 0 \in 0 .. n - 1
    <3> HIDE DEF n
    <3> QED
      BY <2>2
  <2>6. \E k \in 0 .. n - 1 :
           /\ toDo' = SubSeq(es, k + 1, n)
           /\ (IF plist'.needsRoot THEN draft' ELSE plist') = AfterEdits(original, Candidate.id, k)
    BY <2>3, <2>4, <2>5
  <2>7. PlistSteps'
    BY <1>1, <1>2, <1>5, <2>1, <2>6 DEF PlistSteps
  <2> QED
    BY <1>1, <1>5, <2>7, PlistMoves
<1> QED
  BY <1>4, <1>5 DEF BackUpPlist

LEMMA LintKeeps == ASSUME InPlace, PlistInv, LintPlist PROVE InPlace' /\ PlistInv'
<1>1. /\ UNCHANGED << crontabVars, plain, plainCopy, original, unreported, plist, loaded, plistBackup >>
      /\ at.pc = "lint" /\ at.pc \in PlistPcs
      /\ unreported' \in BOOLEAN
  BY DEF LintPlist, historyVars, plistVars, PlistPcs, InPlace, ImportTypeOK
<1>2. PICK pc \in {"bootout", "undo"} : Goto(pc)
  BY DEF LintPlist
<1>3. pc \in PlistPcs
  BY <1>2 DEF PlistPcs
<1>4. at'.pc = pc /\ Candidate' = Candidate
  BY <1>2, <1>3, Going
<1>5. PlistSteps
  BY <1>1 DEF PlistInv
<1>6. /\ ~AlreadyWrapped(original) /\ plistBackup = {original} /\ loaded = {original}
      /\ plist = InWrapper(original, Candidate.id)
  BY <1>1, <1>5 DEF PlistSteps
<1>7. PlistSteps'
  BY <1>1, <1>2, <1>4, <1>6 DEF PlistSteps
<1> QED
  BY <1>1, <1>2, <1>3, <1>7, PlistMoves

LEMMA BootoutKeeps == ASSUME InPlace, PlistInv, Bootout PROVE InPlace' /\ PlistInv'
<1>1. /\ UNCHANGED << crontabVars, plain, plainCopy, original, unreported, plist, plistBackup >> /\ loaded' = {}
      /\ at.pc \in {"bootout", "bootout again"} /\ at.pc \in PlistPcs
      /\ unreported' \in BOOLEAN
  BY DEF Bootout, historyVars, PlistPcs, InPlace, ImportTypeOK
<1>2. PlistSteps
  BY <1>1 DEF PlistInv
<1>3. ~AlreadyWrapped(original) /\ plistBackup = {original}
  BY <1>1, <1>2 DEF PlistSteps
<1>4. CASE at.pc = "bootout" /\ Goto("bootstrap")
  <2>1. "bootstrap" \in PlistPcs
    BY DEF PlistPcs
  <2>2. at'.pc = "bootstrap" /\ Candidate' = Candidate
    BY <1>4, <2>1, Going
  <2>3. plist = InWrapper(original, Candidate.id)
    BY <1>2, <1>4 DEF PlistSteps
  <2>4. PlistSteps'
    BY <1>1, <1>3, <2>2, <2>3 DEF PlistSteps
  <2> QED
    BY <1>1, <1>4, <2>1, <2>4, PlistMoves
<1>5. CASE at.pc = "bootout again" /\ Goto("bootstrap again")
  <2>1. "bootstrap again" \in PlistPcs
    BY DEF PlistPcs
  <2>2. at'.pc = "bootstrap again" /\ Candidate' = Candidate
    BY <1>5, <2>1, Going
  <2>3. /\ plist \in {original, InWrapper(original, Candidate.id),
                        Emptied(InWrapper(original, Candidate.id))}
        /\ ~unreported => plist = original
    BY <1>2, <1>5 DEF PlistSteps
  <2>4. PlistSteps'
    BY <1>1, <1>3, <2>2, <2>3 DEF PlistSteps
  <2> QED
    BY <1>1, <1>5, <2>1, <2>4, PlistMoves
<1> QED
  BY <1>1, <1>4, <1>5 DEF Bootout

LEMMA BootstrapKeeps == ASSUME InPlace, PlistInv, Bootstrap PROVE InPlace' /\ PlistInv'
<1>1. /\ UNCHANGED << crontabVars, plain, plainCopy, original, unreported, plist, plistBackup >>
      /\ at.pc = "bootstrap" /\ at.pc \in PlistPcs
      /\ unreported' \in BOOLEAN
  BY DEF Bootstrap, historyVars, PlistPcs, InPlace, ImportTypeOK
<1>2. PlistSteps
  BY <1>1 DEF PlistInv
<1>3. /\ ~AlreadyWrapped(original) /\ plistBackup = {original} /\ loaded = {}
      /\ plist = InWrapper(original, Candidate.id)
  BY <1>1, <1>2 DEF PlistSteps
<1>4. PICK pc \in {"read back", "undo and reload"} :
         Goto(pc) /\ (pc = "read back" => loaded' = {plist}) /\ (pc # "read back" => loaded' = {})
  BY <1>3 DEF Bootstrap
<1>5. pc \in PlistPcs
  BY <1>4 DEF PlistPcs
<1>6. at'.pc = pc /\ Candidate' = Candidate
  BY <1>4, <1>5, Going
<1>7. PlistSteps'
  BY <1>1, <1>3, <1>4, <1>6 DEF PlistSteps
<1> QED
  BY <1>1, <1>4, <1>5, <1>7, PlistMoves

LEMMA ReadBackKeeps == ASSUME InPlace, PlistInv, ReadBackPlist PROVE InPlace' /\ PlistInv'
<1>1. /\ UNCHANGED << crontabVars, plain, plainCopy, original, unreported, plist, loaded, plistBackup >>
      /\ at.pc = "read back" /\ at.pc \in PlistPcs
      /\ unreported' \in BOOLEAN
  BY DEF ReadBackPlist, historyVars, plistVars, PlistPcs, InPlace, ImportTypeOK
<1>2. PlistSteps
  BY <1>1 DEF PlistInv
<1> DEFINE w == InWrapper(original, Candidate.id)
<1>3. ~AlreadyWrapped(original) /\ plistBackup = {original} /\ loaded = {w} /\ plist = w
  BY <1>1, <1>2 DEF PlistSteps
<1>4. CASE Reported("applied")
  <2>1. "applied" \notin Bad
    BY DEF Bad
  <2> QED
    BY <1>1, <1>3, <1>4, <2>1, PlistStops
<1>5. CASE Goto("undo and reload")
  <2>1. "undo and reload" \in PlistPcs
    BY DEF PlistPcs
  <2>2. at'.pc = "undo and reload" /\ Candidate' = Candidate
    BY <1>5, <2>1, Going
  <2>3. PlistSteps'
    BY <1>1, <1>3, <2>2 DEF PlistSteps
  <2> QED
    BY <1>1, <1>5, <2>1, <2>3, PlistMoves
<1> QED
  BY <1>4, <1>5 DEF ReadBackPlist

LEMMA RestorePlistKeeps == ASSUME InPlace, PlistInv, RestorePlist PROVE InPlace' /\ PlistInv'
<1>1. /\ UNCHANGED << crontabVars, plain, plainCopy, original, loaded, plistBackup >>
      /\ at.pc \in {"undo", "undo and reload"} /\ at.pc \in PlistPcs
      /\ unreported' \in BOOLEAN
      /\ \/ plist' \in plistBackup
         \/ plist' \in {plist, Emptied(plist)} /\ unreported' = TRUE
  BY DEF RestorePlist, PlistPcs, InPlace, ImportTypeOK
<1>2. PlistSteps
  BY <1>1 DEF PlistInv
<1> DEFINE w == InWrapper(original, Candidate.id)
<1>3. ~AlreadyWrapped(original) /\ plistBackup = {original}
  BY <1>1, <1>2 DEF PlistSteps
<1>4. CASE at.pc = "undo"
  <2>1. loaded = {original}
    BY <1>2, <1>4 DEF PlistSteps
  <2>2. Reported("put back")
    BY <1>4 DEF RestorePlist
  <2>3. ~unreported' => Pristine'
    BY <1>1, <1>3, <2>1 DEF Pristine
  <2>4. ASSUME NEW id PROVE PlistSafe(id)'
    BY <1>1, <1>3, <2>1 DEF PlistSafe
  <2> QED
    BY <1>1, <2>2, <2>3, <2>4, PlistStops
<1>5. CASE at.pc = "undo and reload"
  <2>1. "bootout again" \in PlistPcs
    BY DEF PlistPcs
  <2>2. Goto("bootout again")
    BY <1>5 DEF RestorePlist
  <2>3. at'.pc = "bootout again" /\ Candidate' = Candidate
    BY <2>1, <2>2, Going
  <2>4. plist = w /\ loaded \subseteq {w}
    BY <1>2, <1>5 DEF PlistSteps
  <2>5. plist' \in {original, w, Emptied(w)} /\ (~unreported' => plist' = original)
    BY <1>1, <1>3, <2>4
  <2>6. PlistSteps'
    BY <1>1, <1>3, <2>3, <2>4, <2>5 DEF PlistSteps
  <2> QED
    BY <1>1, <2>1, <2>2, <2>6, PlistMoves
<1> QED
  BY <1>1, <1>4, <1>5

LEMMA BootstrapAgainKeeps == ASSUME InPlace, PlistInv, BootstrapAgain PROVE InPlace' /\ PlistInv'
<1>1. /\ UNCHANGED << crontabVars, plain, plainCopy, original, plist, plistBackup >>
      /\ at.pc = "bootstrap again" /\ at.pc \in PlistPcs
      /\ unreported' \in BOOLEAN /\ Reported("put back")
      /\ \/ plist # Emptied(plist) /\ loaded' = {plist} /\ UNCHANGED unreported
         \/ unreported' = TRUE /\ UNCHANGED loaded
  BY DEF BootstrapAgain, PlistPcs, InPlace, ImportTypeOK
<1>2. PlistSteps
  BY <1>1 DEF PlistInv
<1> DEFINE w == InWrapper(original, Candidate.id)
<1>3. /\ ~AlreadyWrapped(original) /\ plistBackup = {original} /\ loaded = {}
      /\ plist \in {original, w, Emptied(w)} /\ (~unreported => plist = original)
  BY <1>1, <1>2 DEF PlistSteps
<1>4. Emptied(Emptied(w)) = Emptied(w)
  BY DEF Emptied
<1>5. loaded' \subseteq {original} \/ loaded' \subseteq {w}
  BY <1>1, <1>3, <1>4
<1>6. ASSUME NEW id, id = Candidate.id PROVE PlistSafe(id)'
  BY <1>1, <1>3, <1>5, <1>6 DEF PlistSafe
<1>7. ~unreported' => Pristine'
  BY <1>1, <1>3 DEF Pristine
<1> QED
  BY <1>1, <1>6, <1>7, PlistStops

LEMMA InstallPlistKeeps == ASSUME InPlace, PlistInv, InstallPlist PROVE InPlace' /\ PlistInv'
<1>1. /\ UNCHANGED << crontabVars, plain, plainCopy, original, unreported, loaded, plistBackup >>
      /\ at.pc = "install plist" /\ at.pc \in PlistPcs
      /\ unreported' \in BOOLEAN
  BY DEF InstallPlist, historyVars, PlistPcs, InPlace, ImportTypeOK
<1>2. PlistSteps
  BY <1>1 DEF PlistInv
<1> DEFINE w == InWrapper(original, Candidate.id)
<1>3. /\ ~AlreadyWrapped(original) /\ plistBackup = {original} /\ loaded = {original}
      /\ plist = original /\ draft = w
  BY <1>1, <1>2 DEF PlistSteps
<1>4. PICK pc \in {"lint", "undo"} : Goto(pc) /\ (pc = "lint" => plist' = draft)
  BY DEF InstallPlist
<1>5. pc \in PlistPcs
  BY <1>4 DEF PlistPcs
<1>6. at'.pc = pc /\ Candidate' = Candidate
  BY <1>4, <1>5, Going
<1>7. PlistSteps'
  BY <1>1, <1>3, <1>4, <1>6 DEF PlistSteps
<1> QED
  BY <1>1, <1>4, <1>5, <1>7, PlistMoves

LEMMA EditPlistKeeps == ASSUME InPlace, PlistInv, EditPlist PROVE InPlace' /\ PlistInv'
<1>1. /\ UNCHANGED << crontabVars, plain, plainCopy, original, unreported, loaded, plistBackup >>
      /\ at.pc = "edit" /\ at.pc \in PlistPcs
      /\ unreported' \in BOOLEAN
  BY DEF EditPlist, historyVars, PlistPcs, InPlace, ImportTypeOK
<1>2. PlistSteps
  BY <1>1 DEF PlistInv
<1> DEFINE w == InWrapper(original, Candidate.id)
           es == insertWrapper(original, Candidate.id)
           n == Len(es)
<1>3. /\ ~AlreadyWrapped(original) /\ plistBackup = {original} /\ loaded = {original}
      /\ plist.needsRoot = original.needsRoot /\ (plist.needsRoot => plist = original)
  BY <1>1, <1>2 DEF PlistSteps
<1>4. PICK k \in 0 .. n - 1 :
         /\ toDo = SubSeq(es, k + 1, n)
         /\ (IF plist.needsRoot THEN draft ELSE plist) = AfterEdits(original, Candidate.id, k)
  BY <1>1, <1>2 DEF PlistSteps
<1>5. original \in PlistForms /\ Candidate.id \in Word
  BY Here
<1>6. es \in Seq(Edits) /\ n \in Nat
  <2>1. es \in Seq(Edits)
    BY <1>5, EditsAre
  <2> HIDE DEF es
  <2> QED
    BY <2>1
<1>7. k \in Nat /\ k + 1 \in 1 .. n /\ n \in k + 1 .. n
  <2> HIDE DEF n
  <2> QED
    BY <1>6
<1>8. /\ Head(toDo) = es[k + 1] /\ Tail(toDo) = SubSeq(es, (k + 1) + 1, n) /\ Len(toDo) = n - k
  <2>1. Head(toDo) = es[k + 1] /\ Tail(toDo) = SubSeq(es, (k + 1) + 1, n)
    <3> HIDE DEF es
    <3> QED
      BY <1>4, <1>6, <1>7, HeadTailOfSubSeq
  <2>2. Len(SubSeq(es, k + 1, n)) = n - k
    <3> HIDE DEF es
    <3> QED
      BY <1>6, <1>7
  <2> QED
    BY <1>4, <2>1, <2>2
<1>9. Edited(AfterEdits(original, Candidate.id, k), es[k + 1])
         = AfterEdits(original, Candidate.id, k + 1)
  BY <1>5, OneEdit
<1>10. AfterEdits(original, Candidate.id, k + 1).needsRoot = original.needsRoot
  BY DEF AfterEdits
<1>11. CASE Goto("undo") /\ UNCHANGED plist
  <2>1. "undo" \in PlistPcs
    BY DEF PlistPcs
  <2>2. at'.pc = "undo" /\ Candidate' = Candidate
    BY <1>11, <2>1, Going
  <2>3. PlistSteps'
    BY <1>1, <1>3, <2>2 DEF PlistSteps
  <2> QED
    BY <1>1, <1>11, <2>1, <2>3, PlistMoves
<1>12. CASE /\ toDo' = Tail(toDo)
            /\ IF plist.needsRoot THEN draft' = Edited(draft, Head(toDo)) /\ UNCHANGED plist
               ELSE plist' = Edited(plist, Head(toDo)) /\ UNCHANGED draft
            /\ Goto(IF Len(toDo) > 1 THEN "edit"
                    ELSE IF plist.needsRoot THEN "install plist" ELSE "lint")
  <2> DEFINE next == AfterEdits(original, Candidate.id, k + 1)
  <2> HIDE DEF next, es, n
  <2>1. /\ plist'.needsRoot = original.needsRoot /\ (plist'.needsRoot => plist' = original)
        /\ (IF plist'.needsRoot THEN draft' ELSE plist') = next
    <3>1. CASE plist.needsRoot
      BY <1>3, <1>4, <1>8, <1>9, <1>12, <3>1 DEF next
    <3>2. CASE ~plist.needsRoot
      BY <1>3, <1>4, <1>8, <1>9, <1>10, <1>12, <3>2 DEF next
    <3> QED
      BY <3>1, <3>2
  <2>2. CASE n - k > 1
    <3>1. Goto("edit") /\ "edit" \in PlistPcs
      BY <1>8, <1>12, <2>2 DEF PlistPcs
    <3>2. at'.pc = "edit" /\ Candidate' = Candidate
      BY <3>1, Going
    <3>3. k + 1 \in 0 .. n - 1
      BY <1>6, <1>7, <2>2
    <3>4. toDo' = SubSeq(es, (k + 1) + 1, n)
      BY <1>8, <1>12
    <3>5. \E j \in 0 .. n - 1 :
             /\ toDo' = SubSeq(es, j + 1, n)
             /\ (IF plist'.needsRoot THEN draft' ELSE plist') = AfterEdits(original, Candidate.id, j)
      BY <2>1, <3>3, <3>4 DEF next
    <3>6. PlistSteps'
      BY <1>1, <1>3, <2>1, <3>2, <3>5 DEF PlistSteps, es, n
    <3> QED
      BY <1>1, <3>1, <3>6, PlistMoves
  <2>3. CASE ~(n - k > 1)
    <3>1. k + 1 = n
      BY <1>6, <1>7, <2>3
    <3>2. next = w
      BY <1>5, <3>1, AllEdits DEF next, es, n
    <3>3. CASE plist.needsRoot
      <4>1. Goto("install plist") /\ "install plist" \in PlistPcs
        BY <1>8, <1>12, <2>3, <3>3 DEF PlistPcs
      <4>2. at'.pc = "install plist" /\ Candidate' = Candidate
        BY <4>1, Going
      <4>3. plist' = original /\ draft' = w
        BY <1>3, <1>12, <2>1, <3>2, <3>3
      <4>4. PlistSteps'
        BY <1>1, <1>3, <4>2, <4>3 DEF PlistSteps
      <4> QED
        BY <1>1, <4>1, <4>4, PlistMoves
    <3>4. CASE ~plist.needsRoot
      <4>1. Goto("lint") /\ "lint" \in PlistPcs
        BY <1>8, <1>12, <2>3, <3>4 DEF PlistPcs
      <4>2. at'.pc = "lint" /\ Candidate' = Candidate
        BY <4>1, Going
      <4>3. plist' = w
        BY <1>3, <1>10, <1>12, <2>1, <3>2, <3>4
      <4>4. PlistSteps'
        BY <1>1, <1>3, <4>2, <4>3 DEF PlistSteps
      <4> QED
        BY <1>1, <4>1, <4>4, PlistMoves
    <3> QED
      BY <3>3, <3>4
  <2> QED
    BY <2>2, <2>3
<1> QED
  BY <1>11, <1>12 DEF EditPlist

-----------------------------------------------------------------------------
(* Patterns. *)

LEMMA RanksReached ==
    ASSUME NEW m \in Nat, NEW L \in SUBSET (2 .. m)
    PROVE  /\ IsFiniteSet(L) /\ Cardinality(L) \in Nat
           /\ \A j \in L : /\ Cardinality({k \in L : k < j}) \in Nat
                           /\ Cardinality({k \in L : k < j}) < Cardinality(L)
           /\ \A i, j \in L :
                 i < j <=> Cardinality({k \in L : k < i}) < Cardinality({k \in L : k < j})
           /\ \A q \in 0 .. Cardinality(L) - 1 : \E j \in L : Cardinality({k \in L : k < j}) = q
<1> DEFINE Below_(j) == {k \in L : k < j}
           n == Cardinality(L)
           r == [j \in L |-> Cardinality(Below_(j))]
<1>1. IsFiniteSet(L) /\ n \in Nat /\ \A j \in L : j \in Int
  <2>1. IsFiniteSet(2 .. m)
    <3>1. 2 \in Int /\ m \in Int
      OBVIOUS
    <3> QED
      BY <3>1, FS_Interval
  <2>2. IsFiniteSet(L)
    BY <2>1, FS_Subset
  <2>3. n \in Nat
    BY <2>2, FS_CardinalityType
  <2>4. \A j \in L : j \in Int
    OBVIOUS
  <2> QED
    BY <2>2, <2>3, <2>4
<1>3. ASSUME NEW j \in L
      PROVE  IsFiniteSet(Below_(j)) /\ Cardinality(Below_(j)) \in Nat /\ Cardinality(Below_(j)) < n
  <2>1. Below_(j) \in SUBSET L /\ j \notin Below_(j)
    BY <1>1
  <2>2. IsFiniteSet(Below_(j)) /\ Cardinality(Below_(j)) <= n /\ (n = Cardinality(Below_(j)) => L = Below_(j))
    BY <1>1, <2>1, FS_Subset
  <2>3. Cardinality(Below_(j)) \in Nat
    BY <2>2, FS_CardinalityType
  <2>4. L # Below_(j)
    BY <2>1
  <2> HIDE DEF Below_, n
  <2> QED
    BY <1>1, <2>2, <2>3, <2>4
<1>4. ASSUME NEW i \in L, NEW j \in L, i < j
      PROVE  Cardinality(Below_(i)) < Cardinality(Below_(j))
  <2>1. Below_(i) \in SUBSET Below_(j) /\ i \in Below_(j) /\ i \notin Below_(i)
    <3>1. \A k \in L : k < i => k < j
      BY <1>1, <1>4
    <3>2. ~(i < i)
      BY <1>1
    <3> QED
      BY <1>4, <3>1, <3>2, Zenon
  <2>2. /\ Cardinality(Below_(i)) <= Cardinality(Below_(j))
        /\ Cardinality(Below_(j)) = Cardinality(Below_(i)) => Below_(j) = Below_(i)
    <3> HIDE DEF Below_
    <3> QED
      BY <1>3, <2>1, FS_Subset
  <2> DEFINE x == Cardinality(Below_(i))
             y == Cardinality(Below_(j))
  <2>3. x \in Nat /\ y \in Nat /\ x <= y /\ x # y
    BY <1>3, <2>1, <2>2
  <2> HIDE DEF x, y
  <2>4. x < y
    BY <2>3
  <2> QED
    BY <2>4 DEF x, y
<1>5. ASSUME NEW i \in L, NEW j \in L
      PROVE  i < j <=> Cardinality(Below_(i)) < Cardinality(Below_(j))
  <2> DEFINE x == Cardinality(Below_(i))
             y == Cardinality(Below_(j))
  <2>1. x \in Nat /\ y \in Nat
    BY <1>3
  <2>2. (i < j => x < y) /\ (j < i => y < x) /\ (i = j => x = y) /\ i \in Int /\ j \in Int
    BY <1>1, <1>4
  <2> HIDE DEF x, y
  <2>3. i < j <=> x < y
    BY <2>1, <2>2
  <2> QED
    BY <2>3 DEF x, y
<1>6. r \in Injection(L, 0 .. n - 1)
  <2>1. ASSUME NEW j \in L PROVE r[j] \in 0 .. n - 1
    <3> DEFINE x == Cardinality(Below_(j))
    <3>1. x \in Nat /\ x < n
      BY <1>3
    <3> HIDE DEF x, n
    <3>2. x \in 0 .. n - 1
      BY <1>1, <3>1
    <3> QED
      BY <3>2 DEF x
  <2>2. ASSUME NEW i \in L, NEW j \in L, r[i] = r[j] PROVE i = j
    <3> DEFINE x == Cardinality(Below_(i))
               y == Cardinality(Below_(j))
    <3>1. x = y /\ x \in Nat /\ (i < j <=> x < y) /\ (j < i <=> y < x) /\ i \in Int /\ j \in Int
      BY <1>1, <1>3, <1>5, <2>2
    <3> HIDE DEF x, y
    <3> QED
      BY <3>1
  <2>3. r \in [L -> 0 .. n - 1]
    BY <2>1
  <2> HIDE DEF r
  <2> QED
    BY <2>2, <2>3 DEF Injection, IsInjective
<1>7. IsFiniteSet(0 .. n - 1) /\ Cardinality(0 .. n - 1) = n
  <2> HIDE DEF n
  <2>1. 0 \in Int /\ n - 1 \in Int
    BY <1>1
  <2>2. IsFiniteSet(0 .. n - 1) /\ Cardinality(0 .. n - 1) = IF 0 > n - 1 THEN 0 ELSE (n - 1) - 0 + 1
    BY <2>1, FS_Interval
  <2> QED
    BY <1>1, <2>2
<1>8. r \in Surjection(L, 0 .. n - 1)
  <2> HIDE DEF r
  <2> QED
    BY <1>6, <1>7, FS_Injection
<1>9. \A q \in 0 .. n - 1 : \E j \in L : r[j] = q
  <2> HIDE DEF r
  <2> QED
    BY <1>8 DEF Surjection
<1> QED
  BY <1>1, <1>3, <1>5, <1>9

LEMMA OwnPattern ==
    ASSUME NEW c \in Seq(Word), c # << >>
    PROVE  /\ Matches(SuggestPattern(c), c)
           /\ Head(SuggestPattern(c)) = c[1]
<1> DEFINE positional == {i \in 2 .. Len(c) : /\ c[i] \in NameWords
                                             /\ c[i - 1] \notin FlagWords}
           L == {i \in positional : Cardinality({j \in positional : j > i}) < 2}
           n == Cardinality(L)
           rank(j) == Cardinality({k \in L : k < j})
           place(i) == IF i = 1 THEN 1 ELSE CHOOSE j \in L : rank(j) = i - 2
           p == [i \in 1 .. n + 1 |->
                    IF i = 1 THEN c[1] ELSE c[CHOOSE j \in L : rank(j) = i - 2]]
<1>1. SuggestPattern(c) = p
  BY Zenon DEF SuggestPattern
<1>2. Len(c) \in Nat /\ 1 \in DOMAIN c /\ DOMAIN c = 1 .. Len(c) /\ L \in SUBSET (2 .. Len(c))
  BY HeadAndTail
<1> HIDE DEF positional, L
<1>3. /\ n \in Nat
      /\ \A i, j \in L : i < j <=> rank(i) < rank(j)
      /\ \A q \in 0 .. n - 1 : \E j \in L : rank(j) = q
  BY <1>2, RanksReached
<1> HIDE DEF rank, n
<1>4. ASSUME NEW i \in 1 .. n + 1, i # 1
      PROVE  place(i) \in L /\ rank(place(i)) = i - 2
  <2>1. i - 2 \in 0 .. n - 1
    BY <1>3, <1>4
  <2>2. \E j \in L : rank(j) = i - 2
    BY <1>3, <2>1
  <2> DEFINE j == CHOOSE j \in L : rank(j) = i - 2
  <2>3. j \in L /\ rank(j) = i - 2
    BY <2>2
  <2>4. place(i) = j
    BY <1>4
  <2> QED
    BY <2>3, <2>4
<1>5. place(1) = 1
  OBVIOUS
<1> DEFINE f == [i \in 1 .. n + 1 |-> place(i)]
<1>6. \A i \in 1 .. n + 1 : p[i] = c[place(i)]
  OBVIOUS
<1>7. DOMAIN p = 1 .. n + 1 /\ 1 \in 1 .. n + 1
  BY <1>3
<1> HIDE DEF place, p
<1>8. ASSUME NEW i \in 1 .. n + 1 PROVE place(i) \in DOMAIN c
  <2>1. CASE i = 1
    BY <1>2, <1>5, <2>1
  <2>2. CASE i # 1
    <3>1. place(i) \in 2 .. Len(c)
      BY <1>2, <1>4, <2>2
    <3> QED
      BY <1>2, <3>1
  <2> QED
    BY <2>1, <2>2
<1>9. ASSUME NEW i \in 1 .. n + 1, NEW j \in 1 .. n + 1, i < j PROVE place(i) < place(j)
  <2>1. j # 1
    BY <1>9
  <2>2. place(j) \in L /\ rank(place(j)) = j - 2 /\ place(j) \in 2 .. Len(c)
    BY <1>2, <1>4, <2>1
  <2>3. CASE i = 1
    BY <1>2, <1>5, <2>2, <2>3
  <2>4. CASE i # 1
    <3>1. place(i) \in L /\ rank(place(i)) = i - 2
      BY <1>4, <2>4
    <3>2. rank(place(i)) < rank(place(j))
      BY <1>9, <2>2, <3>1
    <3> QED
      BY <1>3, <2>2, <3>1, <3>2
  <2> QED
    BY <2>3, <2>4
<1>10. f \in [DOMAIN p -> DOMAIN c]
  BY <1>7, <1>8
<1>11. \A i \in DOMAIN p : c[f[i]] = p[i]
  BY <1>6, <1>7
<1>12. \A i, j \in DOMAIN p : i < j => f[i] < f[j]
  BY <1>7, <1>9
<1>13. Matches(p, c)
  BY <1>10, <1>11, <1>12 DEF Matches
<1>14. Head(p) = c[1]
  <2>1. p[1] = c[1]
    BY <1>5, <1>6, <1>7
  <2> QED
    BY <2>1
<1> QED
  BY <1>1, <1>13, <1>14

LEMMA KnownIs ==
    ASSUME original \in PlistForms
    PROVE  /\ IsFiniteSet(KnownCommands)
           /\ \A i \in Jobs : /\ Command(i) \in KnownCommands /\ Command(i) \in Seq(Word)
                              /\ Command(i) # << >>
<1>1. IsFiniteSet(Jobs)
  <2>1. 1 \in Int /\ Len(Candidates) \in Int
    BY CandidatesAre
  <2> QED
    BY <2>1, CandidatesAre, FS_Interval
<1> DEFINE f == [i \in Jobs |-> Command(i)]
<1>2. f \in Surjection(Jobs, KnownCommands)
  BY DEF Surjection, KnownCommands, Jobs
<1>3. IsFiniteSet(KnownCommands)
  <2> HIDE DEF f
  <2> QED
    BY <1>1, <1>2, FS_Surjection
<1>4. ASSUME NEW i \in Jobs
      PROVE  Command(i) \in KnownCommands /\ Command(i) \in Seq(Word) /\ Command(i) # << >>
  <2>1. Command(i) \in KnownCommands
    BY DEF KnownCommands, Jobs
  <2>2. Candidates[i].command \in Seq(Word) /\ Candidates[i].command # << >>
    BY CandidatesAre
  <2>3. commandOf(original) \in Seq(Word) /\ commandOf(original) # << >>
    <3>1. markPath \in Word
      BY WordsAre
    <3> QED
      BY <3>1, AddedAll
  <2> QED
    BY <2>1, <2>2, <2>3 DEF Command
<1> QED
  BY <1>3, <1>4

\* A pattern that only one of the known commands matches finds that one, and it is the
\* command that the pattern was made of.
LEMMA DistinctiveFindsOwn ==
    ASSUME original \in PlistForms, NEW i \in Jobs, NEW pattern,
           pattern = SuggestPattern(Command(i)), Distinctive(pattern, KnownCommands),
           Head(pattern) # markPath
    PROVE  Cardinality({c \in KnownCommands : FindsProcess(pattern, c)}) = 1
<1> DEFINE own == Command(i)
           M == {c \in KnownCommands : Matches(pattern, c)}
<1>1. own \in KnownCommands /\ Matches(pattern, own) /\ own[1] # markPath
  BY KnownIs, OwnPattern
<1>2. IsFiniteSet(M) /\ Cardinality(M) = 1
  <2>1. M \in SUBSET KnownCommands
    OBVIOUS
  <2> QED
    BY <2>1, KnownIs, FS_Subset DEF Distinctive
<1>3. PICK x : M = {x}
  <2> HIDE DEF M
  <2> QED
    BY <1>2, FS_Singleton
<1>4. M = {own}
  BY <1>1, <1>3
<1>5. {c \in KnownCommands : FindsProcess(pattern, c)} = {own}
  BY <1>1, <1>4 DEF FindsProcess
<1> QED
  BY <1>5, FS_Singleton

LEMMA PatternKeeps ==
    ASSUME InPlace, PatternInv, ImportNext
    PROVE  PatternInv'
<1>1. UNCHANGED original
  BY DEF ImportNext, RegisterCandidate, ReadCrontab, BackUpCrontab, InstallCrontab, VerifyCrontab,
         RestoreCrontab, CheckPlist, BackUpPlist, EditPlist, InstallPlist, LintPlist, Bootout,
         Bootstrap, ReadBackPlist, RestorePlist, BootstrapAgain, UserEditsCrontab, Interrupted,
         historyVars
<1>2. \A i : Command(i)' = Command(i)
  BY <1>1 DEF Command
<1>3. KnownCommands' = KnownCommands
  BY <1>2 DEF KnownCommands
<1>4. CASE UNCHANGED registered
  BY <1>2, <1>3, <1>4 DEF PatternInv
<1>5. CASE RegisterCandidate
  <2>1. PICK choice \in chooseAction :
           registered' = registered \/
           registered' = registered \cup
              {[id |-> Candidate.id, detection |-> choice, wrappable |-> Candidate.wrappable,
                match |-> IF choice = "pattern" THEN SuggestPattern(Command(at.i)) ELSE None]}
    BY <1>5 DEF RegisterCandidate
  <2> DEFINE new == [id |-> Candidate.id, detection |-> choice, wrappable |-> Candidate.wrappable,
                     match |-> IF choice = "pattern" THEN SuggestPattern(Command(at.i)) ELSE None]
  <2>2. CASE registered' = registered \cup {new}
    <3>1. ASSUME NEW j \in registered', j.detection = "pattern", j.wrappable
          PROVE  \E i \in Jobs : /\ j.match = SuggestPattern(Command(i))
                                 /\ Distinctive(j.match, KnownCommands)
      <4>1. CASE j \in registered
        BY <3>1, <4>1 DEF PatternInv
      <4>2. CASE j = new
        <5>1. choice = "pattern" /\ Candidate.wrappable /\ j.match = SuggestPattern(Command(at.i))
          BY <3>1, <4>2
        <5>2. Distinctive(SuggestPattern(Command(at.i)), KnownCommands)
          BY <5>1 DEF chooseAction
        <5> QED
          BY <5>1, <5>2, Here
      <4> QED
        BY <2>2, <4>1, <4>2
    <3>2. \A pattern : Distinctive(pattern, KnownCommands)' <=> Distinctive(pattern, KnownCommands)
      BY <1>3 DEF Distinctive
    <3> QED
      BY <1>2, <1>3, <3>1 DEF PatternInv
  <2> QED
    BY <1>4, <2>1, <2>2
<1> QED
  BY <1>4, <1>5
     DEF ImportNext, RegisterCandidate, ReadCrontab, BackUpCrontab, InstallCrontab, VerifyCrontab,
         RestoreCrontab, CheckPlist, BackUpPlist, EditPlist, InstallPlist, LintPlist, Bootout,
         Bootstrap, ReadBackPlist, RestorePlist, BootstrapAgain, UserEditsCrontab, Interrupted

-----------------------------------------------------------------------------
(* The rest of the steps, and all of them together. *)

LEMMA InterruptedPlist == ASSUME InPlace, PlistInv, Interrupted PROVE PlistInv'
<1>1. /\ UNCHANGED << plistVars, original, unreported >> /\ at.pc # "done"
      /\ at' = [at EXCEPT !.pc = "done"]
      /\ report' = [report EXCEPT ![at.i] = IF at.pc = "choose" THEN @ ELSE "interrupted"]
  BY DEF Interrupted, historyVars
<1>2. /\ at \in [pc : Pcs, i : Jobs, line : [Jobs -> Nat]] /\ report \in [Jobs -> Results]
      /\ at.i \in Jobs
  BY DEF InPlace, ImportTypeOK, Pcs
<1>3. /\ at'.pc \notin PlistPcs
      /\ at.pc = "choose" => report' = report
      /\ at.pc # "choose" => report'[at.i] = "interrupted"
      /\ \A j \in Jobs : j # at.i => report'[j] = report[j]
  BY <1>1, <1>2, PcsApart
<1>4. UNCHANGED << plist, loaded, plistBackup, original, unreported >>
  BY <1>1 DEF plistVars
<1>5. Pristine' <=> Pristine
  BY <1>4 DEF Pristine
<1>6. \A id : PlistSafe(id)' <=> PlistSafe(id)
  BY <1>4 DEF PlistSafe
<1>7. CASE at.pc = "choose"
  <2>1. at.pc \notin PlistPcs
    BY <1>7, PcsApart
  <2> QED
    BY <1>1, <1>3, <1>7, <2>1, PlistAsideSame
<1>8. CASE at.pc \in CrontabPcs
  <2>1. at.i \notin LaunchdJobs /\ at.pc \notin PlistPcs
    <3>1. Candidate.source = "crontab"
      BY <1>8 DEF InPlace, PlaceInv
    <3> QED
      BY <1>8, <3>1, Here, PcsApart
  <2>2. ASSUME NEW i \in LaunchdJobs PROVE PlistReported(i)'
    <3>1. report'[i] = report[i] /\ PlistReported(i)
      BY <1>3, <2>1 DEF LaunchdJobs, PlistInv
    <3> QED
      BY <1>4, <1>5, <1>6, <2>1, <3>1 DEF PlistReported
  <2> QED
    BY <1>3, <1>5, <2>2 DEF PlistInv
<1>9. CASE at.pc \in PlistPcs
  <2>1. LaunchdJobs = {at.i} /\ PlistSafe(Candidate.id) /\ Candidate = Candidates[at.i]
    BY <1>9, Here, SafeMeanwhile
  <2>2. report'[at.i] = "interrupted"
    BY <1>3, <1>9, PcsApart
  <2>3. ASSUME NEW i \in LaunchdJobs PROVE PlistReported(i)'
    <3>1. i = at.i
      BY <2>1
    <3>2. PlistSafe(Candidates[i].id) /\ report'[i] = "interrupted"
      BY <2>1, <2>2, <3>1
    <3>3. PlistSafe(Candidates[i].id)'
      BY <1>6, <3>2
    <3> QED
      BY <3>2, <3>3 DEF PlistReported
  <2> QED
    BY <1>3, <2>1, <2>3 DEF PlistInv
<1> QED
  BY <1>1, <1>2, <1>7, <1>8, <1>9 DEF Pcs

LEMMA UserPlist == ASSUME PlistInv, UserEditsCrontab PROVE PlistInv'
<1>1. UNCHANGED << at, report, plist, loaded, plistBackup, toDo, draft, original, unreported >>
  BY DEF UserEditsCrontab, plistVars
<1>2. Pristine' <=> Pristine
  BY <1>1 DEF Pristine
<1>3. \A id : PlistSafe(id)' <=> PlistSafe(id)
  BY <1>1 DEF PlistSafe
<1>4. Candidate' = Candidate
  BY <1>1 DEF Candidate
<1>5. PlistSteps' <=> PlistSteps
  BY <1>1, <1>2, <1>4 DEF PlistSteps
<1>6. \A i : PlistReported(i)' <=> PlistReported(i)
  BY <1>1, <1>2, <1>3 DEF PlistReported
<1> QED
  BY <1>1, <1>2, <1>5, <1>6 DEF PlistInv

LEMMA ImportStarts == ASSUME ImportInit PROVE ImportInv
<1>1. /\ crontab = Crontab /\ copy = << >> /\ plist \in PlistForms /\ loaded = {plist}
      /\ registered = {} /\ report = [i \in Jobs |-> "none"]
      /\ at = [pc |-> "choose", i |-> 1, line |-> [i \in Jobs |-> LineOf(Candidates[i])]]
      /\ plain = crontab /\ plainCopy = << >> /\ original = plist /\ unreported = FALSE
  BY DEF ImportInit, None, Jobs
<1>2. Crontab \in Seq(Seq(Word)) /\ \A n \in DOMAIN Crontab : Crontab[n] \notin Wrappers
  BY CrontabAssumption
<1>3. 1 \in Jobs
  BY CandidatesAre
<1>4. \A c : LineOf(c) \in Nat
  <2>1. \A n \in DOMAIN crontab : n \in Nat
    BY <1>1, <1>2
  <2>2. ASSUME NEW c, \E n \in DOMAIN crontab : crontab[n] = c.command PROVE LineOf(c) \in Nat
    <3> DEFINE n == CHOOSE n \in DOMAIN crontab : crontab[n] = c.command
    <3>1. n \in DOMAIN crontab
      BY <2>2
    <3>2. LineOf(c) = n
      BY <2>2 DEF LineOf
    <3> QED
      BY <2>1, <3>1, <3>2
  <2>3. ASSUME NEW c, ~(\E n \in DOMAIN crontab : crontab[n] = c.command) PROVE LineOf(c) \in Nat
    BY <2>3 DEF LineOf
  <2> QED
    BY <2>2, <2>3
<1>5. /\ at.pc = "choose" /\ at.pc \notin CrontabPcs /\ at.pc \notin PlistPcs /\ at.pc \in Pcs
      /\ "none" \in Results
  BY <1>1, PcsApart
<1>6. ImportTypeOK
  <2>1. [i \in Jobs |-> LineOf(Candidates[i])] \in [Jobs -> Nat]
    BY <1>4
  <2>2. at \in [pc : Pcs, i : Jobs, line : [Jobs -> Nat]]
    BY <1>1, <1>3, <1>5, <2>1
  <2>3. report \in [Jobs -> Results]
    BY <1>1, <1>5
  <2>4. /\ crontab \in Seq(Seq(Word)) /\ copy \in Seq(Seq(Word))
        /\ plain \in Seq(Seq(Word)) /\ plainCopy \in Seq(Seq(Word))
    BY <1>1, <1>2
  <2> QED
    BY <1>1, <2>2, <2>3, <2>4 DEF ImportTypeOK, Pcs
<1>7. PlaceInv
  BY <1>1, <1>5 DEF PlaceInv
<1>8. Agrees(crontab, plain, report)
  BY <1>1 DEF Agrees
<1>9. CrontabInv
  BY <1>1, <1>2, <1>5, <1>8 DEF CrontabInv
<1>10. Pristine
  BY <1>1 DEF Pristine
<1>11. \A i \in LaunchdJobs : PlistReported(i)
  BY <1>1, <1>10 DEF PlistReported, LaunchdJobs, Bad
<1>12. PlistInv
  BY <1>5, <1>10, <1>11 DEF PlistInv
<1>13. PatternInv
  BY <1>1 DEF PatternInv
<1> QED
  BY <1>6, <1>7, <1>9, <1>12, <1>13 DEF ImportInv

LEMMA ImportSteps == ASSUME ImportInv, ImportNext PROVE ImportInv'
<1>1. InPlace /\ PlistInv /\ PatternInv
  BY DEF ImportInv, InPlace
<1>2. PatternInv'
  BY <1>1, PatternKeeps
<1> SUFFICES InPlace' /\ PlistInv'
  BY <1>2 DEF ImportInv, InPlace
<1>3. CASE RegisterCandidate
  BY <1>1, <1>3, RegisterPlaces, RegisterPlist
<1>4. CASE ReadCrontab
  <2>1. /\ at.pc \in CrontabPcs /\ UNCHANGED << plistVars, original, unreported >>
        /\ "backup" \in CrontabPcs /\ "untouched" \in Results
    BY <1>4 DEF ReadCrontab, historyVars, CrontabPcs, Results
  <2>2. Goto("backup") \/ Reported("untouched")
    BY <1>4 DEF ReadCrontab
  <2> QED
    BY <1>1, <1>4, <2>1, <2>2, ReadPlaces, CrontabPlist
<1>5. CASE BackUpCrontab
  <2>1. /\ at.pc \in CrontabPcs /\ UNCHANGED << plistVars, original, unreported >>
        /\ "install" \in CrontabPcs /\ "untouched" \in Results
    BY <1>5 DEF BackUpCrontab, historyVars, CrontabPcs, Results
  <2>2. Goto("install") \/ Reported("untouched")
    BY <1>5 DEF BackUpCrontab
  <2> QED
    BY <1>1, <1>5, <2>1, <2>2, BackUpPlaces, CrontabPlist
<1>6. CASE InstallCrontab
  <2>1. /\ at.pc \in CrontabPcs /\ UNCHANGED << plistVars, original, unreported >>
        /\ "verify" \in CrontabPcs /\ "untouched" \in Results
    BY <1>6 DEF InstallCrontab, historyVars, CrontabPcs, Results
  <2>2. Goto("verify") \/ Reported("untouched")
    BY <1>6 DEF InstallCrontab
  <2> QED
    BY <1>1, <1>6, <2>1, <2>2, InstallPlaces, CrontabPlist
<1>7. CASE VerifyCrontab
  <2>1. /\ at.pc \in CrontabPcs /\ UNCHANGED << plistVars, original, unreported >>
        /\ "restore" \in CrontabPcs /\ "applied" \in Results
    BY <1>7 DEF VerifyCrontab, historyVars, CrontabPcs, Results
  <2>2. Goto("restore") \/ Reported("applied")
    BY <1>7 DEF VerifyCrontab
  <2> QED
    BY <1>1, <1>7, <2>1, <2>2, VerifyPlaces, CrontabPlist
<1>8. CASE RestoreCrontab
  <2>1. /\ at.pc \in CrontabPcs /\ UNCHANGED << plistVars, original, unreported >>
        /\ "put back" \in Results /\ "not restored" \in Results
    BY <1>8 DEF RestoreCrontab, historyVars, CrontabPcs, Results
  <2>2. Reported("put back") \/ Reported("not restored")
    BY <1>8 DEF RestoreCrontab
  <2> QED
    BY <1>1, <1>8, <2>1, <2>2, RestorePlaces, CrontabPlist
<1>9. CASE \/ CheckPlist \/ BackUpPlist \/ EditPlist \/ InstallPlist \/ LintPlist \/ Bootout
           \/ Bootstrap \/ ReadBackPlist \/ RestorePlist \/ BootstrapAgain
  BY <1>1, <1>9, CheckPlistKeeps, BackUpPlistKeeps, EditPlistKeeps, InstallPlistKeeps, LintKeeps,
     BootoutKeeps, BootstrapKeeps, ReadBackKeeps, RestorePlistKeeps, BootstrapAgainKeeps
<1>10. CASE UserEditsCrontab
  BY <1>1, <1>10, UserPlaces, UserPlist
<1>11. CASE Interrupted
  BY <1>1, <1>11, InterruptedPlaces, InterruptedPlist
<1> QED
  BY <1>3, <1>4, <1>5, <1>6, <1>7, <1>8, <1>9, <1>10, <1>11 DEF ImportNext

\* Wherever an import is in its script: what the user has put into the crontab is in what it has
\* read, or in the crontab with the lines it has wrapped; the plist is the original after the
\* edits made so far, or there is a copy of it, or a restore has failed; and launchd has loaded
\* the one or the other whole, or nothing (applyCrontabWrap, applyLaunchdWrap).
THEOREM ImportInvariant == ImportSpec => []ImportInv
<1>1. ImportInit => ImportInv
  BY ImportStarts
<1>2. ImportInv /\ [ImportNext]_importVars => ImportInv'
  <2>1. ASSUME ImportInv, UNCHANGED importVars PROVE ImportInv'
    <3>1. /\ UNCHANGED << at, registered, report, crontab, copy, plist, loaded, plistBackup,
                          toDo, draft, plain, plainCopy, original, unreported >>
      BY <2>1 DEF importVars
    <3>2. Candidate' = Candidate
      BY <3>1 DEF Candidate
    <3>3. ImportTypeOK' /\ PlaceInv'
      BY <2>1, <3>1, <3>2 DEF ImportInv, ImportTypeOK, PlaceInv
    <3>4. CrontabInv'
      <4>1. Applied' = Applied
        BY <3>1 DEF Applied
      <4> QED
        BY <2>1, <3>1, <3>2, <4>1 DEF ImportInv, CrontabInv, NothingBad
    <3>5. Pristine' <=> Pristine
      BY <3>1 DEF Pristine
    <3>6. \A id : PlistSafe(id)' <=> PlistSafe(id)
      BY <3>1 DEF PlistSafe
    <3>7. PlistInv'
      <4>1. PlistSteps' <=> PlistSteps
        BY <3>1, <3>2, <3>5 DEF PlistSteps
      <4>2. \A i : PlistReported(i)' <=> PlistReported(i)
        BY <3>1, <3>5, <3>6 DEF PlistReported
      <4> QED
        BY <2>1, <3>1, <3>5, <4>1, <4>2 DEF ImportInv, PlistInv
    <3>8. PatternInv'
      <4>1. \A i : Command(i)' = Command(i)
        BY <3>1 DEF Command
      <4>2. KnownCommands' = KnownCommands
        BY <4>1 DEF KnownCommands
      <4> QED
        BY <2>1, <3>1, <4>1, <4>2 DEF ImportInv, PatternInv
    <3> QED
      BY <3>3, <3>4, <3>7, <3>8 DEF ImportInv
  <2> QED
    BY <2>1, ImportSteps
<1> QED
  BY <1>1, <1>2, PTL DEF ImportSpec

LEMMA CrontabIsKept == ASSUME ImportInv PROVE CrontabKept
<1> SUFFICES ASSUME NEW i \in Jobs, BetweenJobs, NothingBad
             PROVE  /\ Len(crontab) = Len(plain)
                    /\ \A n \in DOMAIN crontab :
                          \/ crontab[n] = plain[n]
                          \/ \E j \in Jobs : /\ report[j] = "applied"
                                             /\ plain[n] = Candidates[j].command
                                             /\ crontab[n] = wrapCommand(Candidates[j])
                    /\ Candidates[i].source = "crontab" /\ report[i] \in {"untouched", "put back"} =>
                          \A n \in DOMAIN crontab : crontab[n] # wrapCommand(Candidates[i])
  BY DEF CrontabKept, Jobs, NothingBad
<1>1. Agrees(crontab, plain, report)
  BY DEF ImportInv, CrontabInv, BetweenJobs
<1>2. /\ crontab \in Seq(Seq(Word)) /\ plain \in Seq(Seq(Word))
      /\ \A n \in DOMAIN plain : plain[n] \notin Wrappers
  BY DEF ImportInv, ImportTypeOK, CrontabInv
<1>3. DOMAIN crontab = DOMAIN plain
  BY <1>1, <1>2 DEF Agrees
<1>4. ASSUME report[i] \in {"untouched", "put back"}, NEW n \in DOMAIN crontab,
             crontab[n] = wrapCommand(Candidates[i])
      PROVE  FALSE
  <2>1. crontab[n] # plain[n]
    BY <1>2, <1>3, <1>4, WrapIs
  <2>2. PICK j \in Jobs : report[j] = "applied" /\ crontab[n] = wrapCommand(Candidates[j])
    BY <1>1, <1>4, <2>1 DEF Agrees
  <2>3. i = j
    BY <1>4, <2>2, WrapsDiffer
  <2> QED
    BY <1>4, <2>2, <2>3
<1> QED
  BY <1>1, <1>4 DEF Agrees

LEMMA PlistIsKept == ASSUME ImportInv PROVE PlistKept
<1>1. InPlace /\ PlistInv /\ original \in PlistForms
  BY DEF ImportInv, InPlace, ImportTypeOK
<1>2. \/ Pristine
      \/ \E i \in LaunchdJobs : PlistSafe(Candidates[i].id)
  <2>1. CASE at.pc \in PlistPcs
    BY <1>1, <2>1, Here, SafeMeanwhile
  <2>2. CASE at.pc \notin PlistPcs /\ LaunchdJobs # {}
    <3>1. PICK i \in LaunchdJobs : PlistReported(i) /\ i \in Jobs
      BY <1>1, <2>2 DEF PlistInv, LaunchdJobs
    <3>2. report[i] \in Results
      BY <3>1 DEF ImportInv, ImportTypeOK
    <3>3. Pristine \/ PlistSafe(Candidates[i].id)
      <4>1. CASE report[i] = "applied"
        <5>1. ASSUME plist = InWrapper(original, Candidates[i].id),
                     loaded = {InWrapper(original, Candidates[i].id)},
                     plistBackup = {original}, ~AlreadyWrapped(original)
              PROVE  PlistSafe(Candidates[i].id)
          BY <5>1 DEF PlistSafe
        <5> QED
          BY <3>1, <4>1, <5>1 DEF PlistReported
      <4>2. CASE report[i] \in Bad \cup {"put back"}
        BY <3>1, <4>2 DEF PlistReported
      <4>3. CASE report[i] \in {"skipped", "not registered", "registered", "untouched", "none"}
        BY <2>2, <3>1, <4>3 DEF PlistReported
      <4> QED
        BY <3>2, <4>1, <4>2, <4>3 DEF Results, Bad
    <3> QED
      BY <3>1, <3>3
  <2>3. CASE LaunchdJobs = {}
    BY <1>1, <2>3 DEF PlistInv
  <2> QED
    BY <2>1, <2>2, <2>3
<1>3. ASSUME NEW i \in LaunchdJobs, NEW p \in loaded
      PROVE  \/ p = original
             \/ Runs(p) = [wrapper |-> Candidates[i].id, command |-> commandOf(original)]
  <2>1. CASE p = original
    BY <2>1
  <2>2. CASE p # original
    <3>1. PICK j \in LaunchdJobs : p = InWrapper(original, Candidates[j].id)
      BY <1>2, <1>3, <2>2 DEF Pristine, PlistSafe
    <3>2. j = i /\ Candidates[i].id \in Word
      BY CandidatesAre DEF LaunchdJobs
    <3> QED
      BY <1>1, <3>1, <3>2, RunsInWrapper
  <2> QED
    BY <2>1, <2>2
<1>4. plist # original => plistBackup = {original}
  BY <1>2 DEF Pristine, PlistSafe
<1>5. ASSUME NEW i \in LaunchdJobs
      PROVE  /\ report[i] = "applied" => /\ loaded = {plist}
                                         /\ Runs(plist).wrapper = Candidates[i].id
             /\ report[i] = "untouched" \/ (report[i] = "put back" /\ ~unreported) =>
                   plist = original /\ loaded = {original}
  <2>1. PlistReported(i) /\ Candidates[i].id \in Word
    BY <1>1, CandidatesAre DEF PlistInv, LaunchdJobs
  <2>2. CASE report[i] = "applied"
    <3>1. CASE Pristine /\ AlreadyWrapped(original)
      <4>1. Runs(original).wrapper = Candidates[i].id
        BY <1>1, <3>1, PlistFormsAssumption DEF LaunchdJobs, Jobs
      <4> QED
        BY <2>2, <3>1, <4>1 DEF Pristine
    <3>2. CASE /\ plist = InWrapper(original, Candidates[i].id)
               /\ loaded = {InWrapper(original, Candidates[i].id)}
      <4>1. Runs(plist).wrapper = Candidates[i].id
        BY <1>1, <2>1, <3>2, RunsInWrapper
      <4> QED
        BY <2>2, <3>2, <4>1
    <3> QED
      BY <2>1, <2>2, <3>1, <3>2 DEF PlistReported
  <2>3. CASE report[i] = "untouched" \/ (report[i] = "put back" /\ ~unreported)
    BY <2>1, <2>3 DEF PlistReported, Pristine
  <2> QED
    BY <2>2, <2>3
<1> QED
  BY <1>3, <1>4, <1>5 DEF PlistKept, LaunchdJobs, Jobs

LEMMA PatternsTell == ASSUME ImportInv PROVE PatternTellsApart
<1>1. original \in PlistForms /\ PatternInv
  BY DEF ImportInv, ImportTypeOK
<1> QED
  BY <1>1, DistinctiveFindsOwn DEF PatternInv, PatternTellsApart

\* What `import --register` says it changed it changed whole, and what it says it did not
\* change or put back is as it was, for any jobs found, crontab and plist and any failed calls;
\* but for the user's edits while a crontab is rewritten, and a plist whose restore or reload
\* fails with nobody told.
THEOREM ImportsKeepJobs == ImportSpec => []ImportKeepsJobs
<1>1. ImportInv => ImportKeepsJobs
  BY CrontabIsKept, PlistIsKept, PatternsTell DEF ImportKeepsJobs
<1> QED
  BY <1>1, ImportInvariant, PTL
=============================================================================
