------------------------- MODULE SeedNetworkProofs -------------------------
(***************************************************************************)
(* What SeedNetwork promises for every set of seeds and genesis files and  *)
(* every number of edits and faults.  It rests on GenesisSource alone, as  *)
(* the seeds rest on the validators.                                       *)
(***************************************************************************)
EXTENDS SeedNetwork, TLAPS

\* A genesis file that is ready was published.
SourceInv ==
    /\ applying \in BOOLEAN /\ wanted \in BOOLEAN /\ ready \in BOOLEAN
    /\ ready => wanted /\ doc \in published

\* Seeds are configured only while the file is ready, and started only when all are
\* configured.
StepInv ==
    \A s \in Seed :
        /\ cfg[s] \in ConfigSteps => applying /\ ready
        /\ cfg[s] \in ConfigSteps \cup {"created"} => trigger[s]
        /\ start[s] = "created" => AllConfigured

\* Whole genesis files come from nowhere else than the primary, when one was ready.
OriginInv ==
    /\ local \in Complete => local \in published
    /\ \A s \in Seed :
        /\ upload[s] \in Complete => upload[s] \in published
        /\ file[s] \in Complete => file[s] \in published
        /\ pinned[s] \in Complete => pinned[s] \in published
        /\ daemon[s] # NoDoc => daemon[s] \in published /\ unit[s] = "active"

Copied == {"upload", "kill", "wipe", "init", "place", "unit", "created"}
Whole  == {doc, Torn}

\* How far the file of the primary has come to a seed that was configured since the file
\* was withdrawn the last time; a unit that was not up did not keep another one.
CopyInv ==
    \A s \in Seed \ behind :
        /\ cfg[s] \in Copied => ready
        /\ cfg[s] = "upload" => local \in Whole
        /\ cfg[s] \in Copied \ {"upload"} => upload[s] \in Whole
        /\ cfg[s] \in {"unit", "created"} => file[s] \in Whole
        /\ cfg[s] = "created" /\ s \notin raced =>
             pinned[s] \in {NoDoc, doc} /\ daemon[s] \in {NoDoc, doc}

UnitInv ==
    \A s \in Seed : cfg[s] \in {"init", "place", "unit"} /\ unit[s] \in {"none", "inactive"}
                        => pinned[s] = NoDoc

IInv == SeedTypeOK /\ SourceInv /\ StepInv /\ OriginInv /\ CopyInv /\ UnitInv

---------------------------------------------------------------------------
\* The invariant holds before the first apply.
LEMMA InitInv == Init => IInv
<1> SUFFICES ASSUME Init PROVE IInv
    OBVIOUS
<1> USE DocAssumption, SeedAssumption DEF Init, SourceInit
<1>1. SourceInv
    BY Zenon DEF SourceInv
<1>2. SeedTypeOK
    BY DEF SeedTypeOK, File, UnitStates, ConfigSteps
<1>3. StepInv /\ OriginInv /\ CopyInv /\ UnitInv
    BY DEF StepInv, OriginInv, CopyInv, UnitInv, ConfigSteps, Copied
<1> QED
    BY <1>1, <1>2, <1>3 DEF IInv

\* A new apply keeps it: whoever is not configured is to be, and a withdrawn file leaves
\* every seed behind.
LEMMA ApplyStep == ASSUME IInv, NEW edited \in BOOLEAN, Apply(edited) PROVE IInv'
<1> USE DEF IInv
<1>1. /\ ~applying /\ applying' = TRUE /\ wanted' \in BOOLEAN /\ doc' = doc
      /\ ready' \in {FALSE, ready /\ wanted'}
      /\ UNCHANGED <<trigger, local, upload, file, pinned, unit, enabled, daemon,
                     faults, published, raced>>
      /\ behind' = IF ready /\ ~ready' THEN Seed ELSE behind
    BY DEF Apply, Begin
<1>2. ready' \in BOOLEAN /\ (ready' => ready /\ wanted')
    BY <1>1 DEF SourceInv
<1> DEFINE stale == {s \in Seed : edited \/ cfg[s] # "created" \/ trigger[s] # wanted'}
<1>3. /\ cfg' = [s \in Seed |-> IF s \in stale THEN "absent" ELSE cfg[s]]
      /\ start' = [s \in Seed |-> IF s \in {t \in Seed : stale # {} \/ start[t] # "created"}
                                  THEN "absent" ELSE start[s]]
    BY DEF Apply
<1>4. \A s \in Seed : cfg'[s] = "absent" \/ (cfg'[s] = "created" /\ cfg[s] = "created")
    BY <1>3
<1>5. \A s \in Seed : start'[s] = "absent" \/
                        (start'[s] = "created" /\ start[s] = "created" /\ stale = {})
    BY <1>3
<1>6. stale = {} => cfg' = cfg
    BY <1>3 DEF SeedTypeOK
<1> HIDE DEF stale
<1>7. SeedTypeOK'
    BY <1>1, <1>3, <1>4, <1>5 DEF SeedTypeOK
<1>8. SourceInv'
    BY <1>1, <1>2 DEF SourceInv
<1>9. StepInv'
    BY <1>1, <1>4, <1>5, <1>6 DEF StepInv, ConfigSteps, AllConfigured
<1>10. OriginInv' /\ UnitInv'
    BY <1>1, <1>4 DEF OriginInv, UnitInv
<1>11. CopyInv'
    BY <1>1, <1>2, <1>4 DEF CopyInv, Copied, Whole, SourceInv
<1> QED
    BY <1>7, <1>8, <1>9, <1>10, <1>11

\* The validators' part of an apply keeps it: while no file is ready, no seed that is
\* not behind has copied one.
LEMMA ValidatorsStep == ASSUME IInv, Validators \/ EndApply PROVE IInv'
<1> USE DocAssumption DEF IInv, seedVars
<1>1. CASE Validators
  <2>1. /\ ~ready /\ applying /\ doc' \in Doc /\ UNCHANGED <<applying, wanted>>
        /\ ready' \in BOOLEAN /\ (ready' => wanted /\ doc' \in published')
        /\ published \subseteq published' /\ published' \subseteq Complete
        /\ UNCHANGED <<cfg, trigger, start, local, upload, file, pinned, unit, enabled,
                       daemon, edits, faults, behind, raced>>
    <3>1. CASE Rewrite /\ UNCHANGED seedVars
      BY <3>1 DEF Rewrite, SourceInv, SeedTypeOK
    <3>2. CASE Publish /\ published' = published \cup {doc'}
      <4>1. doc' \in Complete /\ doc' \in Doc /\ ready' = TRUE /\ wanted /\ ~ready /\ applying
        BY <3>2 DEF Publish
      <4> QED
        BY <1>1, <3>2, <4>1 DEF Validators, Publish, Rewrite, SeedTypeOK
    <3> QED
      BY <1>1, <3>1, <3>2 DEF Validators
  <2>2. SeedTypeOK' /\ SourceInv' /\ UnitInv'
    BY <2>1 DEF SeedTypeOK, SourceInv, UnitInv
  <2>3. StepInv' /\ OriginInv'
    BY <2>1 DEF StepInv, OriginInv, AllConfigured
  <2>4. CopyInv'
    BY <2>1 DEF CopyInv, Copied
  <2> QED
    BY <2>2, <2>3, <2>4
<1>2. CASE EndApply
  <2>1. \A s \in Seed : cfg[s] \notin ConfigSteps
    BY <1>2 DEF EndApply, OutputsKnown, StepInv, ConfigSteps
  <2>2. applying' = FALSE /\ UNCHANGED <<wanted, ready, doc, seedVars>>
    BY <1>2 DEF EndApply, End
  <2>3. SeedTypeOK' /\ SourceInv' /\ UnitInv' /\ StepInv'
    BY <2>1, <2>2 DEF SeedTypeOK, SourceInv, UnitInv, StepInv, AllConfigured
  <2>4. OriginInv' /\ CopyInv'
    BY <2>2 DEF OriginInv, CopyInv, Whole
  <2> QED
    BY <2>3, <2>4
<1> QED
    BY <1>1, <1>2

---------------------------------------------------------------------------
(* One seed. *)

\* What holds of a seed beyond its types, apart from the others and from `local`.
Sane(s) ==
    /\ cfg[s] \in ConfigSteps => applying /\ ready
    /\ cfg[s] \in ConfigSteps \cup {"created"} => trigger[s]
    /\ upload[s] \in Complete => upload[s] \in published
    /\ file[s] \in Complete => file[s] \in published
    /\ pinned[s] \in Complete => pinned[s] \in published
    /\ daemon[s] # NoDoc => daemon[s] \in published /\ unit[s] = "active"
    /\ s \notin behind /\ cfg[s] \in Copied => ready
    /\ s \notin behind /\ cfg[s] \in Copied \ {"upload"} => upload[s] \in Whole
    /\ s \notin behind /\ cfg[s] \in {"unit", "created"} => file[s] \in Whole
    /\ s \notin behind /\ cfg[s] = "created" /\ s \notin raced =>
         pinned[s] \in {NoDoc, doc} /\ daemon[s] \in {NoDoc, doc}
    /\ cfg[s] \in {"init", "place", "unit"} /\ unit[s] \in {"none", "inactive"}
         => pinned[s] = NoDoc

\* Everything of a seed stays but what a step of another does to `local`.
Stays(t) ==
    /\ cfg'[t] = cfg[t] /\ trigger'[t] = trigger[t] /\ start'[t] = start[t]
    /\ upload'[t] = upload[t] /\ file'[t] = file[t] /\ pinned'[t] = pinned[t]
    /\ unit'[t] = unit[t] /\ daemon'[t] = daemon[t]
    /\ t \in behind' <=> t \in behind
    /\ t \in raced' <=> t \in raced

\* A step of one seed keeps the invariant, if it keeps that seed sane and leaves in
\* `local` nothing but the ready file, or a part of it.
LEMMA OneSeed ==
    ASSUME IInv, NEW s \in Seed, SeedTypeOK', UNCHANGED <<sourceVars, published>>,
           \A t \in Seed \ {s} : Stays(t),
           Sane(s)',
           local' = local \/ (local' \in Whole /\ ready),
           s \notin behind' /\ cfg'[s] = "upload" => local' \in Whole,
           start'[s] = "created" => AllConfigured',
           \A t \in Seed \ {s} : start[t] = "created" => cfg'[s] = "created"
    PROVE  IInv'
<1> USE DEF IInv, sourceVars
<1>1. SourceInv' /\ doc' = doc /\ ready' = ready
    BY DEF SourceInv
<1>2. ASSUME NEW t \in Seed PROVE Sane(t)'
  <2>1. Sane(t)
    BY DEF Sane, StepInv, OriginInv, CopyInv, UnitInv
  <2>2. CASE t # s
    BY <1>1, <2>1, <2>2 DEF Stays, Sane, Whole
  <2> QED
    BY <2>2
<1>3. local' \in Complete => local' \in published'
    BY <1>1, SeedAssumption, DocAssumption DEF OriginInv, Whole, SourceInv
<1>4. ASSUME NEW t \in Seed, t \notin behind', cfg'[t] = "upload" PROVE local' \in Whole'
    BY <1>1, <1>4 DEF CopyInv, Stays, Whole
<1>5. ASSUME NEW t \in Seed, start'[t] = "created" PROVE AllConfigured'
    BY <1>5 DEF Stays, StepInv, AllConfigured
<1>6. StepInv' /\ UnitInv'
    BY <1>2, <1>5 DEF Sane, StepInv, UnitInv
<1>7. OriginInv'
    BY <1>2, <1>3 DEF Sane, OriginInv
<1>8. CopyInv'
    BY <1>2, <1>4 DEF Sane, CopyInv
<1> QED
    BY <1>1, <1>6, <1>7, <1>8

\* A seed is sane in a state of the invariant, and its parts have their types.
LEMMA SeedSane ==
    ASSUME IInv, NEW s \in Seed
    PROVE  /\ Sane(s) /\ (ready => doc \in Complete /\ doc \in published)
           /\ (start[s] = "created" => AllConfigured)
           /\ Torn \notin Complete /\ Own \notin Complete /\ NoDoc \notin Complete
           /\ NoDoc \in Doc /\ Complete \subseteq Doc /\ Own # Torn
           /\ Torn \notin Doc /\ Own \notin Doc
    BY DocAssumption, SeedAssumption
       DEF IInv, Sane, SourceInv, StepInv, OriginInv, CopyInv, UnitInv, SeedTypeOK

\* The steps of a seed's configuration.
LEMMA ConfigureStep == ASSUME IInv, NEW s \in Seed, Configure(s) PROVE IInv'
<1> USE DEF IInv
<1>1. PICK from \in ConfigSteps \cup {"absent"},
           to \in ConfigSteps \cup {"tainted", "created"} :
         ConfigStep(s, from, to) /\ to # "absent"
    BY DEF Configure, BeginCopy, EndCopy, Upload, KillDaemon, Wipe, InitHome, PlaceGenesis,
           InstallUnit, ConfigSteps
<1>2. /\ applying /\ cfg[s] = from /\ cfg' = [cfg EXCEPT ![s] = to]
      /\ UNCHANGED <<sourceVars, start, enabled, edits, faults, published>>
    BY <1>1 DEF ConfigStep
<1>3. \A t \in Seed : start[t] # "created"
    BY <1>1, <1>2 DEF StepInv, AllConfigured, ConfigSteps
<1>4. /\ Sane(s) /\ (ready => doc \in Complete /\ doc \in published)
      /\ Torn \notin Complete /\ Own \notin Complete /\ NoDoc \notin Complete
      /\ NoDoc \in Doc /\ Complete \subseteq Doc /\ Own # Torn
      /\ Torn \notin Doc /\ Own \notin Doc
    BY SeedSane
<1>5. /\ cfg' \in [Seed -> {"absent", "tainted", "created"} \cup ConfigSteps]
      /\ cfg'[s] = to /\ \A t \in Seed \ {s} : cfg'[t] = cfg[t]
    BY <1>2 DEF SeedTypeOK
<1>6. CASE BeginCopy(s)
  <2>1. /\ trigger' = [trigger EXCEPT ![s] = wanted] /\ OutputsKnown
        /\ local' = IF wanted THEN Torn ELSE local
        /\ cfg[s] = "absent" /\ cfg'[s] = IF wanted THEN "copying" ELSE "tainted"
        /\ UNCHANGED <<upload, file, pinned, unit, daemon, behind, raced>>
    BY <1>5, <1>6 DEF BeginCopy, ConfigStep, SeedTypeOK
  <2>2. wanted => ready
    BY <2>1 DEF OutputsKnown
  <2>3. SeedTypeOK'
    BY <1>2, <1>4, <1>5, <2>1 DEF SeedTypeOK, SourceInv, sourceVars
  <2>4. Sane(s)' /\ \A t \in Seed \ {s} : Stays(t)
    BY <1>2, <1>4, <1>5, <2>1, <2>2
       DEF Sane, Stays, SeedTypeOK, ConfigSteps, Copied, Whole, sourceVars
  <2> QED
    BY <1>2, <1>3, <1>5, <2>1, <2>2, <2>3, <2>4, OneSeed DEF Whole
<1>7. CASE EndCopy(s)
  <2>1. /\ cfg[s] = "copying" /\ cfg'[s] = "upload" /\ local' \in Whole
        /\ behind' = behind \ {s}
        /\ UNCHANGED <<trigger, upload, file, pinned, unit, daemon, raced>>
    BY <1>5, <1>7 DEF EndCopy, ConfigStep, Whole, SeedTypeOK
  <2>2. ready
    BY <1>4, <2>1 DEF Sane, ConfigSteps
  <2>3. SeedTypeOK'
    BY <1>2, <1>4, <1>5, <2>1 DEF SeedTypeOK, Whole, sourceVars
  <2>4. Sane(s)' /\ \A t \in Seed \ {s} : Stays(t)
    BY <1>2, <1>4, <1>5, <2>1, <2>2
       DEF Sane, Stays, ConfigSteps, Copied, Whole, sourceVars
  <2> QED
    BY <1>2, <1>3, <2>1, <2>2, <2>3, <2>4, OneSeed
<1>8. CASE Upload(s)
  <2>1. /\ cfg[s] = "upload" /\ cfg'[s] = "kill" /\ upload' = [upload EXCEPT ![s] = local]
        /\ UNCHANGED <<trigger, local, file, pinned, unit, daemon, behind, raced>>
    BY <1>5, <1>8 DEF Upload, ConfigStep, SeedTypeOK
  <2>2. SeedTypeOK'
    BY <1>2, <1>4, <1>5, <2>1 DEF SeedTypeOK, sourceVars
  <2>3. Sane(s)' /\ \A t \in Seed \ {s} : Stays(t)
    BY <1>2, <1>4, <1>5, <2>1
       DEF Sane, Stays, ConfigSteps, Copied, Whole, sourceVars, SeedTypeOK, OriginInv, CopyInv
  <2> QED
    BY <1>2, <1>3, <2>1, <2>2, <2>3, OneSeed
<1>9. CASE KillDaemon(s)
  <2>1. /\ cfg[s] = "kill" /\ cfg'[s] = "wipe" /\ daemon' = [daemon EXCEPT ![s] = NoDoc]
        /\ unit' = [unit EXCEPT ![s] = IF @ = "active" THEN "backoff" ELSE @]
        /\ UNCHANGED <<trigger, local, upload, file, pinned, behind, raced>>
    BY <1>5, <1>9 DEF KillDaemon, ConfigStep, SeedTypeOK
  <2>2. SeedTypeOK'
    BY <1>2, <1>4, <1>5, <2>1 DEF SeedTypeOK, sourceVars, UnitStates
  <2>3. Sane(s)' /\ \A t \in Seed \ {s} : Stays(t)
    BY <1>2, <1>4, <1>5, <2>1 DEF Sane, Stays, ConfigSteps, Copied, Whole, sourceVars, SeedTypeOK
  <2> QED
    BY <1>2, <1>3, <2>1, <2>2, <2>3, OneSeed
<1>10. CASE Wipe(s) \/ InitHome(s) \/ PlaceGenesis(s)
  <2>1. /\ UNCHANGED <<trigger, local, upload, unit, daemon, behind, raced>>
        /\ \/ /\ cfg[s] = "wipe" /\ cfg'[s] = "init"
              /\ file' = [file EXCEPT ![s] = NoDoc] /\ pinned' = [pinned EXCEPT ![s] = NoDoc]
           \/ /\ cfg[s] = "init" /\ cfg'[s] = "place"
              /\ file' = [file EXCEPT ![s] = Own] /\ UNCHANGED pinned
           \/ /\ cfg[s] = "place" /\ cfg'[s] = "unit"
              /\ file' = [file EXCEPT ![s] = upload[s]] /\ UNCHANGED pinned
    BY <1>5, <1>10 DEF Wipe, InitHome, PlaceGenesis, ConfigStep, SeedTypeOK
  <2>2. SeedTypeOK'
    BY <1>2, <1>4, <1>5, <2>1 DEF SeedTypeOK, sourceVars, File
  <2>3. Sane(s)' /\ \A t \in Seed \ {s} : Stays(t)
    BY <1>2, <1>4, <1>5, <2>1 DEF Sane, Stays, ConfigSteps, Copied, Whole, sourceVars, SeedTypeOK
  <2> QED
    BY <1>2, <1>3, <2>1, <2>2, <2>3, OneSeed
<1>11. CASE InstallUnit(s)
  <2>1. /\ cfg[s] = "unit" /\ cfg'[s] = "created"
        /\ unit' = [unit EXCEPT ![s] = IF @ = "none" THEN "inactive" ELSE @]
        /\ raced' = IF unit[s] \in {"none", "inactive"} THEN raced \ {s} ELSE raced \cup {s}
        /\ UNCHANGED <<trigger, local, upload, file, pinned, daemon, behind>>
    BY <1>5, <1>11 DEF InstallUnit, ConfigStep, SeedTypeOK
  <2>2. SeedTypeOK'
    BY <1>2, <1>4, <1>5, <2>1 DEF SeedTypeOK, sourceVars, UnitStates
  <2>3. Sane(s)' /\ \A t \in Seed \ {s} : Stays(t)
    BY <1>2, <1>4, <1>5, <2>1 DEF Sane, Stays, ConfigSteps, Copied, Whole, sourceVars, SeedTypeOK
  <2> QED
    BY <1>2, <1>3, <2>1, <2>2, <2>3, OneSeed
<1> QED
    BY <1>6, <1>7, <1>8, <1>9, <1>10, <1>11 DEF Configure

\* Starting a seed, and what systemd does with it, keep it.
LEMMA RunStep ==
    ASSUME IInv, NEW s \in Seed,
           StartSeed(s) \/ Launch(s) \/ RestartAfterFailure(s)
    PROVE  IInv'
<1> USE DEF IInv
<1>1. /\ Sane(s) /\ (ready => doc \in Complete /\ doc \in published)
      /\ (start[s] = "created" => AllConfigured)
      /\ Torn \notin Complete /\ Own \notin Complete /\ NoDoc \notin Complete
      /\ NoDoc \in Doc /\ Complete \subseteq Doc /\ Own # Torn
      /\ Torn \notin Doc /\ Own \notin Doc
    BY SeedSane
<1>2. /\ UNCHANGED <<sourceVars, cfg, trigger, local, upload, file, edits, faults,
                     published, behind, raced>>
      /\ AllConfigured' = AllConfigured
    BY DEF StartSeed, Launch, RestartAfterFailure, AllConfigured
<1>3. \A t \in Seed \ {s} : start[t] = "created" => cfg'[s] = "created"
    BY <1>2 DEF StepInv, AllConfigured
<1>4. s \notin behind' /\ cfg'[s] = "upload" => local' \in Whole
    BY <1>2 DEF CopyInv, Whole
<1>5. CASE StartSeed(s)
  <2>1. /\ AllConfigured /\ start' = [start EXCEPT ![s] = "created"]
        /\ enabled' = enabled \cup {s} /\ UNCHANGED <<pinned, daemon>>
        /\ unit' = [unit EXCEPT ![s] = IF @ \in {"inactive", "backoff"} THEN "starting" ELSE @]
    BY <1>5 DEF StartSeed
  <2>2. SeedTypeOK'
    BY <1>2, <2>1 DEF SeedTypeOK, sourceVars, UnitStates
  <2>3. Sane(s)' /\ \A t \in Seed \ {s} : Stays(t)
    BY <1>1, <1>2, <2>1 DEF Sane, Stays, Whole, sourceVars, SeedTypeOK
  <2> QED
    BY <1>2, <1>3, <1>4, <2>1, <2>2, <2>3, OneSeed
<1>6. CASE Launch(s)
  <2> DEFINE g == Readable(s)
  <2>1. /\ unit[s] = "starting" /\ UNCHANGED <<start, enabled>>
        /\ pinned' = [pinned EXCEPT ![s] = IF g = Torn THEN NoDoc ELSE g]
        /\ daemon' = [daemon EXCEPT ![s] = IF g \in Complete THEN g ELSE NoDoc]
        /\ unit' = [unit EXCEPT ![s] = IF g \in Complete THEN "active" ELSE "backoff"]
    BY <1>6 DEF Launch
  <2>2. /\ g \in File /\ (g \in Complete => g \in published)
        /\ s \notin behind /\ cfg[s] = "created" /\ s \notin raced => g \in Whole
    BY <1>1 DEF Readable, Sane, SeedTypeOK, File, Whole, Copied
  <2> HIDE DEF g
  <2>3. SeedTypeOK'
    BY <1>1, <1>2, <2>1, <2>2 DEF SeedTypeOK, sourceVars, UnitStates, File
  <2>4. Sane(s)' /\ \A t \in Seed \ {s} : Stays(t)
    BY <1>1, <1>2, <2>1, <2>2 DEF Sane, Stays, Whole, sourceVars, SeedTypeOK, Copied
  <2> QED
    BY <1>1, <1>2, <1>3, <1>4, <2>1, <2>3, <2>4, OneSeed
<1>7. CASE RestartAfterFailure(s)
  <2>1. /\ unit[s] = "backoff" /\ unit' = [unit EXCEPT ![s] = "starting"]
        /\ UNCHANGED <<start, enabled, pinned, daemon>>
    BY <1>7 DEF RestartAfterFailure
  <2>2. SeedTypeOK'
    BY <1>2, <2>1 DEF SeedTypeOK, sourceVars, UnitStates
  <2>3. Sane(s)' /\ \A t \in Seed \ {s} : Stays(t)
    BY <1>1, <1>2, <2>1 DEF Sane, Stays, Whole, sourceVars, SeedTypeOK
  <2> QED
    BY <1>1, <1>2, <1>3, <1>4, <2>1, <2>2, <2>3, OneSeed
<1> QED
    BY <1>5, <1>6, <1>7

\* So does whatever goes wrong: a seed whose configuration broke off is tainted, and one
\* that rebooted has no daemon.
LEMMA MishapStep == ASSUME IInv, NEW s \in Seed, Mishap(s) PROVE IInv'
<1> USE DEF IInv
<1>1. Sane(s) /\ (start[s] = "created" => AllConfigured)
    BY SeedSane
<1>2. /\ UNCHANGED <<sourceVars, trigger, local, upload, file, pinned, edits, published,
                     behind, raced>>
      /\ NoDoc \notin Complete /\ NoDoc \in Doc /\ enabled' \subseteq Seed
    BY DocAssumption DEF Mishap, SkipKill, DropConfigure, DropStart, Crash, Reboot, SeedTypeOK
<1>3. CASE DropConfigure(s)
  <2>1. /\ cfg[s] \in ConfigSteps /\ cfg' = [cfg EXCEPT ![s] = "tainted"]
        /\ UNCHANGED <<start, unit, daemon>>
    BY <1>3 DEF DropConfigure
  <2>2. SeedTypeOK' /\ cfg'[s] = "tainted" /\ \A t \in Seed : start[t] # "created"
    BY <1>2, <2>1 DEF SeedTypeOK, sourceVars, StepInv, AllConfigured, ConfigSteps
  <2>3. Sane(s)' /\ \A t \in Seed \ {s} : Stays(t)
    BY <1>1, <1>2, <2>1, <2>2 DEF Sane, Stays, Whole, sourceVars, SeedTypeOK, ConfigSteps, Copied
  <2> QED
    BY <1>2, <2>1, <2>2, <2>3, OneSeed
<1>4. CASE DropStart(s) \/ Crash(s)
  <2>1. /\ start' \in {start, [start EXCEPT ![s] = "tainted"]} /\ UNCHANGED cfg
        /\ \/ UNCHANGED <<unit, daemon>>
           \/ /\ unit' = [unit EXCEPT ![s] = "starting"] /\ UNCHANGED daemon
              /\ unit[s] \in {"inactive", "backoff"}
           \/ /\ unit' = [unit EXCEPT ![s] = "backoff"] /\ daemon[s] # NoDoc
              /\ daemon' = [daemon EXCEPT ![s] = NoDoc]
        /\ AllConfigured' = AllConfigured
    BY <1>4 DEF DropStart, Crash, AllConfigured
  <2>2. SeedTypeOK'
    BY <1>2, <2>1 DEF SeedTypeOK, sourceVars, UnitStates
  <2>3. Sane(s)' /\ \A t \in Seed \ {s} : Stays(t)
    BY <1>1, <1>2, <2>1 DEF Sane, Stays, Whole, sourceVars, SeedTypeOK
  <2>4. /\ \A t \in Seed \ {s} : start[t] = "created" => cfg'[s] = "created"
        /\ start'[s] = "created" => AllConfigured'
        /\ s \notin behind' /\ cfg'[s] = "upload" => local' \in Whole
    BY <1>1, <1>2, <2>1 DEF StepInv, AllConfigured, CopyInv, Whole, SeedTypeOK
  <2> QED
    BY <1>2, <2>2, <2>3, <2>4, OneSeed
<1>5. CASE Reboot(s)
  <2>1. /\ daemon' = [daemon EXCEPT ![s] = NoDoc] /\ UNCHANGED start
        /\ unit' = [unit EXCEPT ![s] = IF s \in enabled THEN "starting" ELSE "inactive"]
        /\ cfg' = [cfg EXCEPT ![s] = IF @ \in ConfigSteps \ {"copying"} THEN "tainted" ELSE @]
    BY <1>5 DEF Reboot
  <2>2. /\ cfg'[s] \in {"absent", "tainted", "created", "copying"}
        /\ cfg'[s] # "tainted" => cfg'[s] = cfg[s]
        /\ cfg[s] = "created" => cfg' = cfg
    BY <2>1 DEF SeedTypeOK, ConfigSteps
  <2>3. SeedTypeOK'
    BY <1>2, <2>1 DEF SeedTypeOK, sourceVars, UnitStates
  <2>4. Sane(s)' /\ \A t \in Seed \ {s} : Stays(t)
    BY <1>1, <1>2, <2>1, <2>2 DEF Sane, Stays, Whole, sourceVars, SeedTypeOK, ConfigSteps, Copied
  <2>5. \A t \in Seed : start[t] = "created" => cfg' = cfg /\ AllConfigured'
    BY <2>2 DEF StepInv, AllConfigured
  <2>6. \A t \in Seed \ {s} : start[t] = "created" => cfg'[s] = "created"
    BY <2>5 DEF StepInv, AllConfigured
  <2> QED
    BY <1>2, <2>1, <2>2, <2>3, <2>4, <2>5, <2>6, OneSeed
<1>6. CASE SkipKill(s)
  <2>1. /\ cfg[s] = "kill" /\ cfg' = [cfg EXCEPT ![s] = "wipe"] /\ applying
        /\ UNCHANGED <<start, unit, daemon>>
    BY <1>6 DEF SkipKill
  <2>2. SeedTypeOK' /\ cfg'[s] = "wipe" /\ \A t \in Seed : start[t] # "created"
    BY <1>2, <2>1 DEF SeedTypeOK, sourceVars, StepInv, AllConfigured, ConfigSteps
  <2>3. Sane(s)' /\ \A t \in Seed \ {s} : Stays(t)
    BY <1>1, <1>2, <2>1, <2>2 DEF Sane, Stays, Whole, sourceVars, SeedTypeOK, ConfigSteps, Copied
  <2> QED
    BY <1>2, <2>1, <2>2, <2>3, OneSeed
<1> QED
    BY <1>3, <1>4, <1>5, <1>6 DEF Mishap

\* The invariant is inductive.
LEMMA NextInv == IInv /\ [Next]_vars => IInv'
<1>1. IInv /\ UNCHANGED vars => IInv'
    BY DEF vars, sourceVars, seedVars, IInv, SeedTypeOK, SourceInv, StepInv, OriginInv,
           CopyInv, UnitInv, AllConfigured, Whole
<1> QED
    BY <1>1, ApplyStep, ValidatorsStep, ConfigureStep, RunStep, MishapStep DEF Next, Systemd

LEMMA Invariance == Spec => []IInv
<1> QED
    BY InitInv, NextInv, PTL DEF Spec

---------------------------------------------------------------------------
\* The variables keep their types.
THEOREM TypeCorrect == Spec => []SeedTypeOK
<1>1. IInv => SeedTypeOK
    BY DEF IInv
<1> QED
    BY <1>1, Invariance, PTL

\* A seed runs nothing but genesis files that a ceremony had finished, although all seeds
\* copy through one local file and none waits for another.
THEOREM Published == Spec => []RunsPublished
<1>1. IInv => RunsPublished
    BY DEF IInv, OriginInv, RunsPublished
<1> QED
    BY <1>1, Invariance, PTL

\* But for the two known ways to fall off it, a seed that runs is on the validators' file.
THEOREM SeedsOnNetwork == Spec => []OnNetwork
<1>1. IInv => OnNetwork
  <2> SUFFICES ASSUME IInv, NEW s \in Seed \ (behind \cup raced),
                      start[s] = "created", daemon[s] # NoDoc
               PROVE  daemon[s] = doc
    BY DEF OnNetwork
  <2>1. cfg[s] = "created"
    BY DEF IInv, StepInv, AllConfigured
  <2> QED
    BY <2>1 DEF IInv, CopyInv
<1> QED
    BY <1>1, Invariance, PTL
============================================================================
