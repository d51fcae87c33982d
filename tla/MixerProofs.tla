------------------------------- MODULE MixerProofs -------------------------------
(* Proofs about the mixer: the invariant of MixerInv is inductive. *)
EXTENDS MixerInv, TLAPS

(* What the helpers on the modules do *)

\* Delete leaves the other modules.
LEMMA Deleting ==
  ASSUME NEW name, Delete(name)
  PROVE  /\ DOMAIN modules' = DOMAIN modules \ {name}
         /\ \A n \in DOMAIN modules : n # name => modules'[n] = modules[n]
BY DEF Delete

\* The times are numbers, and what the tables hold are modules.
LEMMA Tables ==
  ASSUME TypeOK
  PROVE  /\ clock \in Nat /\ \A f \in Files : files[f].mtime \in Nat
         /\ DOMAIN modules \subseteq Names /\ DOMAIN cache.table \subseteq Names
         /\ \A n \in DOMAIN modules : modules[n] \in Module /\ modules[n].mtime \in Nat
         /\ \A n \in DOMAIN cache.table :
              cache.table[n] \in Module /\ cache.table[n].mtime \in Nat
<1>1. clock \in Nat /\ \A f \in Files : files[f].mtime \in Nat
  BY MixerAssumption DEF TypeOK
<1>2. /\ DOMAIN modules \subseteq Names
      /\ \A n \in DOMAIN modules : modules[n] \in Module
  BY DEF TypeOK, IsTable
<1>3. \A m \in Module : m.mtime \in Nat
  BY MixerAssumption DEF Module
<1>4. /\ DOMAIN cache.table \subseteq Names
      /\ \A n \in DOMAIN cache.table : cache.table[n] \in Module
  BY DEF TypeOK, IsTable, IsOutput, Absent, Truncated
<1> QED BY <1>1, <1>2, <1>3, <1>4

\* A module that is known or made has the fields of a module.
LEMMA KnownIsModule ==
  ASSUME TypeOK, NEW n \in Names
  PROVE  Known(n) \in Module
<1>1. New \in Module
  BY MixerAssumption DEF New, Module, Text
<1> QED BY <1>1 DEF TypeOK, IsTable, Known

\* The fields of a module.
LEMMA ModuleFields ==
  ASSUME NEW m \in Module
  PROVE  /\ m.mtime \in 0..MaxTime /\ m.mtime \in Nat
         /\ m.text \in Text /\ m.enabled \in BOOLEAN /\ m.modified \in BOOLEAN
         /\ m = [mtime |-> m.mtime, text |-> m.text, enabled |-> m.enabled,
                 modified |-> m.modified]
BY MixerAssumption DEF Module

\* A file that is known keeps its module, but for the mark.
LEMMA StatKnownDoes ==
  ASSUME TypeOK, NEW f \in Files, StatKnown(f)
  PROVE  /\ NameOf[f] \in DOMAIN modules
         /\ modules[NameOf[f]].mtime = files[f].mtime
         /\ DOMAIN modules' = DOMAIN modules
         /\ modules'[NameOf[f]] \in Module
         /\ modules'[NameOf[f]].mtime    = modules[NameOf[f]].mtime
         /\ modules'[NameOf[f]].text     = modules[NameOf[f]].text
         /\ modules'[NameOf[f]].enabled  = modules[NameOf[f]].enabled
         /\ \A n \in DOMAIN modules : n # NameOf[f] => modules'[n] = modules[n]
<1>1. NameOf[f] \in DOMAIN modules /\ modules[NameOf[f]].mtime = files[f].mtime
  BY DEF StatKnown, Known, New, Exists
<1>2. modules[NameOf[f]] \in Module
  BY <1>1 DEF TypeOK, IsTable
<1>3. Put(NameOf[f], [modules[NameOf[f]] EXCEPT !.modified = FALSE])
  BY <1>1 DEF StatKnown, Known
<1>4. modules'[NameOf[f]] = [modules[NameOf[f]] EXCEPT !.modified = FALSE]
  BY ONLY <1>3 DEF Put
<1>5. /\ DOMAIN modules' = DOMAIN modules \cup {NameOf[f]}
      /\ \A n \in DOMAIN modules : n # NameOf[f] => modules'[n] = modules[n]
  BY ONLY <1>3 DEF Put
<1>6. DOMAIN modules' = DOMAIN modules
  BY <1>1, <1>5
<1> QED BY <1>1, <1>2, <1>4, <1>5, <1>6 DEF Module

\* A file that is new to its module marks it, with its mtime.
LEMMA StatNewDoes ==
  ASSUME TypeOK, NEW f \in Files, StatNew(f)
  PROVE  /\ DOMAIN modules' = DOMAIN modules \cup {NameOf[f]}
         /\ modules'[NameOf[f]] \in Module
         /\ modules'[NameOf[f]].mtime    = files[f].mtime
         /\ modules'[NameOf[f]].text     = Known(NameOf[f]).text
         /\ modules'[NameOf[f]].enabled  = Known(NameOf[f]).enabled
         /\ modules'[NameOf[f]].modified = TRUE
         /\ \A n \in DOMAIN modules : n # NameOf[f] => modules'[n] = modules[n]
<1> DEFINE known == Known(NameOf[f])
<1>1. known \in Module /\ NameOf[f] \in Names
  BY KnownIsModule, MixerAssumption
<1>2. files[f].mtime \in 0..MaxTime
  BY DEF TypeOK
<1>3. /\ DOMAIN modules' = DOMAIN modules \cup {NameOf[f]}
      /\ modules'[NameOf[f]] = [known EXCEPT !.modified = TRUE, !.mtime = files[f].mtime]
      /\ \A n \in DOMAIN modules : n # NameOf[f] => modules'[n] = modules[n]
  BY DEF StatNew, Put
<1> HIDE DEF known
<1>4. modules'[NameOf[f]] \in Module
  BY <1>1, <1>2, <1>3 DEF Module
<1>5. /\ modules'[NameOf[f]].mtime    = files[f].mtime
      /\ modules'[NameOf[f]].text     = known.text
      /\ modules'[NameOf[f]].enabled  = known.enabled
      /\ modules'[NameOf[f]].modified = TRUE
  BY <1>1, <1>3 DEF Module
<1> QED BY <1>3, <1>4, <1>5 DEF known

\* A file with a test gives its module its text.
LEMMA ReadFileDoes ==
  ASSUME TypeOK, NEW f \in Files, ReadFile(f), NameOf[f] \in DOMAIN modules,
         files[f].text \in Tested
  PROVE  /\ DOMAIN modules' = DOMAIN modules
         /\ modules'[NameOf[f]] \in Module
         /\ modules'[NameOf[f]].mtime    = modules[NameOf[f]].mtime
         /\ modules'[NameOf[f]].text     = files[f].text
         /\ modules'[NameOf[f]].enabled  = modules[NameOf[f]].enabled
         /\ modules'[NameOf[f]].modified = modules[NameOf[f]].modified
         /\ \A n \in DOMAIN modules : n # NameOf[f] => modules'[n] = modules[n]
<1> DEFINE known == modules[NameOf[f]]
<1>1. known \in Module
  BY DEF TypeOK, IsTable
<1>2. Put(NameOf[f], [known EXCEPT !.text = files[f].text])
  BY DEF ReadFile, Known
<1>3. /\ DOMAIN modules' = DOMAIN modules \cup {NameOf[f]}
      /\ modules'[NameOf[f]] = [known EXCEPT !.text = files[f].text]
      /\ \A n \in DOMAIN modules : n # NameOf[f] => modules'[n] = modules[n]
  BY ONLY <1>2 DEF Put
<1>7. DOMAIN modules' = DOMAIN modules
  BY <1>3
<1> HIDE DEF known
<1>4. files[f].text \in Text
  BY DEF Tested
<1>5. modules'[NameOf[f]] \in Module
  BY <1>1, <1>3, <1>4 DEF Module
<1>6. /\ modules'[NameOf[f]].mtime    = known.mtime
      /\ modules'[NameOf[f]].text     = files[f].text
      /\ modules'[NameOf[f]].enabled  = known.enabled
      /\ modules'[NameOf[f]].modified = known.modified
  BY <1>1, <1>3 DEF Module
<1> QED BY <1>3, <1>5, <1>6, <1>7 DEF known

\* disable marks the modules it disables.
LEMMA DisableDoes ==
  ASSUME TypeOK, Disable
  PROVE  /\ DOMAIN modules' = DOMAIN modules
         /\ \A n \in DOMAIN modules \ excluded : modules'[n] = modules[n]
         /\ \A n \in DOMAIN modules \cap excluded :
              /\ modules'[n] \in Module
              /\ modules'[n].mtime = modules[n].mtime
              /\ modules'[n].text = modules[n].text
              /\ modules'[n].enabled = FALSE
              /\ modules'[n].modified = TRUE
<1>1. /\ DOMAIN modules' = DOMAIN modules
      /\ \A n \in DOMAIN modules \ excluded : modules'[n] = modules[n]
      /\ \A n \in DOMAIN modules \cap excluded :
           modules'[n] = [modules[n] EXCEPT !.enabled = FALSE, !.modified = TRUE]
  BY DEF Disable
<1>2. ASSUME NEW n \in DOMAIN modules \cap excluded
      PROVE  /\ modules'[n] \in Module
             /\ modules'[n].mtime = modules[n].mtime
             /\ modules'[n].text = modules[n].text
             /\ modules'[n].enabled = FALSE
             /\ modules'[n].modified = TRUE
  <2>1. modules[n] \in Module
    BY DEF TypeOK, IsTable
  <2>2. modules'[n] = [modules[n] EXCEPT !.enabled = FALSE, !.modified = TRUE]
    BY <1>1
  <2> QED BY <2>1, <2>2 DEF Module
<1> QED BY <1>1, <1>2
--------------------------------------------------------------------------------
(* Each action keeps BaseInv *)

\* An edit makes a text at a time that nothing knows.
LEMMA EditKeepsBase ==
  ASSUME BaseInv, NEW f \in Files, NEW text \in Text, Edit(f, text)
  PROVE  BaseInv'
<1>1. /\ clock \in Nat /\ clock' = clock + 1 /\ clock' \in 0..MaxTime
      /\ files' = [files EXCEPT ![f] = [text |-> text, mtime |-> clock']]
      /\ undisturbed' = FALSE
      /\ UNCHANGED <<world, suite, header, cache, pc, modules, todo, reading, excluded, wrote>>
  BY MixerAssumption DEF BaseInv, TypeOK, Edit, run
<1>2. /\ files'[f] = [text |-> text, mtime |-> clock + 1]
      /\ \A g \in Files : g # f => files'[g] = files[g]
      /\ DOMAIN files' = Files
  BY <1>1 DEF BaseInv, TypeOK
<1>3. TypeOK'
  BY <1>1, <1>2 DEF BaseInv, TypeOK
<1>4. Pointed'
  BY <1>1 DEF BaseInv, Pointed
<1>5. Timed'
  <2>1. /\ clock \in Nat /\ \A g \in Files : files[g].mtime \in Nat
        /\ \A n \in DOMAIN modules : modules[n].mtime \in Nat
        /\ \A n \in DOMAIN cache.table : cache.table[n].mtime \in Nat
    BY Tables DEF BaseInv
  <2>2. \A g \in Files : files'[g].mtime \in Nat /\ files'[g].mtime <= clock'
    BY <1>1, <1>2, <2>1 DEF BaseInv, Timed
  <2>3. files'[f].mtime = clock' /\ \A g \in Files \ {f} : files'[g].mtime # clock'
    BY <1>1, <1>2, <2>1 DEF BaseInv, Timed
  <2>4. \A g, h \in Files : Exists(g)' /\ files'[g].mtime = files'[h].mtime => g = h
    BY <1>2, <2>3 DEF BaseInv, Timed, Exists
  <2>5. \A g \in Files : ~Exists(g)' => files'[g] = no_file
    BY <1>1, <1>2, <2>1, <2>3 DEF BaseInv, Timed, Exists
  <2>6. /\ \A n \in DOMAIN modules : modules[n].mtime <= clock + 1
        /\ \A n \in DOMAIN cache.table : cache.table[n].mtime <= clock + 1
    BY <2>1 DEF BaseInv, Timed
  <2> QED BY <1>1, <2>2, <2>4, <2>5, <2>6 DEF Timed, no_file
<1>6. Fitting'
  <2>1. \A n \in DOMAIN modules : modules[n].mtime # clock + 1
    BY Tables DEF BaseInv, Timed
  <2>2. \A n \in DOMAIN cache.table : cache.table[n].mtime # clock + 1
    BY Tables DEF BaseInv, Timed
  <2> QED BY <1>1, <1>2, <2>1, <2>2 DEF BaseInv, Fitting, Fits, Exists
<1>7. Reading'
  <2>1. \A n \in DOMAIN modules : modules[n].mtime # clock + 1
    BY Tables DEF BaseInv, Timed
  <2> QED BY <1>1, <1>2, <2>1 DEF BaseInv, Reading, Reads, Exists
<1>8. LookedAt'
  BY <1>1 DEF LookedAt
<1>9. Excluding'
  BY <1>1 DEF BaseInv, Excluding, Suite
<1> QED BY <1>3, <1>4, <1>5, <1>6, <1>7, <1>8, <1>9 DEF BaseInv

\* A file that is removed is no file any more, nor what a run looked at.
LEMMA RemoveKeepsBase ==
  ASSUME BaseInv, NEW f \in Files, Remove(f)
  PROVE  BaseInv'
<1>1. /\ files' = [files EXCEPT ![f] = no_file] /\ undisturbed' = FALSE
      /\ UNCHANGED <<world, clock, suite, header, cache, pc, modules, todo, reading, excluded,
                     wrote>>
  BY DEF Remove, run
<1>2. /\ files'[f] = no_file /\ DOMAIN files' = Files
      /\ \A g \in Files : g # f => files'[g] = files[g]
  BY <1>1 DEF BaseInv, TypeOK
<1>3. no_file \in [text: Text, mtime: 0..MaxTime] /\ no_file.mtime = 0
  BY MixerAssumption DEF no_file, Text
<1>4. TypeOK'
  BY <1>1, <1>3 DEF BaseInv, TypeOK
<1>5. Pointed'
  BY <1>1 DEF BaseInv, Pointed
<1>6. Timed'
  <2>1. clock \in Nat
    BY Tables DEF BaseInv
  <2>2. \A g \in Files : files'[g].mtime <= clock
    BY <1>2, <1>3, <2>1 DEF BaseInv, Timed
  <2>3. \A g, h \in Files : Exists(g)' /\ files'[g].mtime = files'[h].mtime => g = h
    BY <1>2, <1>3 DEF BaseInv, Timed, Exists
  <2>4. \A g \in Files : ~Exists(g)' => files'[g] = no_file
    BY <1>2 DEF BaseInv, Timed, Exists
  <2> QED BY <1>1, <2>2, <2>3, <2>4 DEF BaseInv, Timed, no_file
<1>7. Fitting'
  BY <1>1, <1>2, <1>3 DEF BaseInv, Fitting, Fits, Exists
<1>8. Reading'
  BY <1>1, <1>2, <1>3 DEF BaseInv, Reading, Reads, Exists
<1>9. LookedAt'
  BY <1>1 DEF LookedAt
<1>10. Excluding'
  BY <1>1 DEF BaseInv, Excluding, Suite
<1> QED BY <1>4, <1>5, <1>6, <1>7, <1>8, <1>9, <1>10 DEF BaseInv

\* A kill ends the run; what is on disk is as it was.
LEMMA CrashKeepsBase ==
  ASSUME BaseInv, Crash
  PROVE  BaseInv'
<1>1. /\ pc' = "idle"
      /\ UNCHANGED <<world, files, clock, suite, header, cache, modules, todo, reading,
                     excluded, wrote, undisturbed>>
  BY DEF Crash, disk, run
<1>2. TypeOK'
  BY <1>1 DEF BaseInv, TypeOK, Points
<1>3. Pointed' /\ Timed' /\ Reading' /\ LookedAt'
  BY <1>1 DEF BaseInv, Pointed, Loading, Timed, Exists, Reading, LookedAt
<1>4. Fitting'
  BY <1>1 DEF BaseInv, Fitting, Fits, Exists
<1>5. Excluding'
  BY <1>1 DEF Excluding, AfterDisable, AfterSuite, AfterHeader
<1> QED BY <1>2, <1>3, <1>4, <1>5 DEF BaseInv

\* A run begins with the modules of the cache or with none, and all files to look at.
LEMMA StartKeepsBase ==
  ASSUME BaseInv, NEW force \in BOOLEAN, NEW exclude \in world.excludes,
         Start(force, exclude)
  PROVE  BaseInv'
<1>1. /\ todo' = {f \in Files : Exists(f)} /\ reading' = {} /\ excluded' = exclude
      /\ wrote' = FALSE /\ undisturbed' = TRUE /\ pc' = "refresh"
      /\ UNCHANGED <<world, files, clock, suite, header, cache>>
  BY DEF Start, disk
<1>2. \/ modules' = <<>> /\ DOMAIN modules' = {}
      \/ modules' = cache.table
  BY DEF Start
<1>3. exclude \in SUBSET Names
  BY MixerAssumption DEF BaseInv, TypeOK, World
<1>4. DOMAIN modules' \subseteq Names /\ \A n \in DOMAIN modules' : modules'[n] \in Module
  BY <1>2, Tables DEF BaseInv
<1>5. \A n \in DOMAIN modules' : modules'[n].text \in Tested
  BY <1>2 DEF BaseInv, Pointed
<1>6. TypeOK'
  BY <1>1, <1>3, <1>4, <1>5 DEF BaseInv, TypeOK, Points, IsTable
<1>7. Pointed'
  BY <1>1 DEF BaseInv, Pointed, Loading
<1>8. Timed'
  BY <1>1, <1>2 DEF BaseInv, Timed, Exists
<1>9. Fitting'
  BY <1>1, <1>2 DEF BaseInv, Fitting, Fits, Exists
<1>10. Reading' /\ Excluding'
  BY <1>1 DEF Reading, Excluding, AfterDisable, AfterSuite, AfterHeader
<1>11. LookedAt'
  <2>1. \A f \in Files \ todo' : files[f].text \notin Tested
    BY <1>1 DEF BaseInv, Timed, no_file, Tested
  <2> QED BY <1>1, <2>1 DEF LookedAt, Exists
<1> QED BY <1>6, <1>7, <1>8, <1>9, <1>10, <1>11 DEF BaseInv

\* At a stat no file is being read, so every module has a test.
LEMMA NoneRead ==
  ASSUME BaseInv, pc \in {"refresh"} \cup AfterDisable \cup {"disable"}
  PROVE  reading = {} /\ \A n \in DOMAIN modules : modules[n].text \in Tested
BY DEF BaseInv, Pointed, TypeOK, AfterDisable, AfterSuite, AfterHeader

LEMMA StatFailsKeepsBase ==
  ASSUME BaseInv, NEW f \in Files, StatFails(f)
  PROVE  BaseInv'
<1>1. /\ pc = "refresh" /\ f \in todo /\ ~Exists(f) /\ todo' = todo \ {f}
      /\ UNCHANGED <<world, files, clock, suite, header, cache, pc, reading, excluded, wrote,
                     undisturbed>>
  BY DEF StatFails, disk
<1>2. /\ DOMAIN modules' = DOMAIN modules \ {NameOf[f]}
      /\ \A n \in DOMAIN modules' : modules'[n] = modules[n]
  BY Deleting DEF StatFails
<1>3. reading = {} /\ \A n \in DOMAIN modules : modules[n].text \in Tested
  BY <1>1, NoneRead
<1>4. ~undisturbed
  BY <1>1 DEF BaseInv, LookedAt
<1>5. TypeOK'
  BY <1>1, <1>2, <1>3 DEF BaseInv, TypeOK, IsTable
<1>6. Pointed' /\ Reading' /\ LookedAt' /\ Excluding'
  BY <1>1, <1>4 DEF BaseInv, Pointed, Loading, Reading, LookedAt, Excluding, AfterDisable,
                    AfterSuite, AfterHeader
<1>7. Timed'
  BY <1>1, <1>2 DEF BaseInv, Timed, Exists
<1>8. Fitting'
  BY <1>1, <1>2 DEF BaseInv, Fitting, Fits, Exists
<1> QED BY <1>5, <1>6, <1>7, <1>8 DEF BaseInv

LEMMA StatKnownKeepsBase ==
  ASSUME BaseInv, NEW f \in Files, StatKnown(f)
  PROVE  BaseInv'
<1>1. /\ pc = "refresh" /\ f \in todo /\ Exists(f) /\ todo' = todo \ {f}
      /\ UNCHANGED <<world, files, clock, suite, header, cache, pc, reading, excluded, wrote,
                     undisturbed>>
  BY DEF StatKnown, disk
<1>2. /\ NameOf[f] \in DOMAIN modules /\ modules[NameOf[f]].mtime = files[f].mtime
      /\ DOMAIN modules' = DOMAIN modules
      /\ \A n \in DOMAIN modules :
           /\ modules'[n].mtime = modules[n].mtime /\ modules'[n].text = modules[n].text
           /\ modules'[n] \in Module
  BY StatKnownDoes, Tables DEF BaseInv
<1>3. reading = {} /\ \A n \in DOMAIN modules : modules[n].text \in Tested
  BY <1>1, NoneRead
<1>4. TypeOK'
  BY <1>1, <1>2, <1>3 DEF BaseInv, TypeOK, IsTable
<1>5. Pointed' /\ Reading' /\ Excluding'
  BY <1>1 DEF BaseInv, Pointed, Loading, Reading, Excluding, AfterDisable, AfterSuite,
              AfterHeader
<1>6. Timed'
  BY <1>1, <1>2 DEF BaseInv, Timed, Exists
<1>7. Fitting'
  BY <1>1, <1>2 DEF BaseInv, Fitting, Fits, Exists
<1>8. LookedAt'
  BY <1>1, <1>2 DEF BaseInv, LookedAt, Exists, Alone
<1> QED BY <1>4, <1>5, <1>6, <1>7, <1>8 DEF BaseInv

\* The mtime is noted before the file is read: until then the text may be the old one.
LEMMA StatNewKeepsBase ==
  ASSUME BaseInv, NEW f \in Files, StatNew(f)
  PROVE  BaseInv'
<1>1. /\ pc = "refresh" /\ f \in todo /\ Exists(f) /\ todo' = todo \ {f}
      /\ reading' = {f} /\ pc' = "read"
      /\ UNCHANGED <<world, files, clock, suite, header, cache, excluded, wrote, undisturbed>>
  BY DEF StatNew, disk
<1>2. /\ DOMAIN modules' = DOMAIN modules \cup {NameOf[f]}
      /\ modules'[NameOf[f]] \in Module /\ modules'[NameOf[f]].modified
      /\ modules'[NameOf[f]].mtime = files[f].mtime
      /\ \A n \in DOMAIN modules : n # NameOf[f] => modules'[n] = modules[n]
  BY StatNewDoes DEF BaseInv
<1>3. reading = {} /\ \A n \in DOMAIN modules : modules[n].text \in Tested
  BY <1>1, NoneRead
<1>4. TypeOK'
  <2>1. IsTable(modules', Module)
    BY <1>2, MixerAssumption DEF BaseInv, TypeOK, IsTable
  <2>2. \A n \in DOMAIN modules' : modules'[n].text \in Tested \/ n = NameOf[f]
    BY <1>2, <1>3
  <2> QED BY <1>1, <2>1, <2>2 DEF BaseInv, TypeOK, Points
<1>5. Pointed' /\ Excluding'
  BY <1>1 DEF BaseInv, Pointed, Loading, Excluding, AfterDisable, AfterSuite, AfterHeader
<1>6. Timed'
  BY <1>1, <1>2 DEF BaseInv, Timed, Exists
<1>7. \A g \in Files \ {f} : Exists(g) => files[g].mtime # files[f].mtime
  BY <1>1 DEF BaseInv, Timed
<1>8. Fitting'
  <2>1. Fits(cache.table, {})'
    BY <1>1 DEF BaseInv, Fitting, Fits, Exists
  <2>2. ASSUME NEW g \in Files \ {f}, Exists(g), NameOf[g] \in DOMAIN modules',
               modules'[NameOf[g]].mtime = files[g].mtime
        PROVE  modules'[NameOf[g]].text = files[g].text
    <3>1. NameOf[g] # NameOf[f]
      BY <1>2, <1>7, <2>2
    <3>2. NameOf[g] \in DOMAIN modules /\ modules'[NameOf[g]] = modules[NameOf[g]]
      BY <1>2, <2>2, <3>1
    <3> QED BY <1>1, <1>3, <2>2, <3>2 DEF BaseInv, Fitting, Fits
  <2> QED BY <1>1, <2>1, <2>2 DEF Fitting, Fits, Exists
<1>9. Reading'
  BY <1>1, <1>2, <1>7 DEF Reading, Reads, Exists
<1>10. LookedAt'
  BY <1>1, <1>2 DEF BaseInv, LookedAt, Exists, Alone
<1> QED BY <1>4, <1>5, <1>6, <1>8, <1>9, <1>10 DEF BaseInv

\* What is read is the text of the mtime that was noted, unless the file was edited in
\* between; then its mtime is another.
LEMMA ReadFileKeepsBase ==
  ASSUME BaseInv, NEW f \in Files, ReadFile(f)
  PROVE  BaseInv'
<1>1. /\ pc = "read" /\ f \in reading /\ reading' = {} /\ pc' = "refresh"
      /\ UNCHANGED <<world, files, clock, suite, header, cache, todo, excluded, wrote,
                     undisturbed>>
  BY DEF ReadFile, disk
<1>2. Reads(f)
  BY <1>1 DEF BaseInv, Reading, Reads
<1>3. NameOf[f] \in DOMAIN modules /\ reading = {f}
  BY <1>2 DEF Reads
<1>4. /\ DOMAIN modules' \subseteq DOMAIN modules
      /\ \A n \in DOMAIN modules : n # NameOf[f] => n \in DOMAIN modules' /\ modules'[n] = modules[n]
      /\ \A n \in DOMAIN modules' : /\ modules'[n] \in Module
                                    /\ modules'[n].mtime = modules[n].mtime
      /\ NameOf[f] \in DOMAIN modules' => modules'[NameOf[f]].text = files[f].text
      /\ files[f].text \in Tested <=> NameOf[f] \in DOMAIN modules'
  <2>1. CASE files[f].text \in Tested
    BY <1>3, <2>1, ReadFileDoes, Tables DEF BaseInv
  <2>2. CASE files[f].text \notin Tested
    <3>1. /\ DOMAIN modules' = DOMAIN modules \ {NameOf[f]}
          /\ \A n \in DOMAIN modules : n # NameOf[f] => modules'[n] = modules[n]
      BY <2>2, Deleting DEF ReadFile
    <3> QED BY <2>2, <3>1, Tables DEF BaseInv
  <2> QED BY <2>1, <2>2
<1>5. TypeOK'
  <2>1. IsTable(modules', Module)
    BY <1>4, Tables DEF BaseInv, IsTable
  <2>2. \A n \in DOMAIN modules : modules[n].text \in Tested \/ n = NameOf[f]
    BY <1>3 DEF BaseInv, TypeOK
  <2>3. \A n \in DOMAIN modules' : modules'[n].text \in Tested
    BY <1>4, <2>2
  <2> QED BY <1>1, <2>1, <2>3 DEF BaseInv, TypeOK, Points
<1>6. Pointed' /\ Reading' /\ Excluding'
  BY <1>1 DEF BaseInv, Pointed, Loading, Reading, Excluding, AfterDisable, AfterSuite,
              AfterHeader
<1>7. Timed'
  BY <1>1, <1>4 DEF BaseInv, Timed, Exists
<1>8. Fitting'
  <2>1. Fits(cache.table, {})'
    BY <1>1 DEF BaseInv, Fitting, Fits, Exists
  <2>2. ASSUME NEW g \in Files, Exists(g), NameOf[g] \in DOMAIN modules',
               modules'[NameOf[g]].mtime = files[g].mtime
        PROVE  modules'[NameOf[g]].text = files[g].text
    <3>1. CASE g = f
      BY <1>4, <2>2, <3>1
    <3>2. CASE g # f
      <4>1. NameOf[g] # NameOf[f]
        BY <1>2, <1>4, <2>2, <3>2 DEF Reads
      <4>2. NameOf[g] \in DOMAIN modules /\ modules'[NameOf[g]] = modules[NameOf[g]]
        BY <1>4, <2>2, <4>1
      <4> QED BY <1>1, <1>3, <2>2, <3>2, <4>2 DEF BaseInv, Fitting, Fits
    <3> QED BY <3>1, <3>2
  <2> QED BY <1>1, <2>1, <2>2 DEF Fitting, Fits, Exists
<1>9. LookedAt'
  <2> SUFFICES ASSUME undisturbed
               PROVE  LookedAt'
    BY <1>1 DEF LookedAt
  <2>1. \A g \in todo \cup reading : Exists(g)
    BY <1>1 DEF BaseInv, LookedAt
  <2>2. ASSUME NEW g \in Files \ todo, files[g].text \in Tested, Alone(g)
        PROVE  NameOf[g] \in DOMAIN modules' /\ modules'[NameOf[g]].mtime = files[g].mtime
    <3>1. NameOf[g] \in DOMAIN modules /\ modules[NameOf[g]].mtime = files[g].mtime
      BY <1>1, <2>2 DEF BaseInv, LookedAt
    <3>2. CASE NameOf[f] = NameOf[g]
      <4>1. f = g
        BY <1>1, <2>1, <2>2, <3>2 DEF Alone
      <4> QED BY <1>4, <2>2, <3>1, <4>1
    <3>3. CASE NameOf[f] # NameOf[g]
      BY <1>4, <3>1, <3>3
    <3> QED BY <3>2, <3>3
  <2> QED BY <1>1, <2>1, <2>2 DEF LookedAt, Exists, Alone
<1> QED BY <1>5, <1>6, <1>7, <1>8, <1>9 DEF BaseInv

\* disable changes no text and no mtime, and marks what it disables.
LEMMA DisableKeepsBase ==
  ASSUME BaseInv, Disable
  PROVE  BaseInv'
<1>1. /\ pc = "disable" /\ pc' = "suite"
      /\ UNCHANGED <<world, files, clock, suite, header, cache, todo, reading, excluded, wrote,
                     undisturbed>>
  BY DEF Disable, disk
<1>2. /\ DOMAIN modules' = DOMAIN modules
      /\ \A n \in DOMAIN modules : /\ modules'[n] \in Module
                                   /\ modules'[n].mtime = modules[n].mtime
                                   /\ modules'[n].text = modules[n].text
      /\ \A n \in excluded \cap DOMAIN modules' :
           modules'[n].modified /\ ~modules'[n].enabled
  BY DisableDoes, Tables DEF BaseInv
<1>3. reading = {} /\ \A n \in DOMAIN modules : modules[n].text \in Tested
  BY <1>1, NoneRead
<1>4. TypeOK'
  BY <1>1, <1>2, <1>3 DEF BaseInv, TypeOK, Points, IsTable
<1>5. Pointed' /\ Reading'
  BY <1>1 DEF BaseInv, Pointed, Loading, Reading
<1>6. Timed'
  BY <1>1, <1>2 DEF BaseInv, Timed, Exists
<1>7. Fitting'
  BY <1>1, <1>2 DEF BaseInv, Fitting, Fits, Exists
<1>8. LookedAt'
  BY <1>1, <1>2 DEF BaseInv, LookedAt, Exists, Alone
<1>9. Excluding'
  BY <1>1, <1>2 DEF Excluding, AfterSuite, AfterHeader
<1> QED BY <1>4, <1>5, <1>6, <1>7, <1>8, <1>9 DEF BaseInv

\* What the writes put on disk.
LEMMA OutputTypes ==
  ASSUME BaseInv, pc \in AfterDisable
  PROVE  /\ IsOutput(Suite, Entry) /\ IsOutput(Header, Tested)
         /\ IsOutput(Whole(modules), Module)
         /\ \A n \in DOMAIN modules : modules[n].text \in Tested
<1>1. \A n \in DOMAIN modules : modules[n].text \in Tested
  BY NoneRead
<1>2. \A n \in DOMAIN modules : n \in Names /\ modules[n] \in Module
  BY Tables DEF BaseInv
<1>3. \A n \in DOMAIN modules : modules[n].enabled \in BOOLEAN
  BY <1>2, ModuleFields
<1>4. IsOutput(Suite, Entry)
  BY <1>1, <1>2, <1>3 DEF Suite, Entry, IsOutput, IsTable, Whole
<1>5. IsOutput(Header, Tested)
  BY <1>1, <1>2 DEF Header, IsOutput, IsTable, Whole
<1>6. IsOutput(Whole(modules), Module)
  BY <1>2 DEF IsOutput, IsTable, Whole
<1> QED BY <1>1, <1>4, <1>5, <1>6

\* A write leaves files and modules as they are, and each output as it was, truncated or
\* as the modules say.
LEMMA WriteDoes ==
  ASSUME Write
  PROVE  /\ UNCHANGED <<world, files, clock, modules, todo, reading, excluded, undisturbed>>
         /\ suite' \in {suite, Truncated, Suite} /\ header' \in {header, Truncated, Header}
         /\ cache' \in {cache, Truncated, Whole(modules)}
         /\ pc \in AfterDisable /\ pc' \in AfterDisable \ {"suite"}
         /\ pc # "cache_open" => cache' \in {cache, Truncated}
         /\ wrote' \in {wrote, TRUE}
BY DEF Write, KeepSuite, OpenSuite, WriteSuite, KeepHeader, OpenHeader, WriteHeader,
       OpenCache, SaveCache, disk, run, AfterDisable, AfterSuite, AfterHeader

LEMMA WriteKeepsBase ==
  ASSUME BaseInv, Write
  PROVE  BaseInv'
<1>1. /\ UNCHANGED <<world, files, clock, modules, todo, reading, excluded, undisturbed>>
      /\ suite' \in {suite, Truncated, Suite} /\ header' \in {header, Truncated, Header}
      /\ cache' \in {cache, Truncated, Whole(modules)}
      /\ pc \in AfterDisable /\ pc' \in AfterDisable \ {"suite"}
      /\ wrote' \in {wrote, TRUE}
  BY WriteDoes
<1>2. reading = {} /\ todo = {}
  BY <1>1 DEF BaseInv, Pointed, AfterDisable, AfterSuite, AfterHeader, Loading
<1>3. /\ IsOutput(suite', Entry) /\ IsOutput(header', Tested) /\ IsOutput(cache', Module)
  BY <1>1, OutputTypes DEF BaseInv, TypeOK, IsOutput
<1>4. TypeOK'
  <2>1. pc' \in Points
    BY <1>1 DEF AfterDisable, AfterSuite, AfterHeader, Points
  <2>2. IsTable(modules', Module) /\ IsOutput(suite, Entry)' /\ IsOutput(header, Tested)'
          /\ IsOutput(cache, Module)'
    BY <1>1, <1>3 DEF BaseInv, TypeOK, IsTable, IsOutput
  <2> QED BY <1>1, <2>1, <2>2 DEF BaseInv, TypeOK
<1>5. \/ cache'.table = cache.table
      \/ DOMAIN cache'.table = {}
      \/ cache'.table = modules
  BY <1>1 DEF Truncated, Whole
<1>6. Pointed'
  BY <1>1, <1>2, <1>5, OutputTypes DEF BaseInv, Pointed
<1>7. Timed'
  BY <1>1, <1>5 DEF BaseInv, Timed, Exists
<1>8. Fitting'
  BY <1>1, <1>2, <1>5 DEF BaseInv, Fitting, Fits, Exists, AfterDisable, AfterSuite, AfterHeader
<1>9. Reading' /\ LookedAt'
  BY <1>1, <1>2 DEF BaseInv, Reading, LookedAt, Exists, Alone, AfterDisable, AfterSuite,
                    AfterHeader
<1>10. Excluding'
  <2>1. /\ \A n \in excluded \cap DOMAIN modules : modules[n].modified /\ ~modules[n].enabled
        /\ Suite' = Suite
    BY <1>1 DEF BaseInv, Excluding, Suite
  <2>2. ASSUME excluded \cap DOMAIN modules # {}, pc' \in AfterSuite
        PROVE  suite' = Suite
    <3>1. maybe_generate(suite)
      BY <2>1, <2>2 DEF maybe_generate
    <3>2. CASE pc \in AfterSuite
      <4>1. suite' = suite
        BY <3>2 DEF Write, KeepSuite, OpenSuite, WriteSuite, KeepHeader, OpenHeader,
                    WriteHeader, OpenCache, SaveCache, AfterSuite, AfterHeader
      <4> QED BY <2>2, <3>2, <4>1 DEF BaseInv, Excluding
    <3>3. CASE KeepSuite
      BY <3>1, <3>3 DEF KeepSuite, Rewrites
    <3>4. CASE WriteSuite
      BY <3>4 DEF WriteSuite
    <3>5. CASE OpenSuite
      BY <2>2, <3>5 DEF OpenSuite, AfterSuite, AfterHeader
    <3> QED BY <3>2, <3>3, <3>4, <3>5 DEF Write, KeepHeader, OpenHeader, WriteHeader,
                                          OpenCache, SaveCache, AfterSuite, AfterHeader
  <2> QED BY <1>1, <2>1, <2>2 DEF Excluding
<1> QED BY <1>4, <1>6, <1>7, <1>8, <1>9, <1>10 DEF BaseInv

LEMMA LoadedKeepsBase ==
  ASSUME BaseInv, Loaded
  PROVE  BaseInv'
<1>1. /\ pc = "refresh" /\ todo = {} /\ pc' = "disable"
      /\ UNCHANGED <<world, files, clock, suite, header, cache, modules, todo, reading,
                     excluded, wrote, undisturbed>>
  BY DEF Loaded, disk, run
<1>2. reading = {}
  BY <1>1, NoneRead
<1>3. TypeOK'
  BY <1>1 DEF BaseInv, TypeOK, Points
<1>4. Pointed' /\ Timed' /\ Reading'
  BY <1>1, <1>2 DEF BaseInv, Pointed, Timed, Reading, Exists
<1>5. Fitting' /\ LookedAt'
  BY <1>1 DEF BaseInv, Fitting, Fits, LookedAt, Exists, Alone
<1>6. Excluding'
  BY <1>1 DEF Excluding, AfterDisable, AfterSuite, AfterHeader
<1> QED BY <1>3, <1>4, <1>5, <1>6 DEF BaseInv

\* A step that changes nothing.
LEMMA StutterKeepsBase ==
  ASSUME BaseInv, UNCHANGED vars
  PROVE  BaseInv'
<1>1. UNCHANGED <<world, files, clock, suite, header, cache, pc, modules, todo, reading,
                  excluded, wrote, undisturbed>>
  BY DEF vars, disk, run
<1>2. TypeOK' /\ Pointed' /\ Timed'
  BY <1>1 DEF BaseInv, TypeOK, Pointed, Timed, Exists
<1>3. Fitting' /\ Reading' /\ LookedAt'
  BY <1>1 DEF BaseInv, Fitting, Fits, Reading, Reads, LookedAt, Exists, Alone
<1>4. Excluding'
  BY <1>1 DEF BaseInv, Excluding, Suite
<1> QED BY <1>2, <1>3, <1>4 DEF BaseInv

LEMMA BaseInitially == Init => BaseInv
<1> SUFFICES ASSUME Init PROVE BaseInv
  OBVIOUS
<1>1. /\ world \in Worlds /\ files = [f \in Files |-> no_file] /\ clock = 0
      /\ suite = Absent /\ header = Absent /\ cache = Absent
      /\ pc = "idle" /\ modules = <<>> /\ todo = {} /\ reading = {}
      /\ excluded = {} /\ wrote = FALSE /\ undisturbed = FALSE
  BY DEF Init
<1>2. DOMAIN modules = {} /\ DOMAIN cache.table = {}
  BY <1>1 DEF Absent
<1>3. no_file \in [text: Text, mtime: 0..MaxTime] /\ no_file.mtime = 0 /\ 0 \in 0..MaxTime
  BY MixerAssumption DEF no_file, Text
<1>4. TypeOK
  <2>1. IsOutput(suite, Entry) /\ IsOutput(header, Tested) /\ IsOutput(cache, Module)
    BY <1>1 DEF IsOutput
  <2>2. IsTable(modules, Module) /\ \A n \in DOMAIN modules : FALSE
    BY <1>2 DEF IsTable
  <2> QED BY <1>1, <1>3, <2>1, <2>2 DEF TypeOK, Points
<1>5. Pointed /\ Reading /\ LookedAt /\ Excluding
  BY <1>1, <1>2 DEF Pointed, Reading, LookedAt, Excluding, AfterDisable, AfterSuite,
                    AfterHeader
<1>6. Timed /\ Fitting
  BY <1>1, <1>2, <1>3 DEF Timed, Fitting, Fits, Exists
<1> QED BY <1>4, <1>5, <1>6 DEF BaseInv

LEMMA NextKeepsBase ==
  ASSUME BaseInv, [Next]_vars
  PROVE  BaseInv'
<1>1. ASSUME NEW f \in Files, NEW text \in Text, Edit(f, text) PROVE BaseInv'
  BY <1>1, EditKeepsBase
<1>2. ASSUME NEW f \in Files, Remove(f) PROVE BaseInv'
  BY <1>2, RemoveKeepsBase
<1>3. CASE Crash
  BY <1>3, CrashKeepsBase
<1>4. ASSUME NEW force \in BOOLEAN, NEW exclude \in world.excludes, Start(force, exclude)
      PROVE  BaseInv'
  BY <1>4, StartKeepsBase
<1>5. ASSUME NEW f \in Files, StatFails(f) \/ StatKnown(f) \/ StatNew(f) \/ ReadFile(f)
      PROVE  BaseInv'
  BY <1>5, StatFailsKeepsBase, StatKnownKeepsBase, StatNewKeepsBase, ReadFileKeepsBase
<1>6. CASE Loaded
  BY <1>6, LoadedKeepsBase
<1>7. CASE Disable
  BY <1>7, DisableKeepsBase
<1>8. CASE Write
  BY <1>8, WriteKeepsBase
<1>9. CASE UNCHANGED vars
  BY <1>9, StutterKeepsBase
<1> QED BY <1>1, <1>2, <1>3, <1>4, <1>5, <1>6, <1>7, <1>8, <1>9 DEF Next, Around, Load

\* Whatever happens around the mixer, the times and texts it knows fit the files: BaseInv
\* is an invariant, and inductive.
THEOREM MixerBaseInvariant == Spec => []BaseInv
<1>1. Init => BaseInv
  BY BaseInitially
<1>2. BaseInv /\ [Next]_vars => BaseInv'
  BY NextKeepsBase
<1> QED BY <1>1, <1>2, PTL DEF Spec

\* The types of the mixer's state, for every set of files, names, functions and worlds:
\* among the modules of a run only the one whose file is being read has no test
\* (generate.py:204-209, a module without a test is deleted).
THEOREM MixerTypeCorrect == Spec => []TypeOK
<1>1. BaseInv => TypeOK
  BY DEF BaseInv
<1> QED BY <1>1, MixerBaseInvariant, PTL

\* The modules that -x matches are disabled in the clar.suite a run ends with, whatever the
\* runs before it left behind, kills and removed files included: disable marks them, so
\* the suite is compared with what it should be, and written if it differs
\* (generate.py:211-217, 237-255).
THEOREM ExclusionsAreObeyed == Spec => []ObeysExcludes
<1>1. BaseInv => ObeysExcludes
  <2> SUFFICES ASSUME BaseInv, pc = "done", NEW n \in excluded \cap DOMAIN modules
               PROVE  n \in DOMAIN suite.table /\ ~suite.table[n].enabled
    BY DEF ObeysExcludes
  <2>1. suite = Suite /\ ~modules[n].enabled
    BY DEF BaseInv, Excluding, AfterDisable, AfterSuite, AfterHeader
  <2> QED BY <2>1 DEF Suite, Whole
<1> QED BY <1>1, MixerBaseInvariant, PTL

--------------------------------------------------------------------------------
(* Each action keeps FinishingInv: no run is killed *)

\* A module that a step of the load leaves alone is in the outputs, or marked, as before.
LEMMA Unmoved ==
  ASSUME NEW n, modules'[n] = modules[n], suite' = suite, header' = header,
         files' = files, todo' \subseteq todo
  PROVE  /\ InSuite(modules, n) => InSuite(modules, n)'
         /\ InHeader(modules, n) => InHeader(modules, n)'
         /\ Marked(n) => Marked(n)'
BY DEF InSuite, InHeader, Marked, Exists

\* An edit or a removal takes no mark away.
LEMMA AroundKeepsMarks ==
  ASSUME BaseInv, NEW f \in Files, NEW n \in DOMAIN modules, Marked(n),
         Remove(f) \/ \E text \in Text : Edit(f, text)
  PROVE  Marked(n)'
<1>1. modules' = modules /\ todo' = todo
  BY DEF Remove, Edit, run
<1>2. \A g \in Files : g # f => files'[g] = files[g]
  BY DEF Remove, Edit, BaseInv, TypeOK
<1>3. CASE Remove(f)
  <2>1. files'[f].mtime = 0
    BY <1>3 DEF Remove, BaseInv, TypeOK, no_file
  <2> QED BY <1>1, <1>2, <2>1 DEF Marked, Exists, BaseInv, TypeOK
<1>4. CASE \E text \in Text : Edit(f, text)
  <2>1. files'[f].mtime = clock + 1
    BY <1>4 DEF Edit, BaseInv, TypeOK
  <2>2. modules[n].mtime # clock + 1
    BY Tables DEF BaseInv, Timed
  <2> QED BY <1>1, <1>2, <2>1, <2>2 DEF Marked, Exists, BaseInv, TypeOK
<1> QED BY <1>3, <1>4

LEMMA AroundKeepsFinishing ==
  ASSUME BaseInv, FinishingInv, ~world.kills, Around
  PROVE  CacheListed' /\ ModulesListed'
<1>1. PICK f \in Files : Remove(f) \/ \E text \in Text : Edit(f, text)
  BY DEF Around, Crash
<1>2. UNCHANGED <<suite, header, cache, pc, modules, wrote>>
  BY <1>1 DEF Remove, Edit, run
<1>3. CacheListed'
  BY <1>2 DEF FinishingInv, CacheListed, InSuite, InHeader
<1>4. ASSUME NEW n \in DOMAIN modules
      PROVE  /\ InSuite(modules, n) => InSuite(modules, n)'
             /\ InHeader(modules, n) => InHeader(modules, n)'
             /\ Marked(n) => Marked(n)'
  BY <1>1, <1>2, AroundKeepsMarks DEF InSuite, InHeader
<1>5. ModulesListed'
  BY <1>2, <1>4 DEF FinishingInv, ModulesListed
<1> QED BY <1>3, <1>5

\* The modules of the cache are in the outputs when a run begins.
LEMMA StartKeepsFinishing ==
  ASSUME FinishingInv, ~world.kills, NEW force, NEW exclude, Start(force, exclude)
  PROVE  CacheListed' /\ ModulesListed'
<1>1. pc \in {"idle", "done"} /\ pc' = "refresh" /\ UNCHANGED <<suite, header, cache>>
  BY DEF Start
<1>2. modules' = cache.table \/ DOMAIN modules' = {}
  BY DEF Start
<1>3. \A n \in DOMAIN cache.table : InSuite(cache.table, n) /\ InHeader(cache.table, n)
  BY <1>1 DEF FinishingInv, CacheListed
<1>4. CacheListed'
  BY <1>1, <1>3 DEF CacheListed, InSuite, InHeader
<1>5. ModulesListed'
  BY <1>1, <1>2, <1>3 DEF ModulesListed, InSuite, InHeader, AfterSuite, AfterHeader
<1> QED BY <1>4, <1>5

\* A step of the load leaves each module in the outputs, or marks it.
LEMMA LoadKeepsFinishing ==
  ASSUME BaseInv, FinishingInv, ~world.kills, NEW f \in Files,
         StatFails(f) \/ StatKnown(f) \/ StatNew(f) \/ ReadFile(f)
  PROVE  CacheListed' /\ ModulesListed'
<1>1. /\ pc \in Loading /\ pc' \in Loading /\ todo' \subseteq todo
      /\ UNCHANGED <<files, suite, header, cache, wrote>>
  BY DEF StatFails, StatKnown, StatNew, ReadFile, Loading, disk
<1>2. CacheListed'
  BY <1>1 DEF FinishingInv, CacheListed, InSuite, InHeader, BeforeSuite
<1>3. \A n \in DOMAIN modules : /\ InSuite(modules, n) \/ Marked(n)
                                /\ InHeader(modules, n) \/ Marked(n)
  BY <1>1 DEF FinishingInv, ModulesListed, BeforeSuite, BeforeHeader
<1> DEFINE Listed(n) == /\ InSuite(modules, n) \/ Marked(n)
                        /\ InHeader(modules, n) \/ Marked(n)
<1>4. ASSUME \A n \in DOMAIN modules' : Listed(n)'
      PROVE  ModulesListed'
  BY <1>1, <1>4 DEF ModulesListed, Loading, AfterSuite, AfterHeader
<1>5. ASSUME NEW n \in DOMAIN modules, modules'[n] = modules[n]
      PROVE  Listed(n)'
  BY <1>1, <1>3, <1>5, Unmoved
<1> HIDE DEF Listed
<1>6. CASE StatFails(f)
  <2>1. \A n \in DOMAIN modules' : n \in DOMAIN modules /\ modules'[n] = modules[n]
    BY <1>6, Deleting DEF StatFails
  <2> QED BY <1>2, <1>4, <1>5, <2>1
<1>7. CASE StatKnown(f)
  <2>1. Listed(NameOf[f])'
    <3>1. /\ NameOf[f] \in DOMAIN modules /\ modules[NameOf[f]].mtime = files[f].mtime
          /\ modules'[NameOf[f]].text = modules[NameOf[f]].text
          /\ modules'[NameOf[f]].enabled = modules[NameOf[f]].enabled
      BY <1>7, StatKnownDoes DEF BaseInv
    <3>2. ~Marked(NameOf[f])
      BY <1>7, <3>1 DEF Marked, StatKnown
    <3> QED BY <1>1, <1>3, <3>1, <3>2 DEF Listed, InSuite, InHeader
  <2>2. \A n \in DOMAIN modules' : n # NameOf[f] => n \in DOMAIN modules /\ modules'[n] = modules[n]
    BY <1>7, StatKnownDoes DEF BaseInv
  <2> QED BY <1>2, <1>4, <1>5, <2>1, <2>2
<1>8. CASE StatNew(f)
  <2>1. Listed(NameOf[f])'
    <3>1. /\ modules'[NameOf[f]].modified /\ modules'[NameOf[f]].mtime = files[f].mtime
          /\ todo' = todo \ {f} /\ Exists(f)
      BY <1>8, StatNewDoes DEF BaseInv, StatNew
    <3>2. \A g \in todo' : Exists(g) => files[g].mtime # files[f].mtime
      BY <3>1 DEF BaseInv, Timed, TypeOK
    <3> QED BY <1>1, <3>1, <3>2 DEF Listed, Marked, Exists
  <2>2. \A n \in DOMAIN modules' : n # NameOf[f] => n \in DOMAIN modules /\ modules'[n] = modules[n]
    BY <1>8, StatNewDoes DEF BaseInv
  <2> QED BY <1>2, <1>4, <1>5, <2>1, <2>2
<1>9. CASE ReadFile(f)
  <2>1. Reads(f) /\ todo' = todo
    BY <1>9 DEF BaseInv, Reading, Reads, ReadFile
  <2>2. CASE files[f].text \in Tested
    <3>1. Listed(NameOf[f])'
      <4>1. /\ modules'[NameOf[f]].modified
            /\ modules'[NameOf[f]].mtime = modules[NameOf[f]].mtime
        BY <1>9, <2>1, <2>2, ReadFileDoes DEF BaseInv, Reads
      <4>2. \A g \in todo' : Exists(g) /\ NameOf[g] = NameOf[f] =>
                               files[g].mtime # modules[NameOf[f]].mtime
        BY <2>1 DEF Reads, BaseInv, TypeOK
      <4> QED BY <1>1, <4>1, <4>2 DEF Listed, Marked, Exists
    <3>2. \A n \in DOMAIN modules' : n # NameOf[f] => n \in DOMAIN modules /\ modules'[n] = modules[n]
      BY <1>9, <2>1, <2>2, ReadFileDoes DEF BaseInv, Reads
    <3> QED BY <1>2, <1>4, <1>5, <3>1, <3>2
  <2>3. CASE files[f].text \notin Tested
    <3>1. \A n \in DOMAIN modules' : n \in DOMAIN modules /\ modules'[n] = modules[n]
      BY <1>9, <2>3, Deleting DEF ReadFile
    <3> QED BY <1>2, <1>4, <1>5, <3>1
  <2> QED BY <2>2, <2>3
<1> QED BY <1>6, <1>7, <1>8, <1>9

\* disable marks what it changes.
LEMMA DisableKeepsFinishing ==
  ASSUME BaseInv, FinishingInv, ~world.kills, Disable
  PROVE  CacheListed' /\ ModulesListed'
<1>1. /\ pc = "disable" /\ pc' = "suite" /\ todo' = {}
      /\ UNCHANGED <<files, suite, header, cache, wrote>>
  BY DEF Disable, disk, BaseInv, Pointed, Loading
<1>2. CacheListed'
  BY <1>1 DEF FinishingInv, CacheListed, InSuite, InHeader, BeforeSuite
<1>3. ASSUME NEW n \in DOMAIN modules'
      PROVE  /\ InSuite(modules, n)' \/ Marked(n)'
             /\ InHeader(modules, n)' \/ Marked(n)'
  <2>1. CASE n \in excluded
    BY <1>1, <2>1, DisableDoes DEF BaseInv, Marked
  <2>2. CASE n \notin excluded
    <3>1. n \in DOMAIN modules /\ modules'[n] = modules[n]
      BY <2>2, DisableDoes DEF BaseInv
    <3>2. /\ InSuite(modules, n) \/ Marked(n)
          /\ InHeader(modules, n) \/ Marked(n)
      BY <1>1, <3>1 DEF FinishingInv, ModulesListed, BeforeSuite, BeforeHeader
    <3> QED BY <1>1, <3>1, <3>2, Unmoved
  <2> QED BY <2>1, <2>2
<1> QED BY <1>1, <1>2, <1>3 DEF ModulesListed, AfterSuite, AfterHeader

\* An output that is not rewritten has all modules in it, or is what it should be.
LEMMA KeptOutputs ==
  ASSUME BaseInv, FinishingInv, ~world.kills
  PROVE  /\ KeepSuite => \A n \in DOMAIN modules : InSuite(modules, n)
         /\ KeepHeader => \A n \in DOMAIN modules : InHeader(modules, n)
<1>1. /\ suite = Suite => \A n \in DOMAIN modules : InSuite(modules, n)
      /\ header = Header => \A n \in DOMAIN modules : InHeader(modules, n)
  BY DEF Suite, Header, Whole, InSuite, InHeader
<1>2. ASSUME KeepSuite, NEW n \in DOMAIN modules
      PROVE  InSuite(modules, n)
  <2>1. InSuite(modules, n) \/ Marked(n)
    BY <1>2 DEF KeepSuite, FinishingInv, ModulesListed, BeforeSuite
  <2> QED BY <1>1, <1>2, <2>1 DEF KeepSuite, Rewrites, maybe_generate, Marked
<1>3. ASSUME KeepHeader, NEW n \in DOMAIN modules
      PROVE  InHeader(modules, n)
  <2>1. InHeader(modules, n) \/ Marked(n)
    BY <1>3 DEF KeepHeader, FinishingInv, ModulesListed, BeforeHeader
  <2> QED BY <1>1, <1>3, <2>1 DEF KeepHeader, Rewrites, maybe_generate, Marked
<1> QED BY <1>2, <1>3

\* What was written has all modules in it; the cache is saved when both outputs have.
LEMMA WriteKeepsFinishing ==
  ASSUME BaseInv, FinishingInv, ~world.kills, Write
  PROVE  CacheListed' /\ ModulesListed'
<1> USE DEF BeforeSuite, BeforeHeader, Loading, AfterSuite, AfterHeader
<1>1. UNCHANGED <<files, modules, todo>>
  BY WriteDoes
<1>2. \A n \in DOMAIN modules : /\ Marked(n)' <=> Marked(n)
                                /\ suite' = suite => (InSuite(modules, n)' <=> InSuite(modules, n))
                                /\ header' = header => (InHeader(modules, n)' <=> InHeader(modules, n))
  BY <1>1 DEF Marked, InSuite, InHeader, Exists
<1>3. /\ suite' = Suite => \A n \in DOMAIN modules : InSuite(modules, n)'
      /\ header' = Header => \A n \in DOMAIN modules : InHeader(modules, n)'
  BY <1>1 DEF Suite, Header, Whole, InSuite, InHeader
<1>4. ASSUME UNCHANGED <<suite, header, cache>>,
             \A n \in DOMAIN cache.table : InSuite(cache.table, n) /\ InHeader(cache.table, n)
      PROVE  CacheListed'
  BY <1>4 DEF CacheListed, InSuite, InHeader
<1>5. CASE KeepSuite
  <2>1. pc = "suite" /\ pc' = "header" /\ UNCHANGED <<suite, header, cache>>
    BY <1>5 DEF KeepSuite
  <2>2. CacheListed'
    BY <1>4, <2>1 DEF FinishingInv, CacheListed
  <2>3. ModulesListed'
    BY <1>1, <1>2, <1>5, <2>1, KeptOutputs DEF FinishingInv, ModulesListed
  <2> QED BY <2>2, <2>3
<1>6. CASE OpenSuite
  <2>1. pc = "suite" /\ pc' = "suite_open" /\ header' = header
    BY <1>6 DEF OpenSuite
  <2> QED BY <1>1, <1>2, <2>1 DEF FinishingInv, CacheListed, ModulesListed
<1>7. CASE WriteSuite
  <2>1. pc = "suite_open" /\ pc' = "header" /\ suite' = Suite /\ header' = header /\ wrote'
    BY <1>7 DEF WriteSuite
  <2> QED BY <1>1, <1>2, <1>3, <2>1 DEF FinishingInv, CacheListed, ModulesListed
<1>8. CASE KeepHeader
  <2>1. /\ pc = "header" /\ pc' = (IF wrote THEN "cache" ELSE "done")
        /\ UNCHANGED <<suite, header, cache, wrote>>
    BY <1>8 DEF KeepHeader, run
  <2>2. CacheListed'
    <3>1. CASE wrote
      BY <2>1, <3>1 DEF CacheListed
    <3>2. CASE ~wrote
      BY <1>4, <2>1, <3>2 DEF FinishingInv, CacheListed
    <3> QED BY <3>1, <3>2
  <2>3. pc' \in {"cache", "done"}
    BY <2>1
  <2>4. ModulesListed'
    BY <1>1, <1>2, <1>8, <2>1, <2>3, KeptOutputs DEF FinishingInv, ModulesListed
  <2> QED BY <2>2, <2>4
<1>9. CASE OpenHeader
  <2>1. pc = "header" /\ pc' = "header_open" /\ suite' = suite
    BY <1>9 DEF OpenHeader
  <2> QED BY <1>1, <1>2, <2>1 DEF FinishingInv, CacheListed, ModulesListed
<1>10. CASE WriteHeader
  <2>1. pc = "header_open" /\ pc' = "cache" /\ suite' = suite /\ header' = Header
    BY <1>10 DEF WriteHeader
  <2> QED BY <1>1, <1>2, <1>3, <2>1 DEF FinishingInv, CacheListed, ModulesListed
<1>11. CASE OpenCache
  <2>1. pc = "cache" /\ pc' = "cache_open" /\ suite' = suite /\ header' = header
    BY <1>11 DEF OpenCache
  <2> QED BY <1>1, <1>2, <2>1 DEF FinishingInv, CacheListed, ModulesListed
<1>12. CASE SaveCache
  <2>1. /\ pc = "cache_open" /\ pc' = "done" /\ UNCHANGED <<suite, header>>
        /\ cache'.table = modules
    BY <1>12 DEF SaveCache, Whole
  <2>2. \A n \in DOMAIN modules : InSuite(modules, n) /\ InHeader(modules, n)
    BY <2>1 DEF FinishingInv, ModulesListed
  <2> QED BY <1>1, <1>2, <2>1, <2>2 DEF CacheListed, ModulesListed, InSuite, InHeader
<1> QED BY <1>5, <1>6, <1>7, <1>8, <1>9, <1>10, <1>11, <1>12 DEF Write

LEMMA NextKeepsFinishing ==
  ASSUME BaseInv, FinishingInv, [Next]_vars
  PROVE  FinishingInv'
<1>1. world' = world
  BY DEF Next, Around, Load, Write, Edit, Remove, Crash, Start, StatFails, StatKnown, StatNew,
         ReadFile, Loaded, Disable, KeepSuite, OpenSuite, WriteSuite, KeepHeader, OpenHeader,
         WriteHeader, OpenCache, SaveCache, vars, disk
<1> SUFFICES ASSUME ~world.kills
             PROVE  CacheListed' /\ ModulesListed'
  BY <1>1 DEF FinishingInv
<1>2. CASE Around
  BY <1>2, AroundKeepsFinishing
<1>3. ASSUME NEW force, NEW exclude, Start(force, exclude)
      PROVE  CacheListed' /\ ModulesListed'
  BY <1>3, StartKeepsFinishing
<1>4. ASSUME NEW f \in Files, StatFails(f) \/ StatKnown(f) \/ StatNew(f) \/ ReadFile(f)
      PROVE  CacheListed' /\ ModulesListed'
  BY <1>4, LoadKeepsFinishing
<1>5. CASE Loaded
  <2>1. /\ pc = "refresh" /\ pc' = "disable"
        /\ UNCHANGED <<files, suite, header, cache, modules, todo, wrote>>
    BY <1>5 DEF Loaded, disk, run
  <2>2. \A n \in DOMAIN modules : Marked(n)' <=> Marked(n)
    BY <2>1 DEF Marked, Exists
  <2> QED BY <2>1, <2>2 DEF FinishingInv, CacheListed, ModulesListed, InSuite, InHeader,
                            BeforeSuite, BeforeHeader, Loading, AfterSuite, AfterHeader
<1>6. CASE Disable
  BY <1>6, DisableKeepsFinishing
<1>7. CASE Write
  BY <1>7, WriteKeepsFinishing
<1>8. CASE UNCHANGED vars
  <2>1. UNCHANGED <<files, suite, header, cache, pc, modules, todo, wrote>>
    BY <1>8 DEF vars, disk, run
  <2>2. \A n \in DOMAIN modules : Marked(n)' <=> Marked(n)
    BY <2>1 DEF Marked, Exists
  <2> QED BY <2>1, <2>2 DEF FinishingInv, CacheListed, ModulesListed, InSuite, InHeader
<1> QED BY <1>2, <1>3, <1>4, <1>5, <1>6, <1>7, <1>8 DEF Next, Load

--------------------------------------------------------------------------------
(* Each action keeps KilledInv: runs are killed, files keep their tests, and -x *)
(* stays the same                                                               *)

\* In such a world no file shrinks, and all runs have the same -x options.
LEMMA KillsAloneSays ==
  ASSUME KillsAlone, BaseInv, world.kills
  PROVE  ~world.shrinks /\ \A x \in world.excludes : x = Always
<1>1. ~world.shrinks /\ \A x, y \in world.excludes : x = y
  BY DEF KillsAlone, BaseInv, TypeOK
<1>2. ASSUME NEW x \in world.excludes
      PROVE  x = Always
  BY <1>1, <1>2 DEF Always
<1> QED BY <1>1, <1>2

\* Whether the cache is current is a matter of the disk.
LEMMA OnDisk ==
  ASSUME UNCHANGED <<world, files, suite, header, cache>>
  PROVE  /\ Stale' <=> Stale
         /\ CacheCurrent' <=> CacheCurrent
BY DEF Stale, CacheCurrent, Exists, Always, SuiteOf, HeaderOf

\* An edit makes the cache stale, and takes no mark away.
LEMMA EditKeepsKilled ==
  ASSUME KillsAlone, BaseInv, KilledInv, world.kills,
         NEW f \in Files, NEW text \in Text, Edit(f, text)
  PROVE  Kept' /\ CacheCurrent' /\ LoadsCache' /\ OutputsCurrent'
<1>1. /\ text \in Tested
      /\ files' = [files EXCEPT ![f] = [text |-> text, mtime |-> clock + 1]]
      /\ UNCHANGED <<world, suite, header, cache, pc, modules, todo, reading, excluded>>
  BY KillsAloneSays DEF Edit, run
<1>2. /\ files'[f].text = text /\ files'[f].mtime = clock + 1
      /\ \A g \in Files : g # f => files'[g] = files[g]
  BY <1>1 DEF BaseInv, TypeOK
<1>3. clock + 1 # 0 /\ clock \in Nat
  BY Tables DEF BaseInv
<1>4. Exists(f)' /\ \A g \in Files : Exists(g) => Exists(g)'
  BY <1>2, <1>3 DEF Exists
<1>5. /\ \A n \in DOMAIN cache.table : cache.table[n].mtime # clock + 1
      /\ \A n \in DOMAIN modules : modules[n].mtime # clock + 1
  BY Tables DEF BaseInv, Timed
<1>6. Kept'
  <2>1. todo \cup reading \subseteq Files
    BY DEF BaseInv, TypeOK
  <2>2. \A g \in Files : Exists(g)' => files'[g].text \in Tested
    BY <1>1, <1>2 DEF KilledInv, Kept, Exists
  <2> QED BY <1>1, <1>4, <2>1, <2>2 DEF KilledInv, Kept, Always
<1>7. Stale'
  BY <1>1, <1>2, <1>4, <1>5 DEF Stale
<1>8. CacheCurrent' /\ LoadsCache'
  BY <1>7 DEF CacheCurrent, LoadsCache
<1>9. WillMark => WillMark'
  <2>1. ASSUME NEW n \in DOMAIN modules, Marked(n)
        PROVE  Marked(n)'
    BY <2>1, AroundKeepsMarks
  <2>2. ASSUME NEW g \in todo, files[g].mtime # Known(NameOf[g]).mtime
        PROVE  files'[g].mtime # Known(NameOf[g])'.mtime
    <3>1. g \in Files /\ Known(NameOf[g])' = Known(NameOf[g])
      BY <1>1 DEF BaseInv, TypeOK, Known, New
    <3>2. Known(NameOf[f]).mtime # clock + 1
      BY <1>3, <1>5 DEF Known, New
    <3> QED BY <1>2, <2>2, <3>1, <3>2
  <2> QED BY <1>1, <2>1, <2>2 DEF WillMark
<1>10. OutputsCurrent'
  <2>1. Suite' = Suite /\ Header' = Header
    BY <1>1 DEF Suite, Header
  <2> QED BY <1>1, <1>9, <2>1 DEF KilledInv, OutputsCurrent
<1> QED BY <1>6, <1>8, <1>10

LEMMA CrashKeepsKilled ==
  ASSUME BaseInv, KilledInv, world.kills, Crash
  PROVE  Kept' /\ CacheCurrent' /\ LoadsCache' /\ OutputsCurrent'
<1>1. /\ pc' = "idle"
      /\ UNCHANGED <<world, files, suite, header, cache, modules, todo, reading, excluded>>
  BY DEF Crash, disk, run
<1>2. Kept'
  BY <1>1 DEF KilledInv, Kept, Exists, Always
<1>3. CacheCurrent'
  BY <1>1, OnDisk DEF KilledInv
<1>4. LoadsCache' /\ OutputsCurrent'
  BY <1>1 DEF LoadsCache, OutputsCurrent, BeforeSuite, BeforeHeader, Loading, AfterSuite,
              AfterHeader
<1> QED BY <1>2, <1>3, <1>4

\* If the cache is stale the run will mark a module; if not, the outputs are as it says.
LEMMA StartKeepsKilled ==
  ASSUME KillsAlone, BaseInv, KilledInv, world.kills,
         NEW force \in BOOLEAN, NEW exclude \in world.excludes, Start(force, exclude)
  PROVE  Kept' /\ CacheCurrent' /\ LoadsCache' /\ OutputsCurrent'
<1>1. /\ todo' = {f \in Files : Exists(f)} /\ reading' = {} /\ excluded' = Always
      /\ pc' = "refresh"
      /\ UNCHANGED <<world, files, suite, header, cache>>
  BY KillsAloneSays DEF Start, disk
<1>2. \/ DOMAIN modules' = {}
      \/ modules' = cache.table /\ cache.state # "truncated"
  BY DEF Start
<1>3. Kept'
  BY <1>1, <1>2 DEF KilledInv, Kept, Exists, Always
<1>4. CacheCurrent'
  BY <1>1, OnDisk DEF KilledInv
<1>5. LoadsCache'
  BY <1>1, <1>2, OnDisk DEF KilledInv, LoadsCache, Kept
<1>6. CASE DOMAIN modules' = {}
  BY <1>3, <1>4, <1>5, <1>6 DEF OutputsCurrent
<1>7. CASE modules' = cache.table /\ cache.state # "truncated"
  <2>1. Stale => WillMark'
    <3>1. ASSUME NEW f \in Files, Exists(f),
                 NameOf[f] \in DOMAIN cache.table => cache.table[NameOf[f]].mtime # files[f].mtime
          PROVE  WillMark'
      <4>1. f \in todo' /\ files'[f].mtime # Known(NameOf[f])'.mtime
        BY <1>1, <1>7, <3>1 DEF Known, New, Exists
      <4> QED BY <4>1 DEF WillMark
    <3>2. ASSUME Always \cap DOMAIN cache.table # {}
          PROVE  WillMark'
      BY <1>1, <1>7, <3>2 DEF WillMark, Loading
    <3> QED BY <1>7, <3>1, <3>2 DEF Stale
  <2>2. /\ suite = SuiteOf(cache.table) => suite' = Suite'
        /\ header = HeaderOf(cache.table) => header' = Header'
    BY <1>1, <1>7 DEF Suite, SuiteOf, Header, HeaderOf
  <2>3. OutputsCurrent'
    BY <1>1, <1>7, <2>1, <2>2 DEF KilledInv, CacheCurrent, OutputsCurrent, AfterSuite, AfterHeader
  <2> QED BY <1>3, <1>4, <1>5, <2>3
<1> QED BY <1>2, <1>6, <1>7

\* A module that a stat or a read marks goes by the mtime of its file alone.
LEMMA LoadMarks ==
  ASSUME BaseInv, NEW f \in Files, ReadFile(f) \/ StatNew(f),
         ReadFile(f) => files[f].text \in Tested
  PROVE  NameOf[f] \in DOMAIN modules' /\ Marked(NameOf[f])'
<1>1. CASE StatNew(f)
  <2>1. /\ NameOf[f] \in DOMAIN modules'
        /\ modules'[NameOf[f]].modified /\ modules'[NameOf[f]].mtime = files[f].mtime
        /\ todo' = todo \ {f} /\ Exists(f) /\ files' = files
    BY <1>1, StatNewDoes DEF BaseInv, StatNew, disk
  <2>2. \A g \in todo' : Exists(g) => files[g].mtime # files[f].mtime
    BY <2>1 DEF BaseInv, Timed, TypeOK
  <2> QED BY <2>1, <2>2 DEF Marked, Exists
<1>2. CASE ReadFile(f)
  <2>1. Reads(f) /\ todo' = todo /\ files' = files
    BY <1>2 DEF BaseInv, Reading, Reads, ReadFile, disk
  <2>2. /\ NameOf[f] \in DOMAIN modules' /\ modules'[NameOf[f]].modified
        /\ modules'[NameOf[f]].mtime = modules[NameOf[f]].mtime
    BY <1>2, <2>1, ReadFileDoes DEF BaseInv, Reads
  <2>3. \A g \in todo' : Exists(g) /\ NameOf[g] = NameOf[f] =>
                           files[g].mtime # modules[NameOf[f]].mtime
    BY <2>1 DEF Reads, BaseInv, TypeOK
  <2> QED BY <2>1, <2>2, <2>3 DEF Marked, Exists
<1> QED BY <1>1, <1>2

\* A file that is known changes nothing that is written, and leaves the marks.
LEMMA StatKnownKeepsKilled ==
  ASSUME BaseInv, KilledInv, world.kills, NEW f \in Files, StatKnown(f)
  PROVE  Kept' /\ CacheCurrent' /\ LoadsCache' /\ OutputsCurrent'
<1>1. /\ pc = "refresh" /\ todo' = todo \ {f}
      /\ UNCHANGED <<world, files, suite, header, cache, pc, reading, excluded>>
  BY DEF StatKnown, disk
<1>2. /\ NameOf[f] \in DOMAIN modules /\ modules[NameOf[f]].mtime = files[f].mtime
      /\ DOMAIN modules' = DOMAIN modules
      /\ \A n \in DOMAIN modules : n # NameOf[f] => modules'[n] = modules[n]
      /\ \A n \in DOMAIN modules :
           /\ modules'[n].mtime = modules[n].mtime /\ modules'[n].text = modules[n].text
           /\ modules'[n].enabled = modules[n].enabled
  BY StatKnownDoes DEF BaseInv
<1>3. Kept'
  BY <1>1, <1>2 DEF KilledInv, Kept, Exists, Always
<1>4. CacheCurrent'
  BY <1>1, OnDisk DEF KilledInv
<1>5. LoadsCache'
  BY <1>1, <1>2, OnDisk DEF KilledInv, LoadsCache
<1>6. WillMark => WillMark'
  <2>1. ASSUME NEW n \in DOMAIN modules, Marked(n)
        PROVE  Marked(n)'
    <3>1. n # NameOf[f]
      BY <1>2, <2>1 DEF Marked, StatKnown
    <3> QED BY <1>1, <1>2, <2>1, <3>1, Unmoved
  <2>2. ASSUME NEW g \in todo, files[g].mtime # Known(NameOf[g]).mtime
        PROVE  g \in todo' /\ files'[g].mtime # Known(NameOf[g])'.mtime
    BY <1>1, <1>2, <2>2 DEF Known, New
  <2> QED BY <1>1, <1>2, <2>1, <2>2 DEF WillMark
<1>7. Suite' = Suite /\ Header' = Header
  BY <1>2 DEF Suite, Header
<1>8. OutputsCurrent'
  BY <1>1, <1>2, <1>6, <1>7 DEF KilledInv, OutputsCurrent
<1> QED BY <1>3, <1>4, <1>5, <1>8

LEMMA StatNewKeepsKilled ==
  ASSUME BaseInv, KilledInv, world.kills, NEW f \in Files, StatNew(f)
  PROVE  Kept' /\ CacheCurrent' /\ LoadsCache' /\ OutputsCurrent'
<1>1. /\ pc = "refresh" /\ f \in todo /\ Exists(f) /\ todo' = todo \ {f}
      /\ reading' = {f} /\ pc' = "read"
      /\ UNCHANGED <<world, files, suite, header, cache, excluded>>
  BY DEF StatNew, disk
<1>2. /\ DOMAIN modules' = DOMAIN modules \cup {NameOf[f]}
      /\ modules'[NameOf[f]].mtime = files[f].mtime
      /\ modules'[NameOf[f]].enabled = Known(NameOf[f]).enabled
      /\ \A n \in DOMAIN modules : n # NameOf[f] => modules'[n] = modules[n]
  BY StatNewDoes DEF BaseInv
<1>3. Kept'
  <2>1. \A n \in DOMAIN modules' : modules'[n].enabled \/ n \in Always
    BY <1>2 DEF KilledInv, Kept, Known, New
  <2> QED BY <1>1, <1>2, <2>1 DEF KilledInv, Kept, Exists, Always
<1>4. CacheCurrent'
  BY <1>1, OnDisk DEF KilledInv
<1>5. LoadsCache'
  <2>1. ASSUME ~Stale
        PROVE  NameOf[f] \in DOMAIN cache.table /\ cache.table[NameOf[f]].mtime = files[f].mtime
    BY <1>1, <2>1 DEF Stale
  <2> QED BY <1>1, <1>2, <2>1, OnDisk DEF KilledInv, LoadsCache
<1>6. NameOf[f] \in DOMAIN modules' /\ Marked(NameOf[f])'
  <2>1. ~ReadFile(f)
    BY <1>1 DEF ReadFile
  <2> QED BY <2>1, LoadMarks
<1>7. OutputsCurrent'
  BY <1>1, <1>6 DEF OutputsCurrent, WillMark, AfterSuite, AfterHeader
<1> QED BY <1>3, <1>4, <1>5, <1>7

LEMMA ReadFileKeepsKilled ==
  ASSUME BaseInv, KilledInv, world.kills, NEW f \in Files, ReadFile(f)
  PROVE  Kept' /\ CacheCurrent' /\ LoadsCache' /\ OutputsCurrent'
<1>1. /\ pc = "read" /\ f \in reading /\ pc' = "refresh" /\ reading' = {}
      /\ UNCHANGED <<world, files, suite, header, cache, todo, excluded>>
  BY DEF ReadFile, disk
<1>2. Reads(f) /\ files[f].text \in Tested
  BY <1>1 DEF BaseInv, Reading, Reads, KilledInv, Kept
<1>3. /\ DOMAIN modules' = DOMAIN modules
      /\ \A n \in DOMAIN modules : /\ modules'[n].mtime = modules[n].mtime
                                   /\ modules'[n].enabled = modules[n].enabled
  BY <1>2, ReadFileDoes DEF BaseInv, Reads
<1>4. Kept'
  BY <1>1, <1>3 DEF KilledInv, Kept, Exists, Always
<1>5. CacheCurrent'
  BY <1>1, OnDisk DEF KilledInv
<1>6. LoadsCache'
  BY <1>1, <1>3, OnDisk DEF KilledInv, LoadsCache
<1>7. OutputsCurrent'
  BY <1>1, <1>2, LoadMarks DEF OutputsCurrent, WillMark, AfterSuite, AfterHeader
<1> QED BY <1>4, <1>5, <1>6, <1>7

LEMMA LoadedKeepsKilled ==
  ASSUME BaseInv, KilledInv, world.kills, Loaded
  PROVE  Kept' /\ CacheCurrent' /\ LoadsCache' /\ OutputsCurrent'
<1>1. /\ pc = "refresh" /\ pc' = "disable"
      /\ UNCHANGED <<world, files, suite, header, cache, modules, todo, reading, excluded>>
  BY DEF Loaded, disk, run
<1>2. Kept' /\ CacheCurrent' /\ LoadsCache'
  BY <1>1, OnDisk DEF KilledInv, Kept, LoadsCache, Exists, Always
<1>3. WillMark => WillMark'
  BY <1>1 DEF WillMark, Marked, Exists, Known, New, Loading
<1>4. Suite' = Suite /\ Header' = Header
  BY <1>1 DEF Suite, Header
<1>5. OutputsCurrent'
  BY <1>1, <1>3, <1>4 DEF KilledInv, OutputsCurrent, BeforeSuite, BeforeHeader, Loading,
                          AfterSuite, AfterHeader
<1> QED BY <1>2, <1>5

\* disable marks what it changes, and the exclusions of the worlds of kills are always the
\* same: a module is disabled for good.
LEMMA DisableKeepsKilled ==
  ASSUME BaseInv, KilledInv, world.kills, Disable
  PROVE  Kept' /\ CacheCurrent' /\ LoadsCache' /\ OutputsCurrent'
<1>1. /\ pc = "disable" /\ pc' = "suite" /\ todo = {}
      /\ UNCHANGED <<world, files, suite, header, cache, todo, reading, excluded>>
  BY DEF Disable, disk, BaseInv, Pointed, Loading
<1>2. /\ DOMAIN modules' = DOMAIN modules
      /\ \A n \in DOMAIN modules \ excluded : modules'[n] = modules[n]
      /\ \A n \in DOMAIN modules \cap excluded :
           modules'[n].mtime = modules[n].mtime /\ modules'[n].modified = TRUE
  BY DisableDoes DEF BaseInv
<1>3. excluded = Always
  BY <1>1 DEF KilledInv, Kept
<1>4. Kept'
  BY <1>1, <1>2, <1>3 DEF KilledInv, Kept, Exists, Always
<1>5. CacheCurrent'
  BY <1>1, OnDisk DEF KilledInv
<1>6. LoadsCache'
  BY <1>1, <1>2, OnDisk DEF KilledInv, LoadsCache
<1>7. CASE excluded \cap DOMAIN modules = {}
  <2>1. \A n \in DOMAIN modules : modules'[n] = modules[n] /\ (Marked(n) => Marked(n)')
    BY <1>1, <1>2, <1>7, Unmoved
  <2>2. Suite' = Suite /\ Header' = Header
    BY <1>2, <2>1 DEF Suite, Header
  <2>3. WillMark => WillMark'
    BY <1>1, <1>2, <1>7, <2>1 DEF WillMark
  <2>4. OutputsCurrent'
    BY <1>1, <1>2, <2>2, <2>3 DEF KilledInv, OutputsCurrent, BeforeSuite, BeforeHeader,
                                  AfterSuite, AfterHeader
  <2> QED BY <1>4, <1>5, <1>6, <2>4
<1>8. CASE excluded \cap DOMAIN modules # {}
  <2>1. WillMark'
    BY <1>1, <1>2, <1>8 DEF WillMark, Marked
  <2> QED BY <1>1, <1>4, <1>5, <1>6, <2>1 DEF OutputsCurrent, AfterSuite, AfterHeader
<1> QED BY <1>7, <1>8

\* Where the cache is current, what a loaded run would write is what the cache knows.
LEMMA CurrentLoads ==
  ASSUME BaseInv, Kept, LoadsCache, ~Stale, pc \in AfterDisable
  PROVE  Suite = SuiteOf(cache.table) /\ Header = HeaderOf(cache.table)
<1>1. reading = {} /\ todo = {} /\ pc # "idle"
  BY DEF BaseInv, Pointed, AfterDisable, AfterSuite, AfterHeader, Loading
<1>2. DOMAIN modules = DOMAIN cache.table
  BY <1>1 DEF LoadsCache
<1>3. ASSUME NEW n \in DOMAIN modules
      PROVE  /\ modules[n].text = cache.table[n].text
             /\ modules[n].enabled = cache.table[n].enabled
  <2>1. PICK f \in Files : Exists(f) /\ NameOf[f] = n
    BY DEF Kept
  <2>2. cache.table[n].mtime = files[f].mtime /\ modules[n].mtime = files[f].mtime
    BY <1>1, <1>2, <2>1 DEF LoadsCache, Stale
  <2>3. modules[n].text = files[f].text /\ cache.table[n].text = files[f].text
    BY <1>1, <1>2, <2>1, <2>2 DEF BaseInv, Fitting, Fits
  <2>4. n \notin Always
    BY <1>2 DEF Stale
  <2>5. modules[n].enabled \in BOOLEAN /\ cache.table[n].enabled \in BOOLEAN
    BY <1>2, Tables, ModuleFields DEF BaseInv
  <2>6. modules[n].enabled /\ cache.table[n].enabled
    BY <1>2, <2>4 DEF Kept
  <2> QED BY <2>3, <2>5, <2>6
<1> QED BY <1>2, <1>3 DEF Suite, SuiteOf, Header, HeaderOf

\* An output that is not rewritten is as it should be, if there is a module at all.
LEMMA KeptCurrent ==
  ASSUME BaseInv, OutputsCurrent, DOMAIN modules # {}
  PROVE  /\ KeepSuite => suite = Suite
         /\ KeepHeader => header = Header
<1>1. pc \in {"suite", "header"} => (WillMark => \E n \in DOMAIN modules : modules[n].modified)
  <2>1. pc \in {"suite", "header"} => todo = {}
    BY DEF BaseInv, Pointed, Loading
  <2> QED BY <2>1 DEF WillMark, Marked, Loading
<1>2. KeepSuite => suite = Suite
  BY <1>1 DEF KeepSuite, Rewrites, maybe_generate, OutputsCurrent, BeforeSuite
<1>3. KeepHeader => header = Header
  BY <1>1 DEF KeepHeader, Rewrites, maybe_generate, OutputsCurrent, BeforeHeader
<1> QED BY <1>2, <1>3

\* An output is opened for writing only if the cache is stale, or there is nothing in it;
\* the cache is saved when both outputs are as it says.
LEMMA WriteKeepsKilled ==
  ASSUME BaseInv, KilledInv, world.kills, Write
  PROVE  Kept' /\ CacheCurrent' /\ LoadsCache' /\ OutputsCurrent'
<1> USE DEF BeforeSuite, BeforeHeader, Loading, AfterSuite, AfterHeader
<1>1. /\ UNCHANGED <<world, files, modules, todo, reading, excluded>>
      /\ pc \in AfterDisable /\ pc' \in AfterDisable
  BY WriteDoes
<1>2. /\ Kept /\ CacheCurrent /\ LoadsCache /\ OutputsCurrent
      /\ pc # "idle" /\ pc' # "idle"
  BY <1>1 DEF KilledInv, AfterDisable
<1>3. \/ cache' = cache
      \/ cache' = Truncated /\ DOMAIN cache'.table = {}
      \/ SaveCache /\ cache' = Whole(modules) /\ cache'.table = modules
  BY DEF Write, KeepSuite, OpenSuite, WriteSuite, KeepHeader, OpenHeader, WriteHeader,
         OpenCache, SaveCache, Truncated, Whole
<1>4. Kept'
  BY <1>1, <1>2, <1>3 DEF Kept, Exists, Always
<1>5. CacheCurrent'
  <2>1. CASE cache' = Truncated
    BY <2>1 DEF CacheCurrent, Stale, Truncated
  <2>2. CASE SaveCache
    <3>1. /\ UNCHANGED <<suite, header>> /\ pc = "cache_open" /\ cache'.table = modules
      BY <1>3, <2>2 DEF SaveCache, Whole
    <3>2. DOMAIN modules = {} \/ (suite = Suite /\ header = Header)
      <4>1. pc \in AfterSuite /\ pc \in AfterHeader
        BY <3>1
      <4> QED BY <1>2, <4>1 DEF OutputsCurrent
    <3>3. Suite = SuiteOf(modules) /\ Header = HeaderOf(modules)
      BY DEF Suite, SuiteOf, Header, HeaderOf
    <3> QED BY <3>1, <3>2, <3>3 DEF CacheCurrent, SuiteOf, HeaderOf
  <2>3. CASE cache' = cache /\ ~Stale /\ DOMAIN cache.table # {}
    <3>1. /\ suite = Suite /\ header = Header
          /\ Suite = SuiteOf(cache.table) /\ Header = HeaderOf(cache.table)
      BY <1>1, <1>2, <2>3, CurrentLoads DEF CacheCurrent
    <3>2. suite' = suite /\ header' = header
      BY <2>3, <3>1 DEF Write, KeepSuite, OpenSuite, WriteSuite, KeepHeader, OpenHeader, WriteHeader,
                  OpenCache, SaveCache, Rewrites
    <3> QED BY <1>1, <1>2, <2>3, <3>2, OnDisk
  <2>4. CASE cache' = cache /\ (Stale \/ DOMAIN cache.table = {})
    BY <1>1, <2>4 DEF CacheCurrent, Stale, Exists, Always
  <2> QED BY <1>3, <2>1, <2>2, <2>3, <2>4
<1>6. LoadsCache'
  <2>1. CASE cache' = cache
    BY <1>1, <1>2, <2>1 DEF LoadsCache, Stale, Exists, Always
  <2>2. CASE cache' = Truncated
    BY <2>2 DEF LoadsCache, Stale, Truncated
  <2>3. CASE cache'.table = modules
    BY <1>1, <2>3 DEF LoadsCache
  <2> QED BY <1>3, <2>1, <2>2, <2>3
<1>7. OutputsCurrent'
  <2>1. CASE DOMAIN modules = {}
    BY <1>1, <2>1 DEF OutputsCurrent
  <2>2. CASE DOMAIN modules # {}
    <3>1. Suite' = Suite /\ Header' = Header
      BY <1>1 DEF Suite, Header
    <3>2. WillMark /\ pc' # "disable" => WillMark'
      BY <1>1, <1>2 DEF WillMark, Marked, Exists, Known, New, AfterDisable
    <3>3. CASE KeepSuite
      BY <1>2, <2>2, <3>1, <3>2, <3>3, KeptCurrent DEF KeepSuite, OutputsCurrent
    <3>4. CASE OpenSuite
      BY <1>2, <2>2, <3>1, <3>2, <3>4 DEF OpenSuite, OutputsCurrent
    <3>5. CASE WriteSuite
      BY <1>2, <2>2, <3>1, <3>2, <3>5 DEF WriteSuite, OutputsCurrent
    <3>6. CASE KeepHeader
      <4>1. pc = "header" /\ pc' \in {"cache", "done"} /\ UNCHANGED <<suite, header>>
        BY <3>6 DEF KeepHeader
      <4> QED BY <1>2, <2>2, <3>1, <3>6, <4>1, KeptCurrent DEF OutputsCurrent
    <3>7. CASE OpenHeader
      BY <1>2, <2>2, <3>1, <3>7 DEF OpenHeader, OutputsCurrent
    <3>8. CASE WriteHeader
      BY <1>2, <2>2, <3>1, <3>8 DEF WriteHeader, OutputsCurrent
    <3>9. CASE OpenCache \/ SaveCache
      BY <1>2, <2>2, <3>1, <3>9 DEF OpenCache, SaveCache, OutputsCurrent
    <3> QED BY <3>3, <3>4, <3>5, <3>6, <3>7, <3>8, <3>9 DEF Write
  <2> QED BY <2>1, <2>2
<1> QED BY <1>4, <1>5, <1>6, <1>7

LEMMA NextKeepsKilled ==
  ASSUME KillsAlone, BaseInv, KilledInv, [Next]_vars
  PROVE  KilledInv'
<1>1. world' = world
  BY DEF Next, Around, Load, Write, Edit, Remove, Crash, Start, StatFails, StatKnown, StatNew,
         ReadFile, Loaded, Disable, KeepSuite, OpenSuite, WriteSuite, KeepHeader, OpenHeader,
         WriteHeader, OpenCache, SaveCache, vars, disk
<1> DEFINE Goal == Kept' /\ CacheCurrent' /\ LoadsCache' /\ OutputsCurrent'
<1> SUFFICES ASSUME world.kills
             PROVE  Goal
  BY <1>1 DEF KilledInv
<1> HIDE DEF Goal
<1>2. ASSUME NEW f \in Files, NEW text \in Text, Edit(f, text) PROVE Goal
  BY <1>2, EditKeepsKilled DEF Goal
<1>3. ASSUME NEW f \in Files, Remove(f) PROVE Goal
  BY <1>3, KillsAloneSays DEF Remove
<1>4. CASE Crash
  BY <1>4, CrashKeepsKilled DEF Goal
<1>5. ASSUME NEW force \in BOOLEAN, NEW exclude \in world.excludes, Start(force, exclude)
      PROVE  Goal
  BY <1>5, StartKeepsKilled DEF Goal
<1>6. ASSUME NEW f \in Files, StatFails(f) PROVE Goal
  BY <1>6 DEF StatFails, KilledInv, Kept
<1>7. ASSUME NEW f \in Files, StatKnown(f) \/ StatNew(f) \/ ReadFile(f) PROVE Goal
  BY <1>7, StatKnownKeepsKilled, StatNewKeepsKilled, ReadFileKeepsKilled DEF Goal
<1>8. CASE Loaded
  BY <1>8, LoadedKeepsKilled DEF Goal
<1>9. CASE Disable
  BY <1>9, DisableKeepsKilled DEF Goal
<1>10. CASE Write
  BY <1>10, WriteKeepsKilled DEF Goal
<1>11. CASE UNCHANGED vars
  <2>1. UNCHANGED <<world, files, suite, header, cache, pc, modules, todo, reading, excluded>>
    BY <1>11 DEF vars, disk, run
  <2>2. Kept' /\ CacheCurrent' /\ LoadsCache'
    BY <2>1, OnDisk DEF KilledInv, Kept, LoadsCache, Exists, Always
  <2>3. Suite' = Suite /\ Header' = Header /\ (WillMark' <=> WillMark)
    BY <2>1 DEF Suite, Header, WillMark, Marked, Exists, Known, New
  <2> QED BY <2>1, <2>2, <2>3 DEF KilledInv, OutputsCurrent, Goal
<1> QED BY <1>2, <1>3, <1>4, <1>5, <1>6, <1>7, <1>8, <1>9, <1>10, <1>11
        DEF Next, Around, Load

LEMMA MixerInitially == Init => MixerInvariant
<1> SUFFICES ASSUME Init PROVE MixerInvariant
  OBVIOUS
<1>1. BaseInv
  BY BaseInitially
<1>2. pc = "idle" /\ DOMAIN modules = {} /\ DOMAIN cache.table = {} /\ files = [f \in Files |-> no_file]
  BY DEF Init, Absent
<1>3. CacheListed /\ ModulesListed
  BY <1>2 DEF CacheListed, ModulesListed
<1>4. Kept
  BY <1>2 DEF Kept, Exists, no_file
<1>5. CacheCurrent /\ LoadsCache /\ OutputsCurrent
  BY <1>2 DEF CacheCurrent, LoadsCache, OutputsCurrent
<1> QED BY <1>1, <1>3, <1>4, <1>5 DEF MixerInvariant, FinishingInv, KilledInv

\* The invariant of the mixer is inductive, whatever the files, names and functions are:
\* outside the worlds of kills every module is in the outputs or marked, and within them
\* an output that differs from what the cache knows will be written again, as long as
\* files keep their tests and -x stays the same there.
THEOREM MixerInvariantHolds ==
  ASSUME KillsAlone
  PROVE  Spec => []MixerInvariant
<1>1. Init => MixerInvariant
  BY MixerInitially
<1>2. MixerInvariant /\ [Next]_vars => MixerInvariant'
  BY NextKeepsBase, NextKeepsFinishing, NextKeepsKilled DEF MixerInvariant
<1> QED BY <1>1, <1>2, PTL DEF Spec

\* A run that ends undisturbed leaves every file with a test, and a module of its own, in
\* clar.suite and clar_suite.h as it is: after any edits between the steps of earlier runs,
\* emptied and removed files, changing -x options; and after any kills of earlier runs,
\* also in the middle of a write, as long as files keep their tests and -x stays the same
\* (generate.py:141-167, 237-255).
THEOREM EverythingIsListed ==
  ASSUME KillsAlone
  PROVE  Spec => []AllListed
<1>1. ASSUME MixerInvariant
      PROVE  AllListed
  <2> SUFFICES ASSUME Complete, NEW f \in Files, files[f].text \in Tested, Alone(f)
               PROVE  /\ NameOf[f] \in DOMAIN suite.table \cap DOMAIN header.table
                      /\ suite.table[NameOf[f]].text = files[f].text
                      /\ header.table[NameOf[f]] = files[f].text
    BY DEF AllListed
  <2>1. pc = "done" /\ undisturbed /\ BaseInv
    BY <1>1 DEF Complete, MixerInvariant
  <2>2. todo = {} /\ reading = {}
    BY <2>1 DEF BaseInv, Pointed, Loading
  <2>3. Exists(f)
    BY <2>1 DEF BaseInv, Timed, no_file, Tested
  <2>4. NameOf[f] \in DOMAIN modules /\ modules[NameOf[f]].mtime = files[f].mtime
    BY <2>1, <2>2 DEF BaseInv, LookedAt
  <2>5. modules[NameOf[f]].text = files[f].text
    BY <2>1, <2>2, <2>3, <2>4 DEF BaseInv, Fitting, Fits
  <2>6. CASE ~world.kills
    <3>1. InSuite(modules, NameOf[f]) /\ InHeader(modules, NameOf[f])
      BY <1>1, <2>1, <2>4, <2>6 DEF MixerInvariant, FinishingInv, ModulesListed, AfterSuite,
                                    AfterHeader
    <3> QED BY <2>5, <3>1 DEF InSuite, InHeader
  <2>7. CASE world.kills
    <3>1. suite = Suite /\ header = Header
      BY <1>1, <2>1, <2>4, <2>7 DEF MixerInvariant, KilledInv, OutputsCurrent, AfterSuite,
                                    AfterHeader
    <3> QED BY <2>4, <2>5, <3>1 DEF Suite, Header, Whole
  <2> QED BY <2>6, <2>7
<1> QED BY <1>1, MixerInvariantHolds, PTL
================================================================================
