--------------------------------- MODULE Mixer ---------------------------------
(***************************************************************************)
(* The mixer, generate.py: it scans a directory of test files and writes   *)
(* clar.suite and clar_suite.h, keeping what it parsed in .clarcache so    *)
(* that only files with a new mtime are read again, and writing only when  *)
(* a module was modified.  While it runs, files are edited and the process *)
(* can be killed, also in the middle of a write.                           *)
(*                                                                         *)
(* A text is the set of test functions it defines; where they stand in the *)
(* text and how they are declared is left out.                             *)
(***************************************************************************)
EXTENDS Naturals, FiniteSets

CONSTANTS
  Files,      (* The paths of test files.                                     *)
  Names,      (* The names of modules.                                        *)
  NameOf,     (* The name a path gives its module: "/" and "-" become "_".    *)
  Functions,  (* What a text may define: tests, initialize, cleanup.          *)
  Tests,      (* Those of Functions that are tests.                           *)
  Worlds,     (* What may happen around the runs of the mixer, see World.     *)
  MaxTime     (* Bound: the mtimes there are.                                 *)

\* Files may lose their last test, or be removed; runs may be killed; the sets of
\* modules that the -x options of a run match.
World == [shrinks: BOOLEAN, kills: BOOLEAN, excludes: SUBSET SUBSET Names]

ASSUME MixerAssumption ==
  /\ NameOf \in [Files -> Names]
  /\ Tests \subseteq Functions
  /\ Worlds \subseteq World
  /\ MaxTime \in Nat

VARIABLES
  world,      (* The world this is.                                           *)
  files,      (* The files on disk, or no_file.                               *)
  clock,      (* The mtime of the last edit.                                  *)
  suite,      (* clar.suite: what it lists, for each module.                  *)
  header,     (* clar_suite.h: what it declares, for each module.             *)
  cache,      (* .clarcache: the modules as they were saved.                  *)
  pc,         (* The point of the run that is reached, "idle" if none.        *)
  modules,    (* TestSuite.modules.                                           *)
  todo,       (* The files of find_modules that are left.                     *)
  reading,    (* The file that is being refreshed, past its stat.             *)
  excluded,   (* The modules the -x options match.                            *)
  wrote,      (* A file was written by this run.                              *)
  undisturbed (* Nothing was edited since the run began.                      *)

disk == <<world, files, clock>>
run  == <<modules, todo, reading, excluded, wrote>>
vars == <<disk, suite, header, cache, pc, run, undisturbed>>

Text   == SUBSET Functions
Tested == {text \in Text : text \cap Tests # {}}
Entry  == [text: Tested, enabled: BOOLEAN]
Module == [mtime: 0..MaxTime, text: Text, enabled: BOOLEAN, modified: BOOLEAN]

no_file == [text |-> {}, mtime |-> 0]   \* mtimes begin at 1
Exists(f) == files[f].mtime # 0

\* A file the mixer writes is absent, truncated by the open that precedes a write
\* (or cut short in the middle of it), or whole.
Absent       == [state |-> "absent", table |-> <<>>]
Truncated    == [state |-> "truncated", table |-> <<>>]
Whole(table) == [state |-> "whole", table |-> table]

IsTable(table, range) ==
  DOMAIN table \subseteq Names /\ \A n \in DOMAIN table : table[n] \in range
IsOutput(output, range) ==
  output \in {Absent, Truncated} \/ (output.state = "whole" /\ IsTable(output.table, range))

Points == {"idle", "refresh", "read", "disable", "suite", "suite_open", "header",
           "header_open", "cache", "cache_open", "done"}

\* The types; a module without a test is in no output and in no cache, and among
\* the modules of a run only while its file is read.
TypeOK ==
  /\ world \in Worlds
  /\ files \in [Files -> [text: Text, mtime: 0..MaxTime]]
  /\ clock \in 0..MaxTime
  /\ IsOutput(suite, Entry) /\ IsOutput(header, Tested) /\ IsOutput(cache, Module)
  /\ pc \in Points
  /\ IsTable(modules, Module)
  /\ todo \subseteq Files /\ reading \subseteq Files
  /\ \A n \in DOMAIN modules :
       modules[n].text \in Tested \/ n \in {NameOf[f] : f \in reading}
  /\ excluded \in SUBSET Names
  /\ wrote \in BOOLEAN /\ undisturbed \in BOOLEAN

Init ==
  /\ world \in Worlds
  /\ files = [f \in Files |-> no_file] /\ clock = 0
  /\ suite = Absent /\ header = Absent /\ cache = Absent
  /\ pc = "idle" /\ modules = <<>> /\ todo = {} /\ reading = {}
  /\ excluded = {} /\ wrote = FALSE /\ undisturbed = FALSE
--------------------------------------------------------------------------------
(* What happens around the mixer *)

\* A file gets a new text; its mtime is the time of the edit.  No two edits fall
\* into one tick of the file system's clock.
Edit(f, text) ==
  /\ world.shrinks \/ text \in Tested
  /\ text # files[f].text
  /\ clock < MaxTime /\ clock' = clock + 1
  /\ files' = [files EXCEPT ![f] = [text |-> text, mtime |-> clock']]
  /\ undisturbed' = FALSE
  /\ UNCHANGED <<world, suite, header, cache, pc, run>>

Remove(f) ==
  /\ world.shrinks /\ Exists(f)
  /\ files' = [files EXCEPT ![f] = no_file]
  /\ undisturbed' = FALSE
  /\ UNCHANGED <<world, clock, suite, header, cache, pc, run>>

\* The process is killed; what it wrote so far stays on disk.
Crash ==
  /\ world.kills /\ pc \notin {"idle", "done"}
  /\ pc' = "idle"
  /\ UNCHANGED <<disk, suite, header, cache, run, undisturbed>>
--------------------------------------------------------------------------------
(* load: find_modules, load_cache, and a refresh of each module found *)

\* A truncated cache makes pickle.load raise what load_cache does not catch, and
\* ends the run before it began; -f does not look at the cache.
Start(force, exclude) ==
  /\ pc \in {"idle", "done"}
  /\ force \/ cache.state # "truncated"
  /\ todo' = {f \in Files : Exists(f)} /\ reading' = {}
  /\ modules' = IF force THEN <<>> ELSE cache.table
  /\ excluded' = exclude
  /\ wrote' = FALSE /\ undisturbed' = TRUE
  /\ pc' = "refresh"
  /\ UNCHANGED <<disk, suite, header, cache>>

New == [mtime |-> 0, text |-> {}, enabled |-> TRUE, modified |-> FALSE]

\* The module of that name, made if it was not there.
Known(name) == IF name \in DOMAIN modules THEN modules[name] ELSE New

Put(name, module) ==
  modules' = [n \in DOMAIN modules \cup {name} |-> IF n = name THEN module ELSE modules[n]]
Delete(name) == modules' = [n \in DOMAIN modules \ {name} |-> modules[n]]

\* A file that is gone when refresh looks at it loses its module.
StatFails(f) ==
  /\ pc = "refresh" /\ f \in todo /\ ~Exists(f)
  /\ Delete(NameOf[f])
  /\ todo' = todo \ {f}
  /\ UNCHANGED <<disk, suite, header, cache, pc, reading, excluded, wrote, undisturbed>>

\* The mtime is the one that is known: the module stays as it is.
StatKnown(f) ==
  /\ pc = "refresh" /\ f \in todo /\ Exists(f)
  /\ files[f].mtime = Known(NameOf[f]).mtime
  /\ Put(NameOf[f], [Known(NameOf[f]) EXCEPT !.modified = FALSE])
  /\ todo' = todo \ {f}
  /\ UNCHANGED <<disk, suite, header, cache, pc, reading, excluded, wrote, undisturbed>>

\* The mtime is new, and is noted before the file is read.
StatNew(f) ==
  /\ pc = "refresh" /\ f \in todo /\ Exists(f)
  /\ files[f].mtime # Known(NameOf[f]).mtime
  /\ Put(NameOf[f], [Known(NameOf[f]) EXCEPT !.modified = TRUE, !.mtime = files[f].mtime])
  /\ todo' = todo \ {f} /\ reading' = {f}
  /\ pc' = "read"
  /\ UNCHANGED <<disk, suite, header, cache, excluded, wrote, undisturbed>>

\* Mutant of ReadFile: what parse returns is not looked at.
ReadFileAnyway(f) ==
  /\ pc = "read" /\ f \in reading
  /\ Put(NameOf[f], [Known(NameOf[f]) EXCEPT !.text = files[f].text])
  /\ reading' = {}
  /\ pc' = "refresh"
  /\ UNCHANGED <<disk, suite, header, cache, todo, excluded, wrote, undisturbed>>

\* The file is read and parsed; without a test in it the module is dropped, and
\* with it the mark that it was modified.
ReadFile(f) ==
  /\ pc = "read" /\ f \in reading
  /\ IF files[f].text \in Tested
       THEN Put(NameOf[f], [Known(NameOf[f]) EXCEPT !.text = files[f].text])
       ELSE Delete(NameOf[f])
  /\ reading' = {}
  /\ pc' = "refresh"
  /\ UNCHANGED <<disk, suite, header, cache, todo, excluded, wrote, undisturbed>>

\* Mutant of Loaded: the cache is saved as soon as the modules are loaded.
LoadedAndSaved ==
  /\ pc = "refresh" /\ todo = {}
  /\ cache' = Whole(modules)
  /\ pc' = "disable"
  /\ UNCHANGED <<disk, suite, header, run, undisturbed>>

Loaded ==
  /\ pc = "refresh" /\ todo = {}
  /\ pc' = "disable"
  /\ UNCHANGED <<disk, suite, header, cache, run, undisturbed>>
--------------------------------------------------------------------------------
\* Mutant of Disable: the suite is not written again for it.
DisableQuietly ==
  /\ pc = "disable"
  /\ modules' = [n \in DOMAIN modules |->
                   IF n \in excluded THEN [modules[n] EXCEPT !.enabled = FALSE]
                                     ELSE modules[n]]
  /\ pc' = "suite"
  /\ UNCHANGED <<disk, suite, header, cache, todo, reading, excluded, wrote, undisturbed>>

\* disable: the modules -x matches.  Nothing enables a module again.
Disable ==
  /\ pc = "disable"
  /\ modules' = [n \in DOMAIN modules |->
                   IF n \in excluded
                     THEN [modules[n] EXCEPT !.enabled = FALSE, !.modified = TRUE]
                     ELSE modules[n]]
  /\ pc' = "suite"
  /\ UNCHANGED <<disk, suite, header, cache, todo, reading, excluded, wrote, undisturbed>>
--------------------------------------------------------------------------------
(* write: write_suite, write_header, save_cache *)

maybe_generate(output) ==
  output.state = "absent" \/ \E n \in DOMAIN modules : modules[n].modified

Suite  == Whole([n \in DOMAIN modules |-> [text    |-> modules[n].text,
                                           enabled |-> modules[n].enabled]])
Header == Whole([n \in DOMAIN modules |-> modules[n].text])

\* write_output rewrites a file if it must be generated and comes out different.
Rewrites(output, new) == maybe_generate(output) /\ output # new

KeepSuite ==
  /\ pc = "suite" /\ ~Rewrites(suite, Suite)
  /\ pc' = "header"
  /\ UNCHANGED <<disk, suite, header, cache, run, undisturbed>>

OpenSuite ==
  /\ pc = "suite" /\ Rewrites(suite, Suite)
  /\ suite' = Truncated
  /\ pc' = "suite_open"
  /\ UNCHANGED <<disk, header, cache, run, undisturbed>>

WriteSuite ==
  /\ pc = "suite_open"
  /\ suite' = Suite
  /\ wrote' = TRUE
  /\ pc' = "header"
  /\ UNCHANGED <<disk, header, cache, modules, todo, reading, excluded, undisturbed>>

KeepHeader ==
  /\ pc = "header" /\ ~Rewrites(header, Header)
  /\ pc' = IF wrote THEN "cache" ELSE "done"
  /\ UNCHANGED <<disk, suite, header, cache, run, undisturbed>>

OpenHeader ==
  /\ pc = "header" /\ Rewrites(header, Header)
  /\ header' = Truncated
  /\ pc' = "header_open"
  /\ UNCHANGED <<disk, suite, cache, run, undisturbed>>

WriteHeader ==
  /\ pc = "header_open"
  /\ header' = Header
  /\ wrote' = TRUE
  /\ pc' = "cache"
  /\ UNCHANGED <<disk, suite, cache, modules, todo, reading, excluded, undisturbed>>

OpenCache ==
  /\ pc = "cache"
  /\ cache' = Truncated
  /\ pc' = "cache_open"
  /\ UNCHANGED <<disk, suite, header, run, undisturbed>>

\* The modules are saved with all their attributes.
SaveCache ==
  /\ pc = "cache_open"
  /\ cache' = Whole(modules)
  /\ pc' = "done"
  /\ UNCHANGED <<disk, suite, header, run, undisturbed>>
--------------------------------------------------------------------------------
Around == \/ \E f \in Files, text \in Text : Edit(f, text)
          \/ \E f \in Files : Remove(f)
          \/ Crash

Load == \/ \E force \in BOOLEAN, exclude \in world.excludes : Start(force, exclude)
        \/ \E f \in Files : StatFails(f) \/ StatKnown(f) \/ StatNew(f) \/ ReadFile(f)
        \/ Loaded

Write == \/ KeepSuite \/ OpenSuite \/ WriteSuite
         \/ KeepHeader \/ OpenHeader \/ WriteHeader
         \/ OpenCache \/ SaveCache

Next == Around \/ Load \/ Disable \/ Write

Spec == Init /\ [][Next]_vars
--------------------------------------------------------------------------------
(* Safety *)

Complete == pc = "done" /\ undisturbed

\* No other file gives its module the same name.
Alone(f) == \A g \in Files : Exists(g) /\ NameOf[g] = NameOf[f] => g = f

\* A run that ends, with no edit since it began, leaves every file that has a test,
\* and a module of its own, listed in clar.suite and declared in clar_suite.h as it
\* is, whatever happened to the runs before it: edits between their steps, kills in
\* the middle of a write (README.md:129-131 and 165-168; the mtime is noted before
\* a file is read, the cache is saved after the outputs are written).
AllListed ==
  Complete =>
    \A f \in Files : files[f].text \in Tested /\ Alone(f) =>
      /\ NameOf[f] \in DOMAIN suite.table \cap DOMAIN header.table
      /\ suite.table[NameOf[f]].text = files[f].text
      /\ header.table[NameOf[f]] = files[f].text

\* The modules that -x matches are disabled in the clar.suite a run ends with,
\* also when no file was modified since the last run (generate.py:211-217).
ObeysExcludes ==
  pc = "done" =>
    \A n \in excluded \cap DOMAIN modules :
      n \in DOMAIN suite.table /\ ~suite.table[n].enabled

\* A file that was emptied or removed takes its tests with it: clar.suite lists
\* no test that is not there, or the build would not link (README.md:165-167, "all
\* of the metadata about your tests").
OnlyRealTests ==
  Complete =>
    \A n \in DOMAIN suite.table :
      suite.table[n].text \cap Tests \subseteq
        UNION {files[f].text : f \in {g \in Files : NameOf[g] = n}}
================================================================================
