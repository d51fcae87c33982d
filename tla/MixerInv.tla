-------------------------------- MODULE MixerInv --------------------------------
(***************************************************************************)
(* The inductive invariant of the mixer: what files, modules, cache and    *)
(* outputs have to do with one another at each point of a run, so that a   *)
(* run that rewrites nothing has nothing to rewrite.                       *)
(***************************************************************************)
EXTENDS Mixer

Loading       == {"refresh", "read"}
BeforeSuite   == Loading \cup {"disable", "suite"}
BeforeHeader  == BeforeSuite \cup {"suite_open", "header"}
AfterHeader   == {"cache", "cache_open", "done"}
AfterSuite    == {"header", "header_open"} \cup AfterHeader
AfterDisable  == {"suite", "suite_open"} \cup AfterSuite

\* todo and reading are of the load alone; only what has a test is saved.
Pointed ==
  /\ pc \notin Loading \cup {"idle"} => todo = {}
  /\ pc \notin {"read", "idle"} => reading = {}
  /\ \A n \in DOMAIN cache.table : cache.table[n].text \in Tested

\* No two files have an mtime in common, and no mtime is of the future.
Timed ==
  /\ \A f \in Files : ~Exists(f) => files[f] = no_file
  /\ \A f \in Files : files[f].mtime <= clock
  /\ \A f, g \in Files : Exists(f) /\ files[f].mtime = files[g].mtime => f = g
  /\ \A n \in DOMAIN modules : modules[n].mtime <= clock
  /\ \A n \in DOMAIN cache.table : cache.table[n].mtime <= clock

\* What a table knows under the mtime of a file is the text of that file.
Fits(table, but) ==
  \A f \in Files \ but :
    /\ Exists(f) /\ NameOf[f] \in DOMAIN table
    /\ table[NameOf[f]].mtime = files[f].mtime
    => table[NameOf[f]].text = files[f].text

Fitting == Fits(cache.table, {}) /\ (pc # "idle" => Fits(modules, reading))

\* The module of the file that is read is marked, and goes by the mtime of no other
\* file: whatever the read returns is not taken for the text of one of those.
Reads(f) ==
  /\ reading = {f} /\ f \notin todo
  /\ NameOf[f] \in DOMAIN modules /\ modules[NameOf[f]].modified
  /\ \A g \in Files \ {f} : Exists(g) /\ NameOf[g] = NameOf[f] =>
       files[g].mtime # modules[NameOf[f]].mtime
  /\ undisturbed => files[f].mtime = modules[NameOf[f]].mtime

Reading == pc = "read" => \E f \in Files : Reads(f)

\* With no edit since it began, a run has the mtime of every file it looked at.
LookedAt ==
  undisturbed /\ pc # "idle" =>
    /\ \A f \in todo \cup reading : Exists(f)
    /\ \A f \in Files \ todo : files[f].text \in Tested /\ Alone(f) =>
         /\ NameOf[f] \in DOMAIN modules
         /\ modules[NameOf[f]].mtime = files[f].mtime

\* An excluded module is disabled and marked, so that the suite is written with it.
Excluding ==
  /\ pc \in AfterDisable =>
       \A n \in excluded \cap DOMAIN modules : modules[n].modified /\ ~modules[n].enabled
  /\ pc \in AfterSuite /\ excluded \cap DOMAIN modules # {} => suite = Suite

BaseInv == TypeOK /\ Pointed /\ Timed /\ Fitting /\ Reading /\ LookedAt /\ Excluding
--------------------------------------------------------------------------------
(* Where no run is killed: each module is in the outputs, or marked *)

InSuite(table, n) ==
  n \in DOMAIN suite.table /\
  suite.table[n] = [text |-> table[n].text, enabled |-> table[n].enabled]
InHeader(table, n) == n \in DOMAIN header.table /\ header.table[n] = table[n].text

\* The module is marked, and no file that is left takes the mark away.
Marked(n) ==
  /\ modules[n].modified
  /\ \A f \in todo : Exists(f) /\ NameOf[f] = n => files[f].mtime # modules[n].mtime

\* The cache is in the outputs until a run that writes one comes to save it.
CacheListed ==
  (pc \in BeforeSuite \cup {"idle", "done"} \/ (pc = "header" /\ ~wrote)) =>
    \A n \in DOMAIN cache.table : InSuite(cache.table, n) /\ InHeader(cache.table, n)

ModulesListed ==
  \A n \in DOMAIN modules :
    /\ pc \in BeforeSuite  => InSuite(modules, n)  \/ Marked(n)
    /\ pc \in BeforeHeader => InHeader(modules, n) \/ Marked(n)
    /\ pc \in AfterSuite   => InSuite(modules, n)
    /\ pc \in AfterHeader  => InHeader(modules, n)

FinishingInv == ~world.kills => CacheListed /\ ModulesListed
--------------------------------------------------------------------------------
(* Where runs are killed, files keep their tests and -x stays the same: an     *)
(* output differs from what the cache knows only if the next run will write it *)

Always == UNION world.excludes

SuiteOf(table)  == Whole([n \in DOMAIN table |-> [text    |-> table[n].text,
                                                  enabled |-> table[n].enabled]])
HeaderOf(table) == Whole([n \in DOMAIN table |-> table[n].text])

\* Files and modules stay; a module is disabled by -x alone.
Kept ==
  /\ \A f \in Files : Exists(f) => files[f].text \in Tested
  /\ pc # "idle" => excluded = Always /\ \A f \in todo \cup reading : Exists(f)
  /\ \A n \in DOMAIN cache.table \cup DOMAIN modules :
       \E f \in Files : Exists(f) /\ NameOf[f] = n
  /\ \A n \in DOMAIN cache.table : cache.table[n].enabled \/ n \in Always
  /\ \A n \in DOMAIN modules : modules[n].enabled \/ n \in Always

\* A run that starts from the cache will mark a module.
Stale ==
  \/ cache.state = "truncated"
  \/ \E f \in Files : Exists(f) /\ (NameOf[f] \in DOMAIN cache.table =>
                                      cache.table[NameOf[f]].mtime # files[f].mtime)
  \/ Always \cap DOMAIN cache.table # {}

CacheCurrent ==
  \/ Stale
  \/ DOMAIN cache.table = {}
  \/ suite = SuiteOf(cache.table) /\ header = HeaderOf(cache.table)

\* The cache being current, what a run loads is what the cache holds.
LoadsCache ==
  pc # "idle" /\ ~Stale =>
    /\ \A n \in DOMAIN modules : n \in DOMAIN cache.table /\
                                 modules[n].mtime = cache.table[n].mtime
    /\ \A n \in DOMAIN cache.table \ DOMAIN modules : \E f \in todo : NameOf[f] = n

\* A module is marked, or will be: by a file that is left, or by -x.
WillMark ==
  \/ \E n \in DOMAIN modules : Marked(n)
  \/ \E f \in todo : files[f].mtime # Known(NameOf[f]).mtime
  \/ pc \in Loading \cup {"disable"} /\ excluded \cap DOMAIN modules # {}

OutputsCurrent ==
  \/ DOMAIN modules = {}
  \/ /\ pc \in BeforeSuite  => suite = Suite \/ WillMark
     /\ pc \in BeforeHeader => header = Header \/ WillMark
     /\ pc \in AfterSuite   => suite = Suite
     /\ pc \in AfterHeader  => header = Header

KilledInv == world.kills => Kept /\ CacheCurrent /\ LoadsCache /\ OutputsCurrent

\* In a world whose runs may be killed, files keep their tests and all runs have the
\* same -x options.
KillsAlone ==
  \A w \in Worlds : w.kills => ~w.shrinks /\ \A x, y \in w.excludes : x = y

MixerInvariant == BaseInv /\ FinishingInv /\ KilledInv
================================================================================
