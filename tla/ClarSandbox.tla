------------------------------ MODULE ClarSandbox ------------------------------
(***************************************************************************)
(* The temporary directory of the process and the per-test sandbox below   *)
(* it (clar/sandbox.h), on POSIX.  The module owns four variables and      *)
(* describes what each function of sandbox.h does to them; ClarRun calls   *)
(* these operators from the places where clar.c calls the functions.       *)
(*                                                                         *)
(* A path is abstracted to what decides whether the kernel can follow it:  *)
(* where the process stands (cwd) and how _clar_tempdir is spelled         *)
(* (TempPath).  Sandboxes are numbered by the test they were made for.     *)
(***************************************************************************)
EXTENDS Integers

CONSTANTS
  TempPath,  (* How _clar_tempdir is spelled: "absolute" if the build has     *)
             (* realpath(3) or the environment names an absolute directory,   *)
             (* "dot" for the last resort ".", "relative" for any other       *)
             (* relative name, such as TMPDIR=tmp.                            *)
  Faults     (* What may fail in this environment: the system calls that make *)
             (* ("mkdtemp", "mkdir"), enter and remove ("rm") a directory, and *)
             (* those on the summary file; "length": the path of a sandbox may *)
             (* be too long.                                                   *)

ASSUME SandboxAssumption ==
  /\ TempPath \in {"absolute", "dot", "relative"}
  /\ Faults \subseteq {"mkdtemp", "length", "mkdir", "enter", "rm", "summary"}

VARIABLES
  tempdir,   (* The process's directory: "unset", "present" or "removed".     *)
  sandbox,   (* _clar_sandbox: the test it names, 0 for the empty string.     *)
  dirs,      (* The sandbox directories that exist on disk.                   *)
  cwd        (* The working directory of the process.                         *)

sandboxVars == <<tempdir, sandbox, dirs, cwd>>

Places == {"origin", "parent", "tempdir", "sandbox", "elsewhere"}

SandboxTypeOK ==
  /\ tempdir \in {"unset", "present", "removed"}
  /\ sandbox \in Nat
  /\ dirs \subseteq Nat
  /\ cwd \in Places

SandboxInit == tempdir = "unset" /\ sandbox = 0 /\ dirs = {} /\ cwd = "origin"

\* A relative _clar_tempdir only leads to the directory from where the process
\* was when the path was built; "." leads there from the parent as well.
Resolves(place) ==
  \/ TempPath = "absolute"
  \/ place = "origin"
  \/ TempPath = "dot" /\ place = "parent"

\* chdir(".."): the place above the working directory.
Up == CASE cwd = "sandbox" -> "tempdir"
        [] cwd = "tempdir" -> "parent"
        [] OTHER           -> "elsewhere"

TempdirReached == tempdir = "present" /\ Resolves(cwd)

\* build_tempdir_path finds a place, makes the directory, and the process
\* moves into it.
clar_tempdir_init ==
  /\ tempdir' = "present"
  /\ cwd' = "tempdir"
  /\ UNCHANGED <<sandbox, dirs>>

\* clar_sandbox_create past its assertions.  The name is stored before the
\* directory is made, and stays stored when making or entering it fails.
clar_sandbox_create(test) ==
  /\ sandbox' = test
  /\ \/ /\ TempdirReached
        /\ dirs' = dirs \cup {test}
        /\ cwd' = "sandbox" \/ ("enter" \in Faults /\ UNCHANGED cwd)
     \/ /\ TempdirReached => "mkdir" \in Faults
        /\ UNCHANGED <<dirs, cwd>>
  /\ UNCHANGED tempdir

\* Mutant of clar_sandbox_cleanup: the directory is left on disk.
SandboxStaysOnDisk ==
  /\ IF TempdirReached THEN sandbox' = 0 /\ cwd' = "tempdir"
                       ELSE UNCHANGED <<sandbox, cwd>>
  /\ UNCHANGED <<tempdir, dirs>>

\* Mutant of clar_sandbox_cleanup: the name is not emptied.
SandboxStaysNamed ==
  /\ IF TempdirReached
       THEN dirs' = dirs \ {sandbox} /\ cwd' = "tempdir"
       ELSE UNCHANGED <<dirs, cwd>>
  /\ UNCHANGED <<tempdir, sandbox>>

\* clar_sandbox_cleanup past its assertion: nothing at all when the tempdir cannot
\* be entered.
clar_sandbox_cleanup ==
  /\ IF TempdirReached
       THEN sandbox' = 0 /\ dirs' = dirs \ {sandbox} /\ cwd' = "tempdir"
       ELSE UNCHANGED <<sandbox, dirs, cwd>>
  /\ UNCHANGED tempdir

\* fs_rm(_clar_sandbox) gives up halfway, for instance on a directory the test
\* left unreadable.
SandboxRemovalFails ==
  /\ "rm" \in Faults /\ TempdirReached /\ sandbox \in dirs
  /\ cwd' = "tempdir"
  /\ UNCHANGED <<tempdir, sandbox, dirs>>

\* clar_tempdir_shutdown: step out and remove everything, silently nothing when
\* the path does not lead to the directory from there.
clar_tempdir_shutdown ==
  /\ cwd' = Up
  /\ IF Resolves(Up) THEN tempdir' = "removed" /\ dirs' = {}
                     ELSE UNCHANGED <<tempdir, dirs>>
  /\ UNCHANGED sandbox

\* The process cannot step out of where it is, or fs_rm gives up.
TempdirRemovalFails ==
  /\ "rm" \in Faults
  /\ UNCHANGED cwd \/ (Resolves(Up) /\ cwd' = Up)
  /\ UNCHANGED <<tempdir, sandbox, dirs>>
================================================================================
