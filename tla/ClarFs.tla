--------------------------------- MODULE ClarFs ---------------------------------
(***************************************************************************)
(* The helpers of fs.h, fs_copy and fs_rm, and what is built on them:      *)
(* cl_fixture_sandbox and cl_fixture_cleanup of fixtures.h, and the        *)
(* removal of the sandbox after the test.  One step is one system call.    *)
(* The recursion of the helpers is a stack of frames, the last one         *)
(* running; a failed assertion leaves all of them at once.  A build is one *)
(* of the three that fs.h can be compiled to.                              *)
(*                                                                         *)
(* The tree is a function from the paths that exist.  A symbolic link      *)
(* leads to a file outside the sandbox; permissions, other links, and      *)
(* links made on Windows are left out.                                     *)
(***************************************************************************)
EXTENDS Naturals, Sequences

CONSTANTS
  Names,        (* The names of files.                                       *)
  Fixture,      (* The path of the fixture.                                  *)
  Sandbox,      (* The path of the sandbox.                                  *)
  Trees,        (* The trees the test may begin with.                        *)
  LinkTargets,  (* The files that links made in the sandbox may lead to.     *)
  Builds,       (* Of {"sendfile", "loop", "windows"}.                       *)
  Faults,       (* The system calls that may fail for reasons of their own.  *)
  RetryCount,   (* RM_RETRY_COUNT                                            *)
  EditNames,    (* Bound: the names the test and other processes work on,    *)
  MaxEdits,     (* how often, before and between calls,                      *)
  MaxIntrusions,(* how often while a call is running,                        *)
  MaxCalls      (* and how many calls the test makes.                        *)

Path == Seq(Names)
Dir     == [kind |-> "dir",  data |-> <<>>, size |-> 0,      to |-> <<>>]
File(d) == [kind |-> "file", data |-> d,    size |-> Len(d), to |-> <<>>]
\* A link to the file q: lstat tells the length of its text, open opens the file.
Link(q, length) == [kind |-> "link", data |-> <<>>, size |-> length, to |-> q]
Node == [kind: {"dir", "file", "link"}, data: Seq(Nat), size: Nat, to: Path]

Below(p, q)  == Len(q) <= Len(p) /\ \A k \in 1..Len(q) : p[k] = q[k]
Child(p, n)  == Append(p, n)
Parent(p)    == SubSeq(p, 1, Len(p) - 1)
basename_r(p) == p[Len(p)]
Target       == Child(Sandbox, basename_r(Fixture))

ASSUME FsAssumption ==
  /\ Fixture \in Path /\ Fixture # <<>>
  /\ Sandbox \in Path /\ Sandbox # <<>>
  /\ ~Below(Fixture, Sandbox) /\ ~Below(Sandbox, Fixture)
  /\ \A t \in Trees : /\ DOMAIN t \subseteq Path
                      /\ \A p \in DOMAIN t : t[p] \in Node
                      /\ \A p \in DOMAIN t : t[p].kind = "link" =>
                           /\ Below(p, Fixture) /\ ~Below(t[p].to, Sandbox)
                           /\ t[p].to \in DOMAIN t /\ t[t[p].to].kind = "file"
  \* A link made in the sandbox leads to a file, or to where one can be made.
  /\ LinkTargets \subseteq Path
  /\ \A q \in LinkTargets, t \in Trees :
       /\ q # <<>> /\ ~Below(q, Sandbox)
       /\ IF q \in DOMAIN t
            THEN t[q].kind = "file"
            ELSE /\ ~Below(q, Fixture)
                 /\ Parent(q) \in DOMAIN t /\ t[Parent(q)].kind = "dir"
  /\ Builds \subseteq {"sendfile", "loop", "windows"}
  /\ EditNames \subseteq Names
  /\ {RetryCount, MaxEdits, MaxIntrusions, MaxCalls} \subseteq Nat

VARIABLES
  fs,        (* The tree.                                                    *)
  held,      (* Windows: the paths another process has a handle on,          *)
  pending,   (* and those of them that vanish when it is closed.             *)
  build,
  stack,     (* The helpers that are running.                                *)
  call,      (* The call of the test, "none" between calls, "over" at last.  *)
  outcome,   (* How the last call ended.                                     *)
  before,    (* History: the tree the call found.                            *)
  troubled,  (* History: a system call failed, another process interfered,   *)
             (* or an earlier call has left something that is pending.       *)
  calls, edits, intrusions

disk   == <<fs, held, pending>>
test   == <<build, before, calls>>
others == <<edits, intrusions>>
vars   == <<disk, test, others, stack, call, outcome, troubled>>

Ops == {"copy", "mkdir", "copydir", "open", "data",
        "rm", "opendir", "rmdir_helper", "unlink", "rmdir", "wait"}
\* listed and seen are the names readdir had to return, and did; left is the
\* source_len or the len of the loops, or the retries; done is the file position.
Frame == [op: Ops, source: Path, dest: Path, listed: SUBSET Names,
          seen: SUBSET Names, left: Nat, done: Nat]

Enter(op, source, dest) == [op |-> op, source |-> source, dest |-> dest,
                            listed |-> {}, seen |-> {}, left |-> 0, done |-> 0]

TypeOK ==
  /\ DOMAIN fs \subseteq Path /\ \A p \in DOMAIN fs : fs[p] \in Node
  /\ held \subseteq Path /\ pending \subseteq held
  /\ build \in Builds
  /\ stack \in Seq(Frame)
  /\ call \in {"none", "sandbox", "cleanup", "remove", "over"}
  /\ outcome \in {"none", "returned", "failed"}
  /\ troubled \in BOOLEAN
  /\ calls \in Nat /\ edits \in Nat /\ intrusions \in Nat

Init ==
  /\ fs \in Trees /\ before = fs
  /\ held = {} /\ pending = {}
  /\ build \in Builds
  /\ stack = <<>> /\ call = "none" /\ outcome = "none"
  /\ troubled = FALSE
  /\ calls = 0 /\ edits = 0 /\ intrusions = 0
--------------------------------------------------------------------------------
(* The tree, and the stack *)

Exists(p)  == p \in DOMAIN fs
IsDir(p)   == Exists(p) /\ fs[p].kind = "dir"
Listing(p) == {n \in Names : Exists(Child(p, n))}
\* What open opens.
Follow(p)  == IF Exists(p) /\ fs[p].kind = "link" THEN fs[p].to ELSE p

Put(p, node) == fs' = [q \in DOMAIN fs \cup {p} |-> IF q = p THEN node ELSE fs[q]]
Drop(p)      == fs' = [q \in DOMAIN fs \ {p} |-> fs[q]]

\* unlink and rmdir; on Windows a path that is held stays until it is released.
Delete(p) ==
  \/ p \notin held /\ Drop(p) /\ UNCHANGED pending
  \/ p \in held /\ pending' = pending \cup {p} /\ UNCHANGED fs

Windows == build = "windows"
Posix   == ~Windows
Top     == stack[Len(stack)]
At(op)  == stack # <<>> /\ Top.op = op

Become(frame)   == stack' = [stack EXCEPT ![Len(stack)] = frame]
Step(op)        == Become([Top EXCEPT !.op = op, !.left = 0])
Seen(n)    == [Top EXCEPT !.seen = @ \cup {n}]
Descend(n, frame) == stack' = Append([stack EXCEPT ![Len(stack)] = Seen(n)], frame)

Finish(result) ==
  /\ call' = IF call = "remove" THEN "over" ELSE "none"
  /\ outcome' = result

Return ==
  /\ stack' = SubSeq(stack, 1, Len(stack) - 1)
  /\ IF Len(stack) = 1 THEN Finish("returned") ELSE UNCHANGED <<call, outcome>>

\* cl_assert, cl_must_pass and cl_fail: the longjmp leaves every frame.
Longjmp == stack' = <<>> /\ Finish("failed")

Goes == UNCHANGED <<call, outcome, troubled>>
--------------------------------------------------------------------------------
(* fs_copy *)

\* A system call fails, and the assertion on its result.
SystemCallFails ==
  /\ stack # <<>>
  /\ Top.op \in Faults \ (IF Posix THEN {"mkdir"} ELSE {})
  /\ Longjmp
  /\ troubled' = TRUE
  /\ UNCHANGED <<disk, test, others>>

\* What fs_copy does with what is at dest: POSIX wants a directory, and Windows
\* nothing at the place in it.
Blocked ==
  Exists(Top.dest) /\ IF Windows THEN Exists(Child(Top.dest, basename_r(Top.source)))
                                 ELSE ~IsDir(Top.dest)

CopyStat ==
  /\ At("copy")
  /\ IF ~Exists(Top.source) \/ Blocked
       THEN Longjmp
       ELSE /\ Become([Top EXCEPT
                 !.op = IF IsDir(Top.source) THEN "mkdir" ELSE "open",
                 !.dest = IF Exists(@) THEN Child(@, basename_r(Top.source)) ELSE @,
                 !.left = fs[Top.source].size])
            /\ UNCHANGED <<call, outcome>>
  /\ UNCHANGED <<disk, test, others, troubled>>

CanCreate(p) == ~Exists(p) /\ IsDir(Parent(p)) /\ Parent(p) \notin pending

OpenDir == Become([Top EXCEPT !.op = "copydir", !.listed = Listing(Top.source)])

\* Mutant of Mkdir: its result is looked at.
MkdirChecked ==
  /\ At("mkdir") /\ Posix
  /\ IF CanCreate(Top.dest)
       THEN OpenDir /\ Put(Top.dest, Dir) /\ UNCHANGED <<call, outcome>>
       ELSE Longjmp /\ UNCHANGED fs
  /\ UNCHANGED <<held, pending, test, others, troubled>>

\* The result of mkdir is not looked at: the directory may well be there.
Mkdir ==
  /\ At("mkdir") /\ Posix
  /\ OpenDir
  /\ IF CanCreate(Top.dest) THEN Put(Top.dest, Dir) ELSE UNCHANGED fs
  /\ Goes
  /\ UNCHANGED <<held, pending, test, others>>

MkdirFailsUnseen ==
  /\ At("mkdir") /\ Posix /\ "mkdir" \in Faults
  /\ OpenDir
  /\ troubled' = TRUE
  /\ UNCHANGED <<disk, test, others, call, outcome>>

CreateDirectory ==
  /\ At("mkdir") /\ Windows
  /\ IF CanCreate(Top.dest)
       THEN OpenDir /\ Put(Top.dest, Dir) /\ UNCHANGED <<call, outcome>>
       ELSE Longjmp /\ UNCHANGED fs
  /\ UNCHANGED <<held, pending, test, others, troubled>>

\* The recursion of fs_copydir_helper: on POSIX through fs_copy, which finds the
\* name again; on Windows straight to the helpers, by the kind FindNextFile gives.
CopyNext ==
  /\ At("copydir")
  /\ \E n \in Top.listed \ Top.seen :
       LET child == Child(Top.source, n)
       IN Descend(n, IF Posix THEN Enter("copy", child, Top.dest)
                     ELSE Enter(IF IsDir(child) THEN "mkdir" ELSE "open",
                                child, Child(Top.dest, n)))
  /\ Goes
  /\ UNCHANGED <<disk, test, others>>

CopyDirReturns ==
  /\ At("copydir") /\ Top.listed \subseteq Top.seen
  /\ Return
  /\ UNCHANGED <<disk, test, others, troubled>>
--------------------------------------------------------------------------------
(* fs_copyfile_helper *)

Source  == Follow(Top.source)
Dest    == Follow(Top.dest)
Content == IF Exists(Source) THEN fs[Source].data ELSE <<>>
Unread  == Len(Content) - Top.done

\* O_CREAT and O_TRUNC follow a link that stands at dest.
Open ==
  /\ At("open") /\ Posix
  /\ IF CanCreate(Dest) \/ (Exists(Dest) /\ ~IsDir(Dest))
       THEN /\ Become([Top EXCEPT !.op = "data",
                         !.left = IF build = "sendfile" THEN @ ELSE 0])
            /\ Put(Dest, File(<<>>))
            /\ UNCHANGED <<call, outcome>>
       ELSE Longjmp /\ UNCHANGED fs
  /\ UNCHANGED <<held, pending, test, others, troubled>>

CopyFile ==
  /\ At("open") /\ Windows
  /\ IF CanCreate(Top.dest)
       THEN Put(Top.dest, File(Content)) /\ Return
       ELSE Longjmp /\ UNCHANGED fs
  /\ UNCHANGED <<held, pending, test, others, troubled>>

\* read: any part of what is left, into buf.
Read ==
  /\ At("data") /\ build = "loop" /\ Top.left = 0
  /\ \E n \in 1..Unread : Become([Top EXCEPT !.left = n])
  /\ Goes
  /\ UNCHANGED <<disk, test, others>>

\* Mutant of Transfer: what a short write leaves of the buffer is dropped.
TransferOnce(n) ==
  /\ Put(Dest, File(fs[Dest].data \o SubSeq(Content, Top.done + 1, Top.done + n)))
  /\ Become([Top EXCEPT !.left = 0, !.done = @ + Top.left])

Transfer(n) ==
  /\ Put(Dest, File(fs[Dest].data \o SubSeq(Content, Top.done + 1, Top.done + n)))
  /\ Become([Top EXCEPT !.left = @ - n, !.done = @ + n])

\* sendfile, or write: any part of the length it is given.
Write ==
  /\ At("data") /\ Exists(Dest)
  /\ \E n \in 1..Top.left : n <= Unread /\ Transfer(n)
  /\ Goes
  /\ UNCHANGED <<held, pending, test, others>>

\* The end: of the length lstat gave, for sendfile, or of the file.
CopyFileReturns ==
  /\ At("data")
  /\ Unread = 0 \/ build = "sendfile"
  /\ Top.left = 0 \/ Unread = 0
  /\ Return
  /\ UNCHANGED <<disk, test, others, troubled>>
--------------------------------------------------------------------------------
(* fs_rm *)

RmStat ==
  /\ At("rm")
  /\ IF Exists(Top.dest)
       THEN Step(IF IsDir(Top.dest) THEN "opendir" ELSE "unlink") /\ UNCHANGED <<call, outcome>>
       ELSE Return
  /\ UNCHANGED <<disk, test, others, troubled>>

RmOpenDir ==
  /\ At("opendir")
  /\ IF IsDir(Top.dest)
       THEN /\ Become([Top EXCEPT !.op = "rmdir_helper", !.listed = Listing(Top.dest)])
            /\ UNCHANGED <<call, outcome>>
       ELSE Longjmp
  /\ UNCHANGED <<disk, test, others, troubled>>

\* Mutant of RmNext: the name ".." is not left out.
RmNextDotDot ==
  /\ At("rmdir_helper")
  /\ \E n \in (Top.listed \cup Listing(Top.dest) \cup {".."}) \ Top.seen :
       LET child == IF n = ".." THEN Parent(Top.dest) ELSE Child(Top.dest, n)
       IN Descend(n, Enter("rm", child, child))
  /\ Goes
  /\ UNCHANGED <<disk, test, others>>

\* A name that came or went since opendir may be returned, or not.
RmNext ==
  /\ At("rmdir_helper")
  /\ \E n \in (Top.listed \cup Listing(Top.dest)) \ Top.seen :
       LET child == Child(Top.dest, n)
       IN Descend(n, Enter(IF Posix THEN "rm" ELSE IF IsDir(child) THEN "opendir" ELSE "unlink",
                           child, child))
  /\ Goes
  /\ UNCHANGED <<disk, test, others>>

RmListed ==
  /\ At("rmdir_helper") /\ Top.listed \cap Listing(Top.dest) \subseteq Top.seen
  /\ Step("rmdir")
  /\ Goes
  /\ UNCHANGED <<disk, test, others>>

\* Mutant of Deleted: nobody waits.
DeletedAtOnce == Delete(Top.dest) /\ Return

\* What is at dest was deleted; fs_rm itself, on Windows, waits until it is gone.
Deleted ==
  /\ Delete(Top.dest)
  /\ IF Windows /\ Len(stack) = 1 THEN Step("wait") /\ UNCHANGED <<call, outcome>>
                                  ELSE Return

Unlink ==
  /\ At("unlink")
  /\ IF Exists(Top.dest) /\ ~IsDir(Top.dest) /\ Top.dest \notin pending
       THEN Deleted
       ELSE Longjmp /\ UNCHANGED <<fs, pending>>
  /\ UNCHANGED <<held, test, others, troubled>>

Rmdir ==
  /\ At("rmdir")
  /\ IsDir(Top.dest) /\ Listing(Top.dest) = {} /\ Top.dest \notin pending
  /\ Deleted
  /\ UNCHANGED <<held, test, others, troubled>>

\* Mutant of Retry: the retries are not counted.
RetryForEver ==
  /\ Windows /\ Top.left < RetryCount
  /\ UNCHANGED <<stack, call, outcome>>

\* Mutant of Retry: they are counted down.
RetryDown ==
  /\ Windows /\ Top.left < RetryCount
  /\ Become([Top EXCEPT !.left = @ - 1])
  /\ UNCHANGED <<call, outcome>>

\* Only Windows tries again, and only while something is in the directory.
Retry ==
  /\ Windows /\ Top.left < RetryCount
  /\ Become([Top EXCEPT !.left = @ + 1])
  /\ UNCHANGED <<call, outcome>>

GiveUp == Top.left >= RetryCount /\ Longjmp

RmdirAgain ==
  /\ At("rmdir") /\ IsDir(Top.dest) /\ Listing(Top.dest) # {}
  /\ Retry \/ (Windows /\ GiveUp) \/ (Posix /\ Longjmp)
  /\ UNCHANGED <<disk, test, others, troubled>>

RmdirFails ==
  /\ At("rmdir")
  /\ ~IsDir(Top.dest) \/ Top.dest \in pending
  /\ Longjmp
  /\ UNCHANGED <<disk, test, others, troubled>>

\* fs_rm_wait
Wait ==
  /\ At("wait")
  /\ \/ ~Exists(Top.dest) /\ Return
     \/ Exists(Top.dest) /\ (Retry \/ GiveUp)
  /\ UNCHANGED <<disk, test, others, troubled>>
--------------------------------------------------------------------------------
(* The calls of the test, and of clar_sandbox_cleanup after it *)

Call(name, frame) ==
  /\ call = "none" /\ call' = name
  /\ stack' = <<frame>>
  /\ outcome' = "none" /\ troubled' = (pending # {})
  /\ before' = fs
  /\ UNCHANGED <<disk, build, others>>

cl_fixture_sandbox ==
  /\ calls < MaxCalls /\ outcome # "failed"
  /\ Call("sandbox", Enter("copy", Fixture, Sandbox))
  /\ calls' = calls + 1

cl_fixture_cleanup ==
  /\ calls < MaxCalls /\ outcome # "failed"
  /\ Call("cleanup", Enter("rm", Target, Target))
  /\ calls' = calls + 1

clar_sandbox_cleanup ==
  /\ Call("remove", Enter("rm", Sandbox, Sandbox))
  /\ UNCHANGED calls
--------------------------------------------------------------------------------
(* The test between its calls, and other processes during them *)

Links == IF Posix THEN {Link(q, 1) : q \in LinkTargets} ELSE {}

\* Something new is made, or something is removed that nothing is in.
Edited(nodes) ==
  \E p \in {q \in DOMAIN fs \ pending : Below(q, Sandbox) /\ IsDir(q)}, n \in EditNames :
    LET q == Child(p, n)
    IN IF ~Exists(q) THEN \E node \in nodes : Put(q, node)
       ELSE Listing(q) = {} /\ q \notin held /\ Drop(q)

test_edits ==
  /\ call = "none" /\ outcome # "failed" /\ edits < MaxEdits
  /\ Edited({Dir, File(<<0>>)} \cup Links)
  /\ edits' = edits + 1
  /\ UNCHANGED <<held, pending, test, intrusions, stack, call, outcome, troubled>>

\* Another process makes or removes something, but not while a file is written.
Interferes ==
  /\ stack # <<>> /\ ~At("data") /\ intrusions < MaxIntrusions
  /\ Edited({File(<<0>>)} \cup Links)
  /\ intrusions' = intrusions + 1
  /\ troubled' = TRUE
  /\ UNCHANGED <<held, pending, test, edits, stack, call, outcome>>

Holds ==
  /\ Windows /\ intrusions < MaxIntrusions
  /\ \E p \in DOMAIN fs \ held : Below(p, Sandbox) /\ held' = held \cup {p}
  /\ intrusions' = intrusions + 1
  /\ UNCHANGED <<fs, pending, test, edits, stack, call, outcome, troubled>>

Releases ==
  /\ \E p \in held :
       /\ held' = held \ {p} /\ pending' = pending \ {p}
       /\ IF p \in pending THEN Drop(p) ELSE UNCHANGED fs
  /\ UNCHANGED <<test, others, stack, call, outcome, troubled>>

Idle == stack = <<>> /\ UNCHANGED vars
--------------------------------------------------------------------------------
Copies == \/ CopyStat \/ Mkdir \/ MkdirFailsUnseen \/ CreateDirectory \/ CopyNext
          \/ CopyDirReturns \/ Open \/ CopyFile \/ Read \/ Write \/ CopyFileReturns

Deletes == \/ RmStat \/ RmOpenDir \/ RmNext \/ RmListed \/ Unlink \/ Rmdir
           \/ RmdirAgain \/ RmdirFails \/ Wait

Driver == Copies \/ Deletes \/ SystemCallFails

Next == \/ Driver
        \/ cl_fixture_sandbox \/ cl_fixture_cleanup \/ clar_sandbox_cleanup
        \/ test_edits \/ Interferes \/ Holds \/ Releases \/ Idle

Spec == Init /\ [][Next]_vars
\* One thread; nobody else is bound to do anything.
FairSpec == Spec /\ WF_vars(Driver)
--------------------------------------------------------------------------------
(* What a copy of a node holds. *)
Data(node) == IF node.kind = "link" THEN before[node.to].data ELSE node.data
WholeCopy(node) == IF node.kind = "dir" THEN Dir ELSE File(Data(node))

LeastOf(m, n) == IF m < n THEN m ELSE n
BuiltCopy(node) ==
  IF node.kind = "link" /\ build = "sendfile"
    THEN File(SubSeq(Data(node), 1, LeastOf(node.size, Len(Data(node)))))
    ELSE WholeCopy(node)

Image(s)  == Target \o SubSeq(s, Len(Fixture) + 1, Len(s))
Originals == {p \in DOMAIN before : Below(p, Fixture)}

\* An empty directory with something of another kind in its place: mkdir fails, and
\* nothing else is done that could fail (fs.h:369).
Unmade(s) ==
  /\ Posix /\ before[s].kind = "dir" /\ \A p \in Originals : Below(p, s) => p = s
  /\ Image(s) \in DOMAIN before /\ before[Image(s)].kind # "dir"

\* The calls keep what they promise to the test, seen from call to return: the
\* fixture, but for the directories that are Unmade, is copied whole and over
\* nothing else, whatever parts read, write and sendfile take; a removed tree is
\* gone, whoever else works in it or holds it; a call that fails has changed nothing
\* outside the sandbox but files that links in it lead to (fs_copy, fs_rm,
\* cl_fixture_sandbox, cl_fixture_cleanup, clar_sandbox_cleanup).
FixtureTree(Copy(_)) == [s \in {p \in Originals : ~Unmade(p)} |-> Copy(before[s])]
FilesRead == {IF before[s].kind = "link" THEN before[s].to ELSE s : s \in Originals}
Found == IF stack = <<>> THEN fs ELSE before

Fixtures == INSTANCE FixtureCalls WITH tree <- Found, copy <- FixtureTree(BuiltCopy),
                                       sources <- FilesRead
KeepsFixtures == Fixtures!FixtureSpec

\* The same where a link is followed to all of its file, as the read/write loop
\* does it, for which sendfile is a faster replacement (fs.h:1-5).
WholeFixtures == INSTANCE FixtureCalls WITH tree <- Found, copy <- FixtureTree(WholeCopy),
                                            sources <- FilesRead
LinksAreFollowed == WholeFixtures!FixtureSpec

\* A call fails for a reason: a system call failed, another process interfered or,
\* on Windows, kept a handle through all retries; or something of another kind is
\* in the place of the copy, on Windows anything.
InTheWay ==
  /\ call = "sandbox"
  /\ \E s \in Originals :
       /\ Image(s) \in DOMAIN before
       /\ Windows \/ (before[s].kind = "dir") # (before[Image(s)].kind = "dir")

FailsForAReason ==
  [][outcome = "none" /\ outcome' = "failed" => troubled' \/ InTheWay \/ held # {}]_vars

\* The files that links in the sandbox lead to.
Reached == {fs[p].to : p \in {q \in DOMAIN fs : Below(q, Sandbox) /\ fs[q].kind = "link"}}

\* No step changes anything outside the sandbox, in particular not the fixture that
\* is copied, but for a copy, which writes through links that stand in its way
\* (fs.h:400). A removal takes the names below its directory, and the links
\* themselves.
StaysInside ==
  [][\A p \in DOMAIN fs \cup DOMAIN fs' :
       \/ Below(p, Sandbox)
       \/ call = "sandbox" /\ p \in Reached
       \/ p \in DOMAIN fs \cap DOMAIN fs' /\ fs'[p] = fs[p]]_vars

\* What a removal was called for.
Goal == IF call = "cleanup" THEN Target ELSE Sandbox

\* When a removal returns, what it was called for is not there: at that very step,
\* also if another process makes it anew right after (fs_rm, fs_rm_wait).
GoneOnReturn ==
  [][(call \in {"cleanup", "remove"} /\ outcome = "none" /\ outcome' = "returned")
       => Goal \notin DOMAIN fs']_vars

\* Every call ends, whatever fails and whoever interferes: the retries are counted,
\* and the loops take what is left in at least one byte at a time.
CallsEnd == stack # <<>> ~> stack = <<>>
--------------------------------------------------------------------------------
(* The inductive invariant. *)

RmOps == {"rm", "opendir", "rmdir_helper", "unlink", "rmdir", "wait"}

\* Every frame works in the sandbox; in a removal, every frame removes, and the
\* first one what the call is about.
FramesInside ==
  \A k \in 1..Len(stack) : stack[k].source # <<>> /\ Below(stack[k].dest, Sandbox)

CallsRooted ==
  /\ ((stack = <<>>) <=> (call \in {"none", "over"}))
  /\ stack # <<>> => outcome = "none"
  /\ call \in {"cleanup", "remove"} =>
       stack[1].dest = Goal /\ \A k \in 1..Len(stack) : stack[k].op \in RmOps

HeldInside == (\A p \in held : Below(p, Sandbox)) /\ (Posix => held = {})

\* What the steps keep, and what StaysInside and GoneOnReturn rest on.
FsInv == TypeOK /\ FramesInside /\ CallsRooted /\ HeldInside
================================================================================
