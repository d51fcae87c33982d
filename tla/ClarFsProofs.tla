------------------------------ MODULE ClarFsProofs ------------------------------
(***************************************************************************)
(* FsInv is inductive: whatever the trees, the faults, the builds and the  *)
(* intruders, the helpers of fs.h are called for paths in the sandbox, a   *)
(* removal changes nothing outside it, a copy only the files that links in *)
(* it lead to, and a removal that returns has removed what it was called   *)
(* for.                                                                    *)
(*                                                                         *)
(* Each action is reduced to what it does to the disk (DiskStep) and to    *)
(* the stack (StackStep); the invariant is preserved by those.             *)
(***************************************************************************)
EXTENDS ClarFs, SequenceTheorems, TLAPS

(* The conjuncts of FsInv, by the variables they are about. *)
Nodes(tree) == DOMAIN tree \subseteq Path /\ \A p \in DOMAIN tree : tree[p] \in Node
DiskOK == /\ Nodes(fs)
          /\ held \subseteq Path /\ pending \subseteq held
          /\ HeldInside
StackOK == /\ stack \in Seq(Frame)
           /\ call \in {"none", "sandbox", "cleanup", "remove", "over"}
           /\ outcome \in {"none", "returned", "failed"}
           /\ FramesInside /\ CallsRooted
RestOK == /\ build \in Builds /\ troubled \in BOOLEAN
          /\ calls \in Nat /\ edits \in Nat /\ intrusions \in Nat

LEMMA Parts == FsInv <=> DiskOK /\ StackOK /\ RestOK
BY DEF FsInv, TypeOK, DiskOK, StackOK, RestOK, Nodes
--------------------------------------------------------------------------------
(* Paths *)

\* A child is a path below whatever its parent is below.
LEMMA Children ==
  ASSUME NEW p \in Path, NEW n \in Names
  PROVE  /\ Child(p, n) \in Path /\ Child(p, n) # <<>>
         /\ \A q \in Path : Below(p, q) => Below(Child(p, n), q)
<1>1. Child(p, n) \in Path /\ Len(Child(p, n)) = Len(p) + 1 /\ Len(p) \in Nat
  BY DEF Child, Path
<1>2. \A k \in 1..Len(p) : Child(p, n)[k] = p[k]
  BY DEF Child, Path
<1>3. ASSUME NEW q \in Path, Below(p, q) PROVE Below(Child(p, n), q)
  BY <1>1, <1>2, <1>3 DEF Below, Path
<1> QED BY <1>1, <1>3

\* The base name of a path that is not empty is a name.
LEMMA Basenames ==
  ASSUME NEW p \in Path, p # <<>>
  PROVE  basename_r(p) \in Names
BY DEF Path, basename_r

LEMMA Reflexive == ASSUME NEW p \in Path PROVE Below(p, p)
BY DEF Below, Path

\* The sandbox and the fixture's place in it are paths in the sandbox.
LEMMA Goals == /\ Sandbox \in Path /\ Sandbox # <<>> /\ Below(Sandbox, Sandbox)
               /\ Target \in Path /\ Target # <<>> /\ Below(Target, Sandbox)
               /\ Fixture \in Path /\ Fixture # <<>>
<1>1. Sandbox \in Path /\ Sandbox # <<>> /\ Fixture \in Path /\ Fixture # <<>>
  BY FsAssumption
<1>2. Below(Sandbox, Sandbox)
  BY <1>1, Reflexive
<1>3. basename_r(Fixture) \in Names
  BY <1>1, Basenames
<1> QED BY <1>1, <1>2, <1>3, Children DEF Target
--------------------------------------------------------------------------------
(* The disk *)

PutInside(p, node) == p \in Path /\ Below(p, Sandbox) /\ node \in Node /\ Put(p, node)
PutThrough(p, node) == /\ call = "sandbox" /\ p \in DOMAIN fs /\ Below(p, Sandbox)
                       /\ fs[p].kind = "link" /\ node \in Node /\ Put(fs[p].to, node)
DropInside(p)      == Below(p, Sandbox) /\ Drop(p)

DiskStep ==
  \/ UNCHANGED disk
  \/ \E p, node : PutInside(p, node) /\ UNCHANGED <<held, pending>>
  \/ \E p, node : PutThrough(p, node) /\ UNCHANGED <<held, pending>>
  \/ \E p : DropInside(p) /\ UNCHANGED <<held, pending>>
  \/ \E p \in held : pending' = pending \cup {p} /\ UNCHANGED <<fs, held>>
  \/ \E p \in DOMAIN fs : /\ Windows /\ Below(p, Sandbox)
                          /\ held' = held \cup {p} /\ UNCHANGED <<fs, pending>>
  \/ \E p \in held : /\ held' = held \ {p} /\ pending' = pending \ {p}
                     /\ fs' = fs \/ DropInside(p)

StaysAt(p) == \/ Below(p, Sandbox)
              \/ call = "sandbox" /\ p \in Reached
              \/ p \in DOMAIN fs \cap DOMAIN fs' /\ fs'[p] = fs[p]

LEMMA Puts ==
  ASSUME NEW p, NEW node, PutInside(p, node), Nodes(fs)
  PROVE  Nodes(fs)' /\ \A q \in DOMAIN fs \cup DOMAIN fs' : StaysAt(q)
BY DEF PutInside, Put, Nodes, StaysAt

LEMMA PutsThrough ==
  ASSUME NEW p, NEW node, PutThrough(p, node), Nodes(fs)
  PROVE  Nodes(fs)' /\ \A q \in DOMAIN fs \cup DOMAIN fs' : StaysAt(q)
<1>1. fs[p].to \in Path /\ fs[p].to \in Reached
  BY DEF PutThrough, Nodes, Node, Reached
<1> QED BY <1>1 DEF PutThrough, Put, Nodes, StaysAt

LEMMA Drops ==
  ASSUME NEW p, DropInside(p), Nodes(fs)
  PROVE  Nodes(fs)' /\ \A q \in DOMAIN fs \cup DOMAIN fs' : StaysAt(q)
BY DEF DropInside, Drop, Nodes, StaysAt

LEMMA DiskSteps ==
  ASSUME DiskOK, DiskStep, UNCHANGED build
  PROVE  DiskOK' /\ \A q \in DOMAIN fs \cup DOMAIN fs' : StaysAt(q)
<1>1. CASE UNCHANGED disk
  BY <1>1 DEF DiskOK, Nodes, HeldInside, Posix, Windows, disk, StaysAt
<1>2. CASE \E p, node : PutInside(p, node) /\ UNCHANGED <<held, pending>>
  BY <1>2, Puts DEF DiskOK, HeldInside, Posix, Windows
<1>3. CASE \E p : DropInside(p) /\ UNCHANGED <<held, pending>>
  BY <1>3, Drops DEF DiskOK, HeldInside, Posix, Windows
<1>4. CASE \E p \in held : pending' = pending \cup {p} /\ UNCHANGED <<fs, held>>
  BY <1>4 DEF DiskOK, Nodes, HeldInside, Posix, Windows, StaysAt
<1>5. CASE \E p \in DOMAIN fs : /\ Windows /\ Below(p, Sandbox)
                                /\ held' = held \cup {p} /\ UNCHANGED <<fs, pending>>
  BY <1>5 DEF DiskOK, Nodes, HeldInside, Posix, Windows, StaysAt
<1>6. CASE \E p \in held : /\ held' = held \ {p} /\ pending' = pending \ {p}
                           /\ fs' = fs \/ DropInside(p)
  <2>1. PICK p \in held : /\ held' = held \ {p} /\ pending' = pending \ {p}
                          /\ fs' = fs \/ DropInside(p)
    BY <1>6
  <2>2. Nodes(fs)' /\ \A q \in DOMAIN fs \cup DOMAIN fs' : StaysAt(q)
    BY <2>1, Drops DEF DiskOK, Nodes, StaysAt
  <2> QED BY <2>1, <2>2 DEF DiskOK, HeldInside, Posix, Windows
<1>7. CASE \E p, node : PutThrough(p, node) /\ UNCHANGED <<held, pending>>
  BY <1>7, PutsThrough DEF DiskOK, HeldInside, Posix, Windows
<1> QED BY <1>1, <1>2, <1>3, <1>4, <1>5, <1>6, <1>7 DEF DiskStep
--------------------------------------------------------------------------------
(* The stack *)

\* A frame that may be on the stack.
Fine(frame) == frame \in Frame /\ frame.source # <<>> /\ Below(frame.dest, Sandbox)
\* A frame that may take the place of the last one.
Follows(frame) ==
  /\ Fine(frame)
  /\ call \in {"cleanup", "remove"} => frame.op \in RmOps
  /\ (Len(stack) = 1 /\ call \in {"cleanup", "remove"}) => frame.dest = Goal

StackStep ==
  \/ UNCHANGED <<stack, call, outcome>>
  \/ stack # <<>> /\ \E frame : Follows(frame) /\ Become(frame) /\ UNCHANGED <<call, outcome>>
  \/ stack # <<>> /\ \E n \in Names : \E frame :
       /\ Fine(frame) /\ Descend(n, frame) /\ UNCHANGED <<call, outcome>>
       /\ call \in {"cleanup", "remove"} => frame.op \in RmOps
  \/ stack # <<>> /\ Return
  \/ stack # <<>> /\ Longjmp
  \/ \E name \in {"sandbox", "cleanup", "remove"} : \E frame :
       /\ call = "none" /\ call' = name /\ outcome' = "none"
       /\ stack' = <<frame>> /\ Fine(frame)
       /\ name # "sandbox" =>
            frame.op \in RmOps /\ frame.dest = IF name = "cleanup" THEN Target ELSE Sandbox

LEMMA Tops ==
  ASSUME StackOK, stack # <<>>
  PROVE  /\ Len(stack) \in Nat \ {0} /\ Fine(Top)
         /\ call \in {"sandbox", "cleanup", "remove"} /\ outcome = "none"
         /\ call # "sandbox" => Top.op \in RmOps
         /\ (Len(stack) = 1 /\ call # "sandbox") => Top.dest = Goal
<1>1. stack \in Seq(Frame) /\ Len(stack) \in Nat \ {0}
  BY DEF StackOK
<1>2. Top \in Frame
  BY <1>1 DEF Top
<1>3. Top.source # <<>> /\ Below(Top.dest, Sandbox)
  BY <1>1 DEF StackOK, FramesInside, Top
<1>4. call \in {"sandbox", "cleanup", "remove"} /\ outcome = "none"
  BY DEF StackOK, CallsRooted
<1>5. /\ call # "sandbox" => Top.op \in RmOps
      /\ (Len(stack) = 1 /\ call # "sandbox") => Top.dest = Goal
  BY <1>1, <1>4 DEF StackOK, CallsRooted, Top
<1> QED BY <1>1, <1>2, <1>3, <1>4, <1>5 DEF Fine

\* The last frame is replaced.
LEMMA Becomes ==
  ASSUME StackOK, stack # <<>>, NEW frame, Follows(frame), Become(frame),
         UNCHANGED <<call, outcome>>
  PROVE  StackOK'
<1>1. /\ stack \in Seq(Frame) /\ Len(stack) \in Nat \ {0} /\ frame \in Frame
      /\ call \in {"sandbox", "cleanup", "remove"} /\ outcome = "none"
  BY Tops DEF StackOK, Follows, Fine
<1>2. /\ stack' \in Seq(Frame) /\ Len(stack') = Len(stack) /\ stack' # <<>>
      /\ \A k \in 1..Len(stack) : stack'[k] = IF k = Len(stack) THEN frame ELSE stack[k]
  BY <1>1 DEF Become
<1>3. FramesInside'
  BY <1>1, <1>2 DEF StackOK, FramesInside, Follows, Fine
<1>4. stack'[1] = IF Len(stack) = 1 THEN frame ELSE stack[1]
  BY <1>1, <1>2
<1>5. CallsRooted'
  BY <1>1, <1>2, <1>4 DEF StackOK, CallsRooted, Follows, Goal
<1> QED BY <1>1, <1>2, <1>3, <1>5 DEF StackOK

\* A frame is put on top, and the one below it remembers a name.
LEMMA Descends ==
  ASSUME StackOK, stack # <<>>, NEW n \in Names, NEW frame, Fine(frame),
         Descend(n, frame), UNCHANGED <<call, outcome>>,
         call \in {"cleanup", "remove"} => frame.op \in RmOps
  PROVE  StackOK'
<1> DEFINE base == [stack EXCEPT ![Len(stack)] = Seen(n)]
<1>1. /\ stack \in Seq(Frame) /\ Len(stack) \in Nat \ {0} /\ frame \in Frame
      /\ call \in {"sandbox", "cleanup", "remove"} /\ outcome = "none"
      /\ Top \in Frame
  BY Tops DEF StackOK, Fine
<1>2. /\ Seen(n) \in Frame
      /\ Seen(n).source = Top.source /\ Seen(n).dest = Top.dest /\ Seen(n).op = Top.op
  BY <1>1 DEF Frame, Seen
<1>3. /\ base \in Seq(Frame) /\ Len(base) = Len(stack)
      /\ \A k \in 1..Len(stack) : base[k] = IF k = Len(stack) THEN Seen(n) ELSE stack[k]
  BY <1>1, <1>2
<1>4. stack' = Append(base, frame)
  BY DEF Descend
<1> HIDE DEF base
<1>5. /\ stack' \in Seq(Frame) /\ Len(stack') = Len(stack) + 1 /\ stack' # <<>>
      /\ \A k \in 1..Len(stack) : stack'[k] = base[k]
      /\ stack'[Len(stack) + 1] = frame
  BY <1>1, <1>3, <1>4
<1>6. \A k \in 1..Len(stack) : /\ stack'[k].source = stack[k].source
                               /\ stack'[k].dest = stack[k].dest
                               /\ stack'[k].op = stack[k].op
  BY <1>2, <1>3, <1>5 DEF Top
<1>7. FramesInside'
  BY <1>1, <1>5, <1>6 DEF StackOK, FramesInside, Fine
<1>8. CallsRooted'
  BY <1>1, <1>5, <1>6 DEF StackOK, CallsRooted, Goal
<1> QED BY <1>1, <1>5, <1>7, <1>8 DEF StackOK

\* All of a sequence but its last element.
LEMMA Fronts ==
  ASSUME NEW S, NEW s \in Seq(S), s # <<>>
  PROVE  /\ SubSeq(s, 1, Len(s) - 1) \in Seq(S)
         /\ Len(SubSeq(s, 1, Len(s) - 1)) = Len(s) - 1
         /\ \A k \in 1..(Len(s) - 1) : SubSeq(s, 1, Len(s) - 1)[k] = s[k]
<1>1. PICK n \in Nat : n = Len(s) - 1
  OBVIOUS
<1>2. \A k \in 1..n : s[k] \in S
  BY <1>1
<1>3. /\ SubSeq(s, 1, n) \in Seq(S) /\ Len(SubSeq(s, 1, n)) = n
      /\ \A k \in 1..n : SubSeq(s, 1, n)[k] = s[k]
  BY <1>1, <1>2
<1> QED BY <1>1, <1>3

\* The last frame returns to the one below it, or the call to the test.
LEMMA Returns ==
  ASSUME StackOK, stack # <<>>, Return
  PROVE  StackOK'
<1>1. /\ stack \in Seq(Frame) /\ Len(stack) \in Nat \ {0}
      /\ call \in {"sandbox", "cleanup", "remove"} /\ outcome = "none"
      /\ stack' = SubSeq(stack, 1, Len(stack) - 1)
  BY Tops DEF StackOK, Return
<1>2. /\ stack' \in Seq(Frame) /\ Len(stack') = Len(stack) - 1
      /\ \A k \in 1..(Len(stack) - 1) : stack'[k] = stack[k]
  BY <1>1, Fronts
<1>3. FramesInside'
  BY <1>1, <1>2 DEF StackOK, FramesInside
<1>4. CASE Len(stack) = 1
  <2>1. stack' = <<>> /\ call' \in {"none", "over"} /\ outcome' = "returned"
    BY <1>1, <1>2, <1>4 DEF Return, Finish
  <2> QED BY <1>2, <1>3, <2>1 DEF StackOK, CallsRooted
<1>5. CASE Len(stack) # 1
  <2>1. stack' # <<>> /\ stack'[1] = stack[1] /\ UNCHANGED <<call, outcome>>
    <3>1. Len(stack') >= 1 /\ 1 \in 1..(Len(stack) - 1)
      <4>1. Len(stack) \in Nat \ {0, 1} /\ Len(stack') = Len(stack) - 1
        BY <1>1, <1>2, <1>5
      <4> QED BY <4>1
    <3>2. UNCHANGED <<call, outcome>>
      BY <1>5 DEF Return
    <3>3. stack' # <<>>
      BY <1>2, <3>1
    <3>4. stack'[1] = stack[1]
      BY <1>2, <3>1
    <3> QED BY <3>2, <3>3, <3>4
  <2>2. \A k \in 1..Len(stack') : k \in 1..Len(stack) /\ stack'[k] = stack[k]
    BY <1>1, <1>2
  <2>3. CallsRooted'
    BY <2>1, <2>2 DEF StackOK, CallsRooted, Goal
  <2> QED BY <1>2, <1>3, <2>1, <2>3 DEF StackOK
<1> QED BY <1>4, <1>5

LEMMA Longjmps ==
  ASSUME StackOK, Longjmp
  PROVE  StackOK'
BY DEF StackOK, Longjmp, Finish, FramesInside, CallsRooted

LEMMA Begins ==
  ASSUME StackOK, NEW name \in {"sandbox", "cleanup", "remove"}, NEW frame,
         call' = name, outcome' = "none", stack' = <<frame>>, Fine(frame),
         name # "sandbox" =>
           frame.op \in RmOps /\ frame.dest = IF name = "cleanup" THEN Target ELSE Sandbox
  PROVE  StackOK'
<1>1. stack' \in Seq(Frame) /\ stack' # <<>> /\ Len(stack') = 1 /\ stack'[1] = frame
  BY DEF Fine
<1> QED BY <1>1 DEF StackOK, FramesInside, CallsRooted, Goal, Fine

LEMMA StackSteps ==
  ASSUME StackOK, StackStep
  PROVE  StackOK'
<1>1. CASE UNCHANGED <<stack, call, outcome>>
  BY <1>1 DEF StackOK, FramesInside, CallsRooted, Goal
<1> QED BY <1>1, Becomes, Descends, Returns, Longjmps, Begins DEF StackStep
--------------------------------------------------------------------------------
(* The actions *)

\* What every step leaves alone, or counts.
LEMMA Rests ==
  ASSUME FsInv, [Next]_vars
  PROVE  RestOK' /\ UNCHANGED build
<1> USE DEF RestOK, disk, test, others, Goes
<1>0. RestOK
  BY Parts
<1>1. CASE Copies
  BY <1>0, <1>1 DEF Copies, CopyStat, Mkdir, MkdirFailsUnseen, CreateDirectory, CopyNext,
     CopyDirReturns, Open, CopyFile, Read, Write, CopyFileReturns
<1>2. CASE Deletes \/ SystemCallFails
  BY <1>0, <1>2 DEF Deletes, SystemCallFails, RmStat, RmOpenDir, RmNext, RmListed, Unlink,
     Rmdir, RmdirAgain, RmdirFails, Wait
<1>3. CASE cl_fixture_sandbox \/ cl_fixture_cleanup \/ clar_sandbox_cleanup
  <2>1. calls' \in Nat /\ UNCHANGED <<build, edits, intrusions>>
    BY <1>0, <1>3 DEF cl_fixture_sandbox, cl_fixture_cleanup, clar_sandbox_cleanup, Call
  <2>2. troubled' \in BOOLEAN
    BY <1>3, Zenon DEF cl_fixture_sandbox, cl_fixture_cleanup, clar_sandbox_cleanup, Call
  <2> QED BY <1>0, <2>1, <2>2
<1>4. CASE test_edits
  BY <1>0, <1>4 DEF test_edits
<1>5. CASE Interferes
  BY <1>0, <1>5 DEF Interferes
<1>6. CASE Holds \/ Releases
  BY <1>0, <1>6 DEF Holds, Releases
<1>7. CASE Idle \/ UNCHANGED vars
  BY <1>0, <1>7 DEF Idle, vars
<1> QED BY <1>1, <1>2, <1>3, <1>4, <1>5, <1>6, <1>7 DEF Next, Driver

Steps == DiskStep /\ StackStep

LEMMA Running ==
  ASSUME FsInv, stack # <<>>
  PROVE  /\ Len(stack) \in Nat \ {0} /\ Fine(Top) /\ Top \in Frame /\ Top.dest \in Path
         /\ Top.source \in Path /\ Top.source # <<>> /\ Below(Top.dest, Sandbox)
         /\ Top.listed \subseteq Names /\ Top.left \in Nat /\ Top.done \in Nat
         /\ call \in {"sandbox", "cleanup", "remove"} /\ outcome = "none"
         /\ call \in {"cleanup", "remove"} => Top.op \in RmOps
         /\ (Len(stack) = 1 /\ call \in {"cleanup", "remove"}) => Top.dest = Goal
         /\ Nodes(fs)
<1>1. StackOK /\ DiskOK
  BY Parts
<1> QED BY <1>1, Tops DEF Fine, Frame, DiskOK

\* A child of a path in the sandbox is one.
LEMMA Inside ==
  ASSUME NEW p \in Path, Below(p, Sandbox), NEW n \in Names
  PROVE  Child(p, n) \in Path /\ Child(p, n) # <<>> /\ Below(Child(p, n), Sandbox)
BY Children, FsAssumption

LEMMA Entered ==
  ASSUME NEW op \in Ops, NEW source \in Path, NEW dest \in Path
  PROVE  /\ Enter(op, source, dest) \in Frame
         /\ Enter(op, source, dest).op = op
         /\ Enter(op, source, dest).source = source
         /\ Enter(op, source, dest).dest = dest
BY DEF Enter, Frame

\* Keeping its paths, the last frame may go on to another operation: as part of a
\* removal, or where no removal can be.
LEMMA Goings ==
  ASSUME FsInv, stack # <<>>, NEW frame \in Frame,
         frame.source = Top.source, frame.dest = Top.dest,
         frame.op \in RmOps \/ Top.op \notin RmOps
  PROVE  Follows(frame)
BY Running DEF Follows, Fine

LEMMA CopyStats ==
  ASSUME FsInv, CopyStat
  PROVE  Steps
<1>1. stack # <<>> /\ Top.op = "copy" /\ UNCHANGED disk
  BY DEF CopyStat, At
<1>2. CASE ~Exists(Top.source) \/ Blocked
  BY <1>1, <1>2 DEF CopyStat, Steps, DiskStep, StackStep
<1>3. CASE ~(~Exists(Top.source) \/ Blocked)
  <2> DEFINE op   == IF IsDir(Top.source) THEN "mkdir" ELSE "open"
             dest == IF Exists(Top.dest) THEN Child(Top.dest, basename_r(Top.source))
                                         ELSE Top.dest
             size == fs[Top.source].size
             frame == [Top EXCEPT !.op = op, !.dest = dest, !.left = size]
  <2>1. op \in Ops
    BY DEF Ops
  <2>2. dest \in Path /\ Below(dest, Sandbox)
    BY <1>1, Running, Inside, Basenames
  <2>3. size \in Nat
    BY <1>1, <1>3, Running DEF Nodes, Exists, Node
  <2>4. Become(frame) /\ UNCHANGED <<call, outcome>>
    BY <1>3 DEF CopyStat
  <2> HIDE DEF op, dest, size
  <2>5. frame \in Frame /\ frame.source = Top.source /\ frame.dest = dest
    BY <1>1, <2>1, <2>2, <2>3, Running DEF Frame
  <2>6. Follows(frame)
    BY <1>1, <2>2, <2>5, Running DEF Follows, Fine, RmOps
  <2> QED BY <1>1, <2>4, <2>6 DEF Steps, DiskStep, StackStep
<1> QED BY <1>2, <1>3

LEMMA Made == /\ Dir \in Node /\ \A d \in Seq(Nat) : File(d) \in Node
              /\ \A q \in LinkTargets : Link(q, 1) \in Node
<1>1. <<>> \in Seq(Nat) /\ <<>> \in Path /\ LinkTargets \subseteq Path
  BY FsAssumption DEF Path
<1> QED BY <1>1 DEF Dir, File, Link, Node

\* Something is put in the place the last frame works on.
LEMMA PutsHere ==
  ASSUME FsInv, stack # <<>>, NEW node \in Node, Put(Top.dest, node),
         UNCHANGED <<held, pending>>
  PROVE  DiskStep
BY Running DEF DiskStep, PutInside

\* A copy puts a file there, or where a link leads that stands there.
LEMMA PutsThere ==
  ASSUME FsInv, stack # <<>>, Top.op \notin RmOps, NEW node \in Node, Put(Dest, node),
         UNCHANGED <<held, pending>>
  PROVE  DiskStep
<1>1. call = "sandbox" /\ Top.dest \in Path /\ Below(Top.dest, Sandbox)
  BY Running
<1>2. CASE Exists(Top.dest) /\ fs[Top.dest].kind = "link"
  BY <1>1, <1>2 DEF Dest, Follow, Exists, DiskStep, PutThrough
<1>3. CASE ~(Exists(Top.dest) /\ fs[Top.dest].kind = "link")
  BY <1>1, <1>3 DEF Dest, Follow, DiskStep, PutInside
<1> QED BY <1>2, <1>3

\* The last frame becomes another, may leave, or is left by a failure.
LEMMA GoesOn ==
  ASSUME FsInv, stack # <<>>, UNCHANGED <<call, outcome>>,
         NEW frame \in Frame, frame.source = Top.source, frame.dest = Top.dest,
         frame.op \in RmOps \/ Top.op \notin RmOps, Become(frame)
  PROVE  StackStep
BY Goings DEF StackStep

LEMMA Leaves == ASSUME stack # <<>>, Return \/ Longjmp PROVE StackStep
BY DEF StackStep

LEMMA OpensDir ==
  ASSUME FsInv, stack # <<>>, Top.op = "mkdir", OpenDir, UNCHANGED <<call, outcome>>
  PROVE  StackStep
<1> DEFINE names == Listing(Top.source)
           frame == [Top EXCEPT !.op = "copydir", !.listed = names]
<1>1. names \subseteq Names
  BY DEF Listing
<1>2. Become(frame)
  BY DEF OpenDir
<1> HIDE DEF names
<1>3. frame \in Frame /\ frame.source = Top.source /\ frame.dest = Top.dest
  BY <1>1, Running DEF Frame, Ops
<1>4. Top.op \notin RmOps
  BY DEF RmOps
<1> QED BY <1>2, <1>3, <1>4, GoesOn

LEMMA Mkdirs ==
  ASSUME FsInv, Mkdir \/ MkdirFailsUnseen \/ CreateDirectory
  PROVE  Steps
<1>1. stack # <<>> /\ Top.op = "mkdir"
  BY DEF Mkdir, MkdirFailsUnseen, CreateDirectory, At
<1>2. \/ UNCHANGED disk
      \/ Put(Top.dest, Dir) /\ UNCHANGED <<held, pending>>
  BY DEF Mkdir, MkdirFailsUnseen, CreateDirectory, disk
<1>3. DiskStep
  BY <1>1, <1>2, Made, PutsHere DEF DiskStep
<1>4. Longjmp \/ (OpenDir /\ UNCHANGED <<call, outcome>>)
  BY DEF Mkdir, MkdirFailsUnseen, CreateDirectory, Goes
<1>5. StackStep
  BY <1>1, <1>4, OpensDir, Leaves
<1> QED BY <1>3, <1>5 DEF Steps

LEMMA CopyNexts ==
  ASSUME FsInv, CopyNext
  PROVE  Steps
<1>1. stack # <<>> /\ UNCHANGED disk /\ UNCHANGED <<call, outcome>>
  BY DEF CopyNext, At, Goes
<1> DEFINE child(n) == Child(Top.source, n)
           Op(n) == IF Posix THEN "copy" ELSE IF IsDir(child(n)) THEN "mkdir" ELSE "open"
           Into(n) == IF Posix THEN Top.dest ELSE Child(Top.dest, n)
<1>2. PICK n \in Top.listed \ Top.seen :
        Descend(n, Enter(Op(n), child(n), Into(n)))
  BY DEF CopyNext
<1>3. n \in Names
  BY <1>1, Running
<1>4. Op(n) \in Ops
  BY DEF Ops
<1>5. child(n) \in Path /\ child(n) # <<>>
  BY <1>1, <1>3, Running, Children
<1>6. Into(n) \in Path /\ Below(Into(n), Sandbox)
  BY <1>1, <1>3, Running, Inside
<1> HIDE DEF Op, child, Into
<1>7. Fine(Enter(Op(n), child(n), Into(n)))
  BY <1>4, <1>5, <1>6, Entered DEF Fine
<1>8. call \notin {"cleanup", "remove"}
  BY <1>1, Running DEF CopyNext, At, RmOps
<1> QED BY <1>1, <1>2, <1>3, <1>7, <1>8 DEF Steps, DiskStep, StackStep

\* What is read from a file is a sequence of bytes.
LEMMA Contents ==
  ASSUME FsInv, stack # <<>>
  PROVE  Content \in Seq(Nat) /\ Len(Content) \in Nat /\ Unread \in Int
<1>1. CASE Exists(Source)
  BY <1>1, Running DEF Content, Unread, Nodes, Node, Exists
<1>2. CASE ~Exists(Source)
  <2>1. Content = <<>> /\ <<>> \in Seq(Nat)
    BY <1>2 DEF Content
  <2> QED BY <2>1, Running DEF Unread
<1> QED BY <1>1, <1>2

LEMMA Opens ==
  ASSUME FsInv, Open
  PROVE  Steps
<1>1. stack # <<>> /\ Top.op = "open" /\ UNCHANGED <<held, pending>>
  BY DEF Open, At
<1>2. CASE Longjmp /\ UNCHANGED fs
  BY <1>1, <1>2, Leaves DEF Steps, DiskStep, disk
<1>3. CASE ~(Longjmp /\ UNCHANGED fs)
  <2> DEFINE left == IF build = "sendfile" THEN Top.left ELSE 0
             frame == [Top EXCEPT !.op = "data", !.left = left]
  <2>1. Become(frame) /\ Put(Dest, File(<<>>)) /\ UNCHANGED <<call, outcome>>
    BY <1>3 DEF Open
  <2>2. left \in Nat
    BY <1>1, Running
  <2> HIDE DEF left
  <2>3. frame \in Frame /\ frame.source = Top.source /\ frame.dest = Top.dest
    BY <1>1, <2>2, Running DEF Frame, Ops
  <2>4. StackStep
    BY <1>1, <2>1, <2>3, GoesOn DEF RmOps
  <2>5. <<>> \in Seq(Nat)
    OBVIOUS
  <2>6. File(<<>>) \in Node
    BY <2>5, Made
  <2>7. DiskStep
    BY <1>1, <2>1, <2>6, PutsThere DEF RmOps
  <2> QED BY <2>4, <2>7 DEF Steps
<1> QED BY <1>2, <1>3

LEMMA CopyFiles ==
  ASSUME FsInv, CopyFile
  PROVE  Steps
<1>1. stack # <<>> /\ UNCHANGED <<held, pending>>
  BY DEF CopyFile, At
<1>2. \/ Longjmp /\ UNCHANGED fs
      \/ Return /\ Put(Top.dest, File(Content))
  BY DEF CopyFile
<1>3. File(Content) \in Node
  BY <1>1, Contents, Made
<1> QED BY <1>1, <1>2, <1>3, PutsHere, Leaves DEF Steps, DiskStep, disk

LEMMA Reads ==
  ASSUME FsInv, Read
  PROVE  Steps
<1>1. /\ stack # <<>> /\ Top.op = "data" /\ UNCHANGED disk
      /\ UNCHANGED <<call, outcome>>
  BY DEF Read, At, Goes
<1>2. PICK n \in 1..Unread : Become([Top EXCEPT !.left = n])
  BY DEF Read
<1>3. n \in Nat
  BY <1>1, Contents
<1>4. StackStep
  <2> DEFINE frame == [Top EXCEPT !.left = n]
  <2>1. /\ frame \in Frame /\ frame.source = Top.source /\ frame.dest = Top.dest
        /\ Top.op \notin RmOps
    BY <1>1, <1>3, Running DEF Frame, RmOps
  <2> QED BY <1>1, <1>2, <2>1, GoesOn
<1> QED BY <1>1, <1>4 DEF Steps, DiskStep

LEMMA Writes ==
  ASSUME FsInv, Write
  PROVE  Steps
<1>1. /\ stack # <<>> /\ Top.op = "data" /\ UNCHANGED <<held, pending>>
      /\ UNCHANGED <<call, outcome>> /\ Exists(Dest)
  BY DEF Write, At, Goes
<1>2. PICK n \in 1..Top.left : n <= Unread /\ Transfer(n)
  BY DEF Write
<1>3. /\ Top.left \in Nat /\ Top.done \in Nat /\ n \in Nat \ {0}
      /\ Top.left - n \in Nat /\ Top.done + n \in Nat /\ Top.done + n <= Len(Content)
  <2>1. Top.left \in Nat /\ Top.done \in Nat
    BY <1>1, Running
  <2>2. Len(Content) \in Nat
    BY <1>1, Contents
  <2>3. n \in 1..Top.left /\ n <= Len(Content) - Top.done
    BY <1>2 DEF Unread
  <2> QED BY <2>1, <2>2, <2>3
<1>4. StackStep
  <2> DEFINE frame == [Top EXCEPT !.left = @ - n, !.done = @ + n]
  <2>1. /\ frame \in Frame /\ frame.source = Top.source /\ frame.dest = Top.dest
        /\ Top.op \notin RmOps
    BY <1>1, <1>3, Running DEF Frame, RmOps
  <2> QED BY <1>1, <1>2, <2>1, GoesOn DEF Transfer
<1>5. DiskStep
  <2> DEFINE part == SubSeq(Content, Top.done + 1, Top.done + n)
             data == fs[Dest].data \o part
  <2>1. part \in Seq(Nat)
    <3>1. Content \in Seq(Nat) /\ Len(Content) \in Nat
      BY <1>1, Contents
    <3>2. \A k \in (Top.done + 1)..(Top.done + n) : Content[k] \in Nat
      <4>1. \A k \in 1..Len(Content) : Content[k] \in Nat
        BY <3>1
      <4> QED BY <1>3, <3>1, <4>1
    <3>3. SubSeq(Content, Top.done + 1, Top.done + n) \in Seq(Nat)
      BY <1>3, <3>2, SubSeqProperties
    <3> QED BY <3>3
  <2>2. fs[Dest].data \in Seq(Nat)
    BY <1>1, Running DEF Exists, Nodes, Node
  <2> HIDE DEF part
  <2>3. data \in Seq(Nat)
    BY <2>1, <2>2
  <2>4. Put(Dest, File(data))
    BY <1>2 DEF Transfer, part
  <2> HIDE DEF data
  <2> QED BY <1>1, <2>3, <2>4, Made, PutsThere DEF RmOps
<1> QED BY <1>4, <1>5 DEF Steps

LEMMA CopySteps ==
  ASSUME FsInv, Copies
  PROVE  Steps
<1>1. CASE CopyDirReturns \/ CopyFileReturns
  BY <1>1, Leaves DEF CopyDirReturns, CopyFileReturns, At, Steps, DiskStep
<1> QED BY <1>1, CopyStats, Mkdirs, CopyNexts, Opens, CopyFiles, Reads, Writes DEF Copies
--------------------------------------------------------------------------------
LEMMA RmStats ==
  ASSUME FsInv, RmStat \/ RmOpenDir \/ RmListed
  PROVE  Steps
<1>1. stack # <<>> /\ UNCHANGED disk
  BY DEF RmStat, RmOpenDir, RmListed, At
<1>2. CASE Return \/ Longjmp
  BY <1>1, <1>2, Leaves DEF Steps, DiskStep
<1>3. CASE RmOpenDir /\ ~Longjmp
  <2> DEFINE names == Listing(Top.dest)
             frame == [Top EXCEPT !.op = "rmdir_helper", !.listed = names]
  <2>1. Become(frame) /\ UNCHANGED <<call, outcome>>
    BY <1>3 DEF RmOpenDir
  <2>2. names \subseteq Names
    BY DEF Listing
  <2> HIDE DEF names
  <2>3. /\ frame \in Frame /\ frame.source = Top.source /\ frame.dest = Top.dest
        /\ frame.op \in RmOps
    BY <1>1, <2>2, Running DEF Frame, Ops, RmOps
  <2> QED BY <1>1, <2>1, <2>3, GoesOn DEF Steps, DiskStep
<1>4. CASE (RmStat \/ RmListed) /\ ~Return
  <2>1. PICK op \in {"opendir", "unlink", "rmdir"} : Step(op) /\ UNCHANGED <<call, outcome>>
    BY <1>4 DEF RmStat, RmListed, Goes
  <2> DEFINE frame == [Top EXCEPT !.op = op, !.left = 0]
  <2>2. /\ frame \in Frame /\ frame.source = Top.source /\ frame.dest = Top.dest
        /\ frame.op \in RmOps
    BY <1>1, Running DEF Frame, Ops, RmOps
  <2> QED BY <1>1, <2>1, <2>2, GoesOn DEF Step, Steps, DiskStep
<1> QED BY <1>2, <1>3, <1>4

LEMMA RmNexts ==
  ASSUME FsInv, RmNext
  PROVE  Steps
<1>1. stack # <<>> /\ UNCHANGED disk /\ UNCHANGED <<call, outcome>>
  BY DEF RmNext, At, Goes
<1> DEFINE child(n) == Child(Top.dest, n)
           Op(n) == IF Posix THEN "rm" ELSE IF IsDir(child(n)) THEN "opendir" ELSE "unlink"
<1>2. PICK n \in (Top.listed \cup Listing(Top.dest)) \ Top.seen :
        Descend(n, Enter(Op(n), child(n), child(n)))
  BY DEF RmNext
<1>3. n \in Names
  BY <1>1, Running DEF Listing
<1>4. Op(n) \in Ops
  BY DEF Ops
<1>5. child(n) \in Path /\ child(n) # <<>> /\ Below(child(n), Sandbox)
  BY <1>1, <1>3, Running, Inside
<1>7. Op(n) \in RmOps
  BY DEF RmOps
<1> HIDE DEF Op, child
<1>6. Fine(Enter(Op(n), child(n), child(n)))
  BY <1>4, <1>5, Entered DEF Fine
<1>8. Enter(Op(n), child(n), child(n)).op = Op(n)
  BY DEF Enter
<1> QED BY <1>1, <1>2, <1>3, <1>6, <1>7, <1>8 DEF Steps, DiskStep, StackStep

LEMMA Waits ==
  ASSUME FsInv, stack # <<>>, Step("wait"), UNCHANGED <<call, outcome>>
  PROVE  StackStep
<1> DEFINE frame == [Top EXCEPT !.op = "wait", !.left = 0]
<1>1. /\ frame \in Frame /\ frame.source = Top.source /\ frame.dest = Top.dest
      /\ frame.op \in RmOps
  BY Running DEF Frame, Ops, RmOps
<1> QED BY <1>1, GoesOn DEF Step

LEMMA Retries ==
  ASSUME FsInv, stack # <<>>, Top.op \in RmOps, Retry
  PROVE  StackStep
<1> DEFINE frame == [Top EXCEPT !.left = @ + 1]
<1>1. /\ frame \in Frame /\ frame.source = Top.source /\ frame.dest = Top.dest
      /\ frame.op \in RmOps
  BY Running DEF Frame, Ops, RmOps
<1> QED BY <1>1, GoesOn DEF Retry

LEMMA Deletions ==
  ASSUME FsInv, Unlink \/ Rmdir
  PROVE  Steps
<1>1. stack # <<>> /\ UNCHANGED held
  BY DEF Unlink, Rmdir, At
<1>2. CASE Longjmp /\ UNCHANGED <<fs, pending>>
  BY <1>1, <1>2, Leaves DEF Steps, DiskStep, disk
<1>3. CASE Deleted
  <2>1. DiskStep
    BY <1>1, <1>3, Running DEF Deleted, Delete, DiskStep, DropInside
  <2>2. (Step("wait") /\ UNCHANGED <<call, outcome>>) \/ Return
    BY <1>3 DEF Deleted
  <2>3. StackStep
    BY <1>1, <2>2, Waits, Leaves
  <2> QED BY <2>1, <2>3 DEF Steps
<1> QED BY <1>2, <1>3 DEF Unlink, Rmdir

LEMMA DeleteSteps ==
  ASSUME FsInv, Deletes
  PROVE  Steps
<1>1. CASE RmdirAgain \/ RmdirFails \/ Wait
  <2>1. stack # <<>> /\ Top.op \in RmOps /\ UNCHANGED disk
    BY <1>1 DEF RmdirAgain, RmdirFails, Wait, At, RmOps
  <2>2. Retry \/ Return \/ Longjmp
    BY <1>1 DEF RmdirAgain, RmdirFails, Wait, GiveUp
  <2> QED BY <2>1, <2>2, Retries, Leaves DEF Steps, DiskStep
<1> QED BY <1>1, RmStats, RmNexts, Deletions DEF Deletes
--------------------------------------------------------------------------------
LEMMA Calls ==
  ASSUME FsInv, cl_fixture_sandbox \/ cl_fixture_cleanup \/ clar_sandbox_cleanup
  PROVE  Steps
<1>1. UNCHANGED disk /\ call = "none" /\ outcome' = "none"
  BY DEF cl_fixture_sandbox, cl_fixture_cleanup, clar_sandbox_cleanup, Call
<1>2. CASE cl_fixture_sandbox
  <2>1. call' = "sandbox" /\ stack' = <<Enter("copy", Fixture, Sandbox)>>
    BY <1>2 DEF cl_fixture_sandbox, Call
  <2>2. Fine(Enter("copy", Fixture, Sandbox))
    BY Goals, Entered DEF Fine, Ops
  <2> QED BY <1>1, <2>1, <2>2 DEF Steps, DiskStep, StackStep
<1>3. CASE cl_fixture_cleanup
  <2>1. call' = "cleanup" /\ stack' = <<Enter("rm", Target, Target)>>
    BY <1>3 DEF cl_fixture_cleanup, Call
  <2>2. /\ Fine(Enter("rm", Target, Target))
        /\ Enter("rm", Target, Target).op \in RmOps
        /\ Enter("rm", Target, Target).dest = Target
    BY Goals, Entered DEF Fine, Ops, RmOps
  <2> QED BY <1>1, <2>1, <2>2 DEF Steps, DiskStep, StackStep
<1>4. CASE clar_sandbox_cleanup
  <2>1. call' = "remove" /\ stack' = <<Enter("rm", Sandbox, Sandbox)>>
    BY <1>4 DEF clar_sandbox_cleanup, Call
  <2>2. /\ Fine(Enter("rm", Sandbox, Sandbox))
        /\ Enter("rm", Sandbox, Sandbox).op \in RmOps
        /\ Enter("rm", Sandbox, Sandbox).dest = Sandbox
    BY Goals, Entered DEF Fine, Ops, RmOps
  <2> QED BY <1>1, <2>1, <2>2 DEF Steps, DiskStep, StackStep
<1> QED BY <1>2, <1>3, <1>4

LEMMA Edits ==
  ASSUME FsInv, NEW nodes \in SUBSET Node, Edited(nodes), UNCHANGED <<held, pending>>
  PROVE  DiskStep
<1>1. PICK p \in {q \in DOMAIN fs \ pending : Below(q, Sandbox) /\ IsDir(q)}, n \in EditNames :
        \/ \E node \in nodes : Put(Child(p, n), node)
        \/ Drop(Child(p, n))
  BY DEF Edited
<1>2. p \in Path /\ Below(p, Sandbox) /\ n \in Names
  BY <1>1, Parts, FsAssumption DEF DiskOK, Nodes
<1>3. Child(p, n) \in Path /\ Below(Child(p, n), Sandbox)
  BY <1>2, Inside
<1> QED BY <1>1, <1>3 DEF DiskStep, PutInside, DropInside

LEMMA OtherSteps ==
  ASSUME FsInv, test_edits \/ Interferes \/ Holds \/ Releases \/ Idle \/ UNCHANGED vars
  PROVE  Steps
<1>1. StackStep
  BY DEF test_edits, Interferes, Holds, Releases, Idle, vars, StackStep
<1>2. CASE test_edits \/ Interferes
  <2>1. <<0>> \in Seq(Nat)
    OBVIOUS
  <2>2. {Dir, File(<<0>>)} \cup Links \in SUBSET Node /\ {File(<<0>>)} \cup Links \in SUBSET Node
    BY <2>1, Made DEF Links
  <2>3. DiskStep
    BY <1>2, <2>2, Edits DEF test_edits, Interferes
  <2> QED BY <1>1, <2>3 DEF Steps
<1>3. CASE Holds
  BY <1>1, <1>3 DEF Holds, Steps, DiskStep
<1>4. CASE Releases
  <2>1. \A p \in held : Below(p, Sandbox)
    BY Parts DEF DiskOK, HeldInside
  <2> QED BY <1>1, <1>4, <2>1 DEF Releases, Steps, DiskStep, DropInside
<1>5. CASE Idle \/ UNCHANGED vars
  BY <1>1, <1>5 DEF Idle, vars, Steps, DiskStep
<1> QED BY <1>2, <1>3, <1>4, <1>5

LEMMA EveryStep ==
  ASSUME FsInv, [Next]_vars
  PROVE  Steps
<1>1. CASE SystemCallFails
  BY <1>1, Leaves DEF SystemCallFails, Steps, DiskStep
<1> QED BY <1>1, CopySteps, DeleteSteps, Calls, OtherSteps DEF Next, Driver
--------------------------------------------------------------------------------
LEMMA Initially == Init => FsInv
<1> SUFFICES ASSUME Init PROVE FsInv
  OBVIOUS
<1>1. Nodes(fs)
  BY FsAssumption DEF Init, Nodes
<1>2. stack \in Seq(Frame) /\ Len(stack) = 0
  BY DEF Init
<1>3. DiskOK
  BY <1>1 DEF Init, DiskOK, HeldInside
<1>4. StackOK
  BY <1>2 DEF Init, StackOK, FramesInside, CallsRooted
<1>5. troubled \in BOOLEAN
  BY DEF Init
<1>6. RestOK
  BY <1>5 DEF Init, RestOK
<1> QED BY <1>3, <1>4, <1>6, Parts

LEMMA Inductive ==
  ASSUME FsInv, [Next]_vars
  PROVE  FsInv' /\ \A p \in DOMAIN fs \cup DOMAIN fs' : StaysAt(p)
<1>1. DiskStep /\ StackStep /\ DiskOK /\ StackOK
  BY EveryStep, Parts DEF Steps
<1>2. RestOK' /\ UNCHANGED build
  BY Rests
<1>3. DiskOK' /\ \A p \in DOMAIN fs \cup DOMAIN fs' : StaysAt(p)
  BY <1>1, <1>2, DiskSteps
<1>4. StackOK'
  BY <1>1, StackSteps
<1> QED BY <1>2, <1>3, <1>4, Parts DEF FsInv, TypeOK, DiskOK, StackOK, RestOK, Nodes

\* The types of the tree, the handles and the frames, and where they are: whatever
\* the fixture, the faults, the build and the intruders, in every state (fs_copy,
\* fs_rm, and the recursion of their helpers).
THEOREM FsInvariance == Spec => []FsInv
<1>1. FsInv /\ [Next]_vars => FsInv'
  BY Inductive
<1> QED BY Initially, <1>1, PTL DEF Spec

\* A removal changes nothing outside the sandbox, and a copy only the files that links
\* in the sandbox lead to, whoever made them and when (fs_rm, fs_copyfile_helper).
THEOREM StaysInSandbox == Spec => StaysInside
<1>1. FsInv /\ [Next]_vars =>
        [\A p \in DOMAIN fs \cup DOMAIN fs' :
           \/ Below(p, Sandbox)
           \/ call = "sandbox" /\ p \in Reached
           \/ p \in DOMAIN fs \cap DOMAIN fs' /\ fs'[p] = fs[p]]_vars
  BY Inductive DEF StaysAt
<1> QED BY <1>1, FsInvariance, PTL DEF Spec, StaysInside
--------------------------------------------------------------------------------
(* What was removed is gone. *)

\* Only a return ends a call well, and only these return.
LEMMA WhoReturns ==
  ASSUME [Next]_vars, outcome = "none", outcome' = "returned"
  PROVE  /\ Return
         /\ CopyDirReturns \/ CopyFile \/ CopyFileReturns \/ RmStat \/ Unlink \/ Rmdir \/ Wait
<1> USE DEF Goes, Longjmp, Finish
<1>1. CASE Copies
  BY <1>1 DEF Copies, CopyStat, Mkdir, MkdirFailsUnseen, CreateDirectory, CopyNext,
     CopyDirReturns, Open, CopyFile, Read, Write, CopyFileReturns
<1>2. CASE Deletes \/ SystemCallFails
  BY <1>2 DEF Deletes, SystemCallFails, RmStat, RmOpenDir, RmNext, RmListed, Unlink, Rmdir,
     RmdirAgain, RmdirFails, Wait, Deleted, Retry, GiveUp
<1>3. CASE ~Driver
  BY <1>3 DEF Next, cl_fixture_sandbox, cl_fixture_cleanup, clar_sandbox_cleanup, Call,
     test_edits, Interferes, Holds, Releases, Idle, vars
<1> QED BY <1>1, <1>2, <1>3 DEF Driver

LEMMA Gone ==
  ASSUME FsInv, [Next]_vars, call \in {"cleanup", "remove"},
         outcome = "none", outcome' = "returned"
  PROVE  Goal \notin DOMAIN fs'
<1>1. /\ Return
      /\ CopyDirReturns \/ CopyFile \/ CopyFileReturns \/ RmStat \/ Unlink \/ Rmdir \/ Wait
  BY WhoReturns
<1>2. stack # <<>>
  BY Parts DEF StackOK, CallsRooted
<1>3. Len(stack) = 1
  BY <1>1 DEF Return
<1>4. Top.dest = Goal /\ Top.op \in RmOps
  BY <1>2, <1>3, Running
<1>5. RmStat \/ Unlink \/ Rmdir \/ Wait
  BY <1>1, <1>4 DEF CopyDirReturns, CopyFile, CopyFileReturns, At, RmOps
<1>6. CASE RmStat \/ Wait
  <2>1. ~Exists(Top.dest) /\ UNCHANGED fs
    BY <1>6 DEF RmStat, Wait, disk, Retry, GiveUp, Longjmp, Finish
  <2> QED BY <1>4, <2>1 DEF Exists
<1>7. CASE Unlink \/ Rmdir
  <2>1. Deleted
    BY <1>7 DEF Unlink, Rmdir, Longjmp, Finish
  <2>2. Posix
    BY <1>3, <2>1 DEF Deleted, Posix
  <2>3. held = {}
    BY <2>2, Parts DEF DiskOK, HeldInside
  <2> QED BY <1>4, <2>1, <2>3 DEF Deleted, Delete, Drop
<1> QED BY <1>5, <1>6, <1>7

\* When the removal of the fixture, or of the sandbox, returns, it is gone at that
\* step: also where others work in it, and on Windows where they hold handles in it
\* (fs_rm, fs_rm_wait).
THEOREM RemovedIsGone == Spec => GoneOnReturn
<1>1. FsInv /\ [Next]_vars =>
        [(call \in {"cleanup", "remove"} /\ outcome = "none" /\ outcome' = "returned")
           => Goal \notin DOMAIN fs']_vars
  BY Gone
<1> QED BY <1>1, FsInvariance, PTL DEF Spec, GoneOnReturn
================================================================================
