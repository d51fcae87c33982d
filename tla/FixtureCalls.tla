------------------------------ MODULE FixtureCalls ------------------------------
(***************************************************************************)
(* What the fixture functions promise to a test (README.md:245-249): a     *)
(* call is one step from the tree it found to the tree it leaves.          *)
(***************************************************************************)
EXTENDS Naturals, Sequences

CONSTANTS
  Fixture,   (* The path of the fixture,                                   *)
  Sandbox,   (* of the sandbox of the test,                                *)
  Target,    (* of the fixture's place in the sandbox,                     *)
  LinkTargets(* and of the files that links in the sandbox may lead to.    *)

VARIABLES
  tree,      (* A function from the paths that are there to their nodes.   *)
  call,      (* The call that is made, "none", or "over".                  *)
  outcome,   (* How the last call ended.                                   *)
  copy,      (* What a copy of the fixture holds, for each path of it,     *)
  sources,   (* and the files it is copied from.                           *)
  troubled   (* The call met a failing system call or another process.     *)

absvars == <<tree, call, outcome, copy, sources, troubled>>

Under(p, q) == Len(q) <= Len(p) /\ \A k \in 1..Len(q) : p[k] = q[k]

\* The place in the sandbox of a path of the fixture, and the file its copy is
\* written to: where a link stands, what it leads to.
Image(s) == Target \o SubSeq(s, Len(Fixture) + 1, Len(s))
Place(s) == IF Image(s) \in DOMAIN tree /\ tree[Image(s)].kind = "link"
              THEN tree[Image(s)].to ELSE Image(s)
Places   == {Place(s) : s \in DOMAIN copy}

\* What a copy may write to outside the sandbox.
Elsewhere == IF call # "sandbox" THEN {} ELSE IF troubled THEN LinkTargets ELSE Places

Same(p) == /\ p \in DOMAIN tree' <=> p \in DOMAIN tree
           /\ p \in DOMAIN tree => tree'[p] = tree[p]

ChangesOnlyBelow(q) ==
  \A p \in DOMAIN tree \cup DOMAIN tree' : Under(p, q) \/ Same(p) \/ p \in Elsewhere

\* A link leads the copy to a file that is to be copied.
OverItself == Places \cap sources # {}

\* Everything of the fixture is in its place, and what else was there still is.
\* Where links lead to one file, it holds the copy of one of them.
IsSetUp ==
  /\ \A p \in Places : /\ p \in DOMAIN tree'
                       /\ \E s \in DOMAIN copy : Place(s) = p /\ tree'[p] = copy[s]
  /\ \A p \in DOMAIN tree \cup DOMAIN tree' : p \in Places \/ Same(p)

IsGone(q) == \A p \in DOMAIN tree' : ~Under(p, q)

\* Another process may be at work in the sandbox.
Region(q) == IF troubled THEN Sandbox ELSE q

Ends(result) == /\ call' = IF call = "remove" THEN "over" ELSE "none"
                /\ outcome' = result

Begin == call = "none" /\ call' \in {"sandbox", "cleanup", "remove"} /\ UNCHANGED tree

Fails == /\ call \in {"sandbox", "cleanup", "remove"}
         /\ Ends("failed")
         /\ ChangesOnlyBelow(Sandbox)

\* A copy over what it is copied from is only known not to change anything else.
SetsUp == /\ call = "sandbox" /\ Ends("returned")
          /\ ChangesOnlyBelow(Region(Target))
          /\ troubled \/ OverItself \/ IsSetUp

TearsDown == /\ call = "cleanup" /\ Ends("returned")
             /\ ChangesOnlyBelow(Region(Target))
             /\ IsGone(Target)

Removes == /\ call = "remove" /\ Ends("returned")
           /\ ChangesOnlyBelow(Sandbox)
           /\ IsGone(Sandbox)

\* Between calls, the test works in its sandbox; so may others, then and later.
Works == UNCHANGED <<call, outcome>> /\ ChangesOnlyBelow(Sandbox)

FixtureSpec == [][Begin \/ Fails \/ SetsUp \/ TearsDown \/ Removes \/ Works]_absvars
================================================================================
