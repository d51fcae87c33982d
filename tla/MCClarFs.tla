-------------------------------- MODULE MCClarFs --------------------------------
(* Small instances of ClarFs for TLC. *)
EXTENDS ClarFs, TLC

AllNames == {"fixtures", "sandbox", "f", "a", "b", "t"}
Fixtures0 == <<"fixtures">>
TheFixture == <<"fixtures", "f">>
TheSandbox == <<"sandbox">>
EditedNames == {"f", "a"}

Empty == <<>> :> Dir @@ Fixtures0 :> Dir @@ TheSandbox :> Dir
At_a  == Append(TheFixture, "a")
At_b  == Append(TheFixture, "b")
Elsewhere == Append(Fixtures0, "t")

\* A fixture that is a file; a link with more text than its file has; an empty
\* directory; a directory with a link that has less text, and with a file in a
\* directory in it. Elsewhere, where links lead to, is there or not.
OneFile == Empty @@ TheFixture :> File(<<1, 2>>)
OneLink == Empty @@ TheFixture :> Link(Elsewhere, 3) @@ Elsewhere :> File(<<1, 2>>)
Hollow  == Empty @@ TheFixture :> Dir
Nested  == Empty @@ TheFixture :> Dir @@ At_a :> Link(Elsewhere, 1)
           @@ At_b :> Dir @@ Append(At_b, "a") :> File(<<3>>)
           @@ Elsewhere :> File(<<1, 2>>)

AllTrees  == {OneFile, OneLink, Hollow, Nested}
Targets   == {Elsewhere}
OnlyLinks == {OneLink, Nested}
================================================================================
