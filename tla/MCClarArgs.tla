-------------------------------- MODULE MCClarArgs --------------------------------
(* Small instances of ClarArgs for TLC. *)
EXTENDS ClarArgsInv

Colons == <<":", ":">>
ab     == <<"a", "b">>
abc    == <<"a", "b", "c">>
b_c    == <<"b">> \o Colons \o <<"c">>
Alphabet == {"-", "=", ":", "$", "a", "b", "c", "t", "u", "h", "s", "i", "x", "q", "Q", "l",
             "v", "r", "out.xml", "env.xml", "summary.xml"}
SuiteOf(name, tests, on) == [name |-> name, tests |-> tests, enabled |-> on]

\* No suite's name goes on from another's with "::"; the third is disabled.
Table == << SuiteOf(ab, <<<<"t">>, <<"t", "u">>>>, TRUE),
            SuiteOf(abc, <<<<"t">>>>, TRUE),
            SuiteOf(b_c, <<<<"t">>>>, FALSE) >>

\* The mixer makes these of b.c and b_c.c, or of b.c and b/c.c.
Nested == << SuiteOf(<<"b">>, <<<<"t">>>>, TRUE), SuiteOf(b_c, <<<<"t">>>>, TRUE) >>

Asking(l, name, words) == [letter |-> l, name |-> name, words |-> words]

\* The three ways to give a name.
Joined(l, name)   == Asking(l, name, << <<"-", l>> \o name >>)
Equals(l, name)   == Asking(l, name, << <<"-", l, "=">> \o name >>)
Separate(l, name) == Asking(l, name, << <<"-", l>>, name >>)

Selectors ==
  {Joined("s", name) : name \in {<<"a">>, ab, abc, ab \o Colons, ab \o Colons \o <<"t">>,
                                 ab \o Colons \o <<"t", "$">>, b_c \o Colons \o <<"t">>,
                                 ab \o <<":">>, <<"b">>}}
  \cup {Joined("i", name) : name \in {b_c, <<"c">>}}
  \cup {Joined("x", name) : name \in {<<"a">>, ab, b_c \o Colons \o <<"t">>}}
  \cup {Equals("s", ab), Separate("s", ab), Separate("i", <<"b">>), Equals("x", abc),
        Separate("x", <<"-", "q">>), Separate("s", <<>>)}

Flags == {Asking(l, <<>>, << <<"-", l>> >>) : l \in {"q", "Q", "t", "l", "v", "r"}}
         \cup {Asking("r", <<"out.xml">>, << <<"-", "r", "out.xml">> >>)}

Misuses == {Asking("misuse", <<>>, <<w>>) :
              w \in { ab, <<"-">>, <<>>, <<"-", "h">>, <<"-", "q", "q">> }}
           \cup {Asking("unfinished", <<>>, << <<"-", "s">> >>)}

AllOptions == Selectors \cup Flags \cup Misuses
Exclusions == {Joined("x", name) : name \in {<<"b">>, b_c}}

\* The theorem about the selection is about such tables as the first, not the second.
ASSUME ApartAssumption == NamesApart <=> Suites # Nested

WithAndWithout == {NoFile, <<"env.xml">>}
================================================================================
