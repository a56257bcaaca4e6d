----------------------------- MODULE MCCliParse -----------------------------
(* Bounded instances of CliParse for TLC. *)
EXTENDS CliParse

Any == {"true", "1", "2", "x"}

Threads(required) == Option(<<"t">>, "integer", Any, "1", required)
Verbose == Option(<<"v">>, "flag", Any, NoValue, FALSE)
Exclude == Option(<<"l">>, "list", Any, NoValue, FALSE)
Type == Option(<<"t">>, "enum", {"x"}, NoValue, TRUE)
Force == Option(<<"f">>, "boolean", Any, "x", FALSE)
Dotted == Option(<<"c", "t">>, "string", Any, "x", FALSE)

Plain == [ globals  |-> <<Threads(FALSE), Verbose>>,
           commands |-> << Command(<<"c">>, <<Exclude, Type>>, 0, 1),
                           Command(<<"d">>, <<Force>>, 1, 0) >> ]

\* A command whose keys are those of global options, a key too long for its
\* buffer, a prefix too long for its own.
Colliding == [ globals  |-> <<Threads(TRUE)>>,
               commands |-> << Command(<<"global">>, <<Threads(FALSE)>>, 0, 0),
                               Command(<<"c">>, <<Dotted>>, 0, 0),
                               Command(<<"c", "d">>, <<Verbose>>, 0, 0) >> ]

Oversized == [ globals |-> <<>>, commands |-> << Command(<<"c">>, <<Exclude, Type, Verbose>>, 0, 0) >> ]

\* Two options of one name: the second cannot be given.
Doubled == [ globals |-> <<>>, commands |-> << Command(<<"c">>, <<Threads(FALSE), Type>>, 0, 0),
                                               Command(<<"d">>, <<Type, Threads(FALSE)>>, 0, 0) >> ]

AllPrograms == {Plain, Colliding, Oversized, Doubled}

Set(name, value) == Argument("option", <<name>>, value)
Word(name) == Argument("word", name, NoValue)

AllArguments ==
  { Set("t", "x"), Set("t", "2"), Set("v", NoValue), Set("l", "1"), Set("l", "x"), Set("help", NoValue),
    Set("version", "x"), Argument("separator", <<"--">>, NoValue), Word(<<"c">>), Word(<<"d">>),
    Word(<<"global">>), Word(<<"c", "d">>) }

Integers == {"1", "2"}
Booleans == {"true", "1"}
=============================================================================
