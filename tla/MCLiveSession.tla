---------------------------- MODULE MCLiveSession ----------------------------
(* Sessions small enough for TLC, each with the keys of one part of the       *)
(* interface, against the same worker.                                        *)
EXTENDS LiveSession

Opening(codes) == [i \in DOMAIN codes |-> KeyOf(codes[i])]

\* The target is let go, held and stopped.
Controlling ==
  SetupOf(<<>>, {"q", " ", "c", "n"}, 3, {}, 1, {}, {None}, {})
Following ==
  SetupOf(<<>>, {" ", "f", "Up"}, 4, {}, 2, {}, {None}, {})
Stepping ==
  SetupOf(<<>>, {"p", "n", ".", ",", "S", "N"}, 3, {}, 1, {}, {None}, {})

\* Breakpoints are set, switched and deleted while one is hit.
Editing ==
  SetupOf(Opening(<<"5", ":">>), {"Enter", "5", "Up", ":", " ", "x"}, 5,
          {Line("break", 1), Line("delete", 1)}, 0, {}, {None}, {})

\* Chunks are selected and searched for while the heap changes.
Browsing ==
  SetupOf(Opening(<<"1">>), {"Down", "End", "g", "Enter"}, 3, {Line("user", 2)}, 2,
          {<<1, 2>>, <<2>>, <<>>}, {None, 2}, {})

\* Memory is looked at, word by word.
Dumping ==
  SetupOf(Opening(<<"6">>), {"Down", "g", "Enter", "w", "2", "]"}, 5,
          {Line("mem", 1), Line("mem", 2)}, 1, {}, {None}, {<<>>, <<2, 0>>, <<0>>})

\* Lines are typed, forgotten and recalled.
Trying ==
  SetupOf(Opening(<<":">>) \o <<Typed(Line("tab", "Logs"))>> \o Opening(<<"Enter", ":">>)
            \o <<Typed(Line("regs", None))>> \o Opening(<<"Enter", ":">>),
          {"Up", "Down", "Enter", "Esc", "Backspace"}, 4, {Line("resume", None)}, 0,
          {}, {None}, {})

Sessions == {Controlling, Following, Stepping, Editing, Browsing, Dumping, Trying}
=============================================================================
