----------------------------- MODULE MCTerminal -----------------------------
(***************************************************************************)
(* The keys of the run of Terminal, and what its shell prints.             *)
(***************************************************************************)
EXTENDS Terminal

Press(key) == [key |-> key, up |-> FALSE]
Release(key) == [key |-> key, up |-> TRUE]

MCEvents == {Press("leftShift"), Release("leftShift"), Press("capsLock"), Press("a"),
             Press("one"), Press("enter"), Press("back"), Press("tab")}

MCPrompt == <<"#", Blank>>

\* A command puts out nothing, or a line of its own.
MCOutputs == {<<>>, <<"o", Newline>>}
=============================================================================
