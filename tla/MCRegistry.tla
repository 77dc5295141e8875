------------------------------ MODULE MCRegistry ------------------------------
(***************************************************************************)
(* Instances of Registry for TLC.                                          *)
(***************************************************************************)
EXTENDS Registry

MCInnies == 1..3

\* Every non-empty set of targets, a self-reference included.
EveryAndCall == SUBSET Innies \ {{}}

\* Lists of one or two targets, one of three in an order of its own, and one
\* with a repetition.
EveryOrCall == {<<i>> : i \in Innies}
                \cup {s \in Innies \X Innies : s[1] # s[2]}
                \cup {<<3, 1, 2>>, <<2, 1, 2>>}

\* Enough for rings of two and three, chains into them and escapes from them.
SomeAndCalls == {{1}, {2}, {3}, {1, 2}, {2, 3}}
SomeOrCalls == {<<2>>, <<1, 2>>, <<3, 1>>, <<3, 1, 2>>}
=============================================================================
