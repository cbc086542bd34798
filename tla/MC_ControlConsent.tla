-------------------------- MODULE MC_ControlConsent --------------------------
EXTENDS ControlConsent, TLC

\* "v" is a valve whose second zone has no reading; "b" a valve and a socket,
\* its one port being port zero.
MCDeclared ==
    ("v" :> {<<"valve", 1>>, <<"valve", 2>>}) @@ ("b" :> {<<"valve", 0>>, <<"switch", 0>>})
MCRunStates ==
    ("v" :> (0 :> 0 @@ 1 :> 1 @@ 2 :> 0)) @@ ("b" :> (0 :> 1 @@ 1 :> 0 @@ 2 :> 0))
MCPortCount == ("v" :> 2) @@ ("b" :> 1)
MCFaulty == {<<"valve", "v">>}
=============================================================================
