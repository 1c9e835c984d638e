-------------------------- MODULE MCVersionsView --------------------------
(* Small instances of VersionsView.                                        *)
EXTENDS VersionsView

CONSTANT a

MCLines == {a}

\* The seed is served; a change was abandoned, with a line at it, and another
\* one is held.
MCStarts ==
    {[parent |-> <<0, 1, 1>>, main |-> 1, undo |-> <<2>>, held |-> {3},
      tip |-> [l \in {a} |-> 2], previews |-> {a}]}
=============================================================================
