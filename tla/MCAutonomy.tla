----------------------------- MODULE MCAutonomy -----------------------------
\* One error the tracker may report and one proposal of the Advisor.
EXTENDS Autonomy

SomeErrors == {1}
SomeProposals == {2}
=============================================================================
