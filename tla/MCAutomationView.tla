-------------------------- MODULE MCAutomationView --------------------------
(* A small instance of AutomationView: no error is ever reported, and one   *)
(* proposal is made.                                                        *)
EXTENDS AutomationView

NoErrors == {}
SomeProposals == {1}

Fresh == [cfg |-> [key \in Keys |-> FALSE], triggers |-> <<>>, made |-> 0, task |-> FALSE,
          proposals |-> [p \in SomeProposals |-> [Open EXCEPT !.status = "none"]]]

\* A new installation; one whose Advisor proposed something, with automation
\* and the verification gate on.
MCStarts ==
    {Fresh, [Fresh EXCEPT !.proposals[1] = Open,
                          !.cfg = [key \in Keys |-> key \in {"automation", "verifier"}]]}
=============================================================================
