-------------------------- MODULE MCAgentProxyStream --------------------------
EXTENDS AgentProxyStream

\* A short and a long placeholder, a piece of plain text, and a placeholder the
\* provider made up.
Placeholder(name) == Opening \o name \o Closing
Ticket == Placeholder(<<"t">>)
Person == Placeholder(<<"p", "p">>)
Given == <<Person, Ticket>>
GivenNames == [p \in {Person, Ticket} |-> IF p = Ticket THEN "T" ELSE "P"]
OtherWords == {<<"x">>, Placeholder(<<"t", "t">>)}
=============================================================================
