---------------------------- MODULE MCPluginBoard ----------------------------
\* An instance of PluginBoard: two plugins that go together, of which one has a dot
\* in its id and the other a capability that looks like it, one that is disabled and
\* would clash, the same plugin twice, and an inline one.
EXTENDS PluginBoard

CONSTANTS a, b, x

A  == <<a>>
B  == <<b>>
AB == <<a, b>>
X  == <<x>>
BX == <<b, x>>

MCSegments == {a, b, x}
MCIds  == {A, B, AB}
MCCaps == {X, BX}

P(id, caps, enabled) == [id |-> id, caps |-> caps, inline |-> FALSE, enabled |-> enabled]
Inline(id, caps) == [id |-> id, caps |-> caps, inline |-> TRUE, enabled |-> TRUE]

Lists == { << P(A, {BX}, TRUE), P(AB, {X}, TRUE) >>,
           << P(A, {X}, FALSE), P(B, {X}, TRUE) >>,
           << P(A, {X}, TRUE), P(A, {BX}, TRUE) >>,
           << P(A, {X, BX}, TRUE), Inline(B, {X}) >> }
==============================================================================
