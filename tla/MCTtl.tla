-------------------------------- MODULE MCTtl --------------------------------
\* Values for the constants of Ttl.
EXTENDS Ttl

\* Masks with no channel, or channel 0 of bank 0; never channel 1.
MasksBank0 == {[b \in Banks |-> IF b = 0 THEN m ELSE {}] : m \in {{}, {0}}}
Chns0 == {<<0, 0>>}

\* A sequence that uses channel 0 of bank 1.
MasksBank1 == {[b \in Banks |-> IF b = 1 THEN {0} ELSE {}]}
Chns1 == {<<1, 0>>}
=============================================================================
