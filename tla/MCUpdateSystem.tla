--------------------------- MODULE MCUpdateSystem ---------------------------
(* Boards and what their update source offers them.                       *)
EXTENDS UpdateSystem

CONSTANTS v1, v2

\* The foreign sketch has the length of v1, so drift from v1 goes unseen.
MCHeaderLength == [f \in Firmware |-> IF f = Golden THEN 1 ELSE IF f = v2 THEN 2 ELSE 3]

Good(v, s) == [version |-> v, sequence |-> s, trusted |-> TRUE, fits |-> TRUE,
               sketch |-> Whole(v), host |-> Nothing]

\* A sound update, a newer one with a host payload, and an unsigned manifest.
MCManifests == {Good(v1, 1), [Good(v2, 2) EXCEPT !.host = v2], [Good(v2, 3) EXCEPT !.trusted = FALSE]}

\* The one update the server keeps advertising.
MCOneManifest == {[Good(v1, 1) EXCEPT !.host = v1]}

MCPlainManifest == {Good(v1, 1)}

\* One version published three ways: sound, with the wrong image signed into
\* it, and without a signature.
MCOddManifests == {Good(v1, 1), [Good(v1, 2) EXCEPT !.sketch = Whole(Foreign)],
                   [Good(v1, 3) EXCEPT !.trusted = FALSE]}
=============================================================================
