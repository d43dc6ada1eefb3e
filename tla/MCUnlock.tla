------------------------------ MODULE MCUnlock ------------------------------
\* Small boards for TLC: T of two or three ticks, so that a period has both
\* halves of the debounce, and Delta of one or two, so that rng and backoff
\* are not always the same.
EXTENDS Unlock

CONSTANTS hub, left, right

Star      == {<<hub, left>>, <<hub, right>>}
HubToLeft == {<<hub, left>>}
Both      == {<<hub, left>>, <<left, hub>>}

HubIsTuned  == T[hub] # DefaultT \/ Delta[hub] # DefaultDelta
LeftIsReady == /\ txReady[left] /\ mod[left] = "in"
               /\ lock[left] => handler[left] = "backoff"

\* The bound of the star: only the hub's parameters are written, and the third
\* board sends and loads only while they have their defaults and left is
\* loaded, has a free list and carries nothing from the time it had none.
RightComesLast ==
  /\ \A n \in {left, right} : T[n] = DefaultT /\ Delta[n] = DefaultDelta
  /\ ~txReady[right] => mod[right] = "out" /\ ~logging[right]
  /\ txReady[right] => LeftIsReady /\ ~HubIsTuned
=============================================================================
