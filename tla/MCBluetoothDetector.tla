------------------------ MODULE MCBluetoothDetector ------------------------
(* Instances of BluetoothDetector for TLC. *)
EXTENDS BluetoothDetector

CONSTANT FewCalls   \* bound: calls when every boundary is tried

Config(near, far, loss) == [near |-> near, far |-> far, duration |-> 5, loss |-> loss]

\* Without and with a signal-loss limit; and a calibration one dBm too narrow.
Boundary == {Config(-55, -65, None), Config(-55, -65, 15), Config(-55, -64, None)}

\* The device comes and goes more than once.
Repeated == Config(-60, -70, None)

AllConfigs == Boundary \cup {Repeated}

Reading(after, rssi) == [after |-> after, rssi |-> rssi, early |-> 0, healthy |-> TRUE]

\* On and next to every boundary of time and of signal strength; None is the last reading
\* again.  One call fails, one brings a reading of the future, one an impossible one, and
\* before one the clock is set back.
Boundaries ==
    {Reading(t, r) : t \in {3000, 5000}, r \in {-58, -62, None}}
      \cup {Reading(5001, r) : r \in {-58, -62}}
      \cup {Reading(2999, -58), Reading(4999, -62), Reading(1, -59), Reading(1, -62),
            Reading(3000, -111), Reading(-1, -62),
            [Reading(1, -62) EXCEPT !.healthy = FALSE],
            [Reading(1, -58) EXCEPT !.early = 1]}

NearAndAway == {Reading(t, r) : t \in {3000, 5000}, r \in {-63, -67}}

AllInputs == Boundaries \cup NearAndAway

\* Few calls with any input, or more calls that only come and go.
MCNext ==
    \/ config # Repeated /\ Len(trace) < FewCalls /\ \E input \in Boundaries : Call(input)
    \/ config = Repeated /\ \E input \in NearAndAway : Call(input)

MCSpec == Init /\ [][MCNext]_vars
=============================================================================
