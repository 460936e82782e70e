------------------------- MODULE BluetoothDetector -------------------------
(***************************************************************************)
(* The proximity policy of bluetooth.rs: a detector that the host calls    *)
(* with the time, the last reading of a device and the health of the       *)
(* radio.  It is armed when the device has been near for three seconds and *)
(* fires once when the device then stays away, or, if the user opted in,   *)
(* when its advertisements stop.  Times are in milliseconds, as in the     *)
(* code; the trace of the calls is kept to state what the policy is.       *)
(***************************************************************************)
EXTENDS Integers, Sequences

CONSTANTS
    Configs,    \* triggers: calibration, duration and signal-loss limit
    Inputs,     \* what a call may bring
    MaxCalls,   \* bound: calls in a behaviour
    None

Stale == 5000
NearHold == 3000

ASSUME CallsAssumption ==
    /\ MaxCalls \in Nat
    /\ Configs \subseteq [near : Int, far : Int, duration : Int, loss : Int \cup {None}]
    /\ Inputs \subseteq [after : Int, rssi : Int \cup {None}, early : Int, healthy : BOOLEAN]
    /\ None \notin Int

VARIABLES
    config,  \* the trigger the detector watches for
    det,     \* the detector
    last,    \* the last reading the radio delivered
    trace    \* history: the calls and what they returned

vars == <<config, det, last, trace>>

Fresh == [armed |-> FALSE, nearSince |-> None, farSince |-> None, lastTick |-> None,
          fired |-> FALSE]

Init ==
    /\ config \in Configs
    /\ det = Fresh
    /\ last = None
    /\ trace = <<>>

-----------------------------------------------------------------------------
(* BluetoothCalibration and BluetoothTrigger.                              *)

ValidRssi(r) == r \in -110 .. -20

Valid(c) ==
    /\ c.duration \in 5 .. 300
    /\ c.loss # None => c.loss \in 15 .. 300
    /\ ValidRssi(c.near) /\ ValidRssi(c.far)
    /\ c.near - c.far >= 10

AwayBoundary(c) == c.far + 3
ReturnBoundary(c) == c.near - 3

-----------------------------------------------------------------------------
(* BluetoothDetector::update                                               *)

Result(d, state, fired) == [det |-> d, state |-> state, fired |-> fired]

\* Mutant: only a call that comes late counts as a gap.
GapForward(d, now) == d.lastTick # None /\ now - d.lastTick > Stale

\* The host was suspended, or the clock was set back.
Gap(d, now) == d.lastTick # None /\ (now < d.lastTick \/ now - d.lastTick > Stale)

IsFresh(r, now) == r # None /\ r.at <= now /\ now - r.at <= Stale /\ ValidRssi(r.rssi)

\* No fresh reading: both countdowns stop, and a long silence may count as departure.
Silent(d, c, now, r) ==
    LET paused == [d EXCEPT !.nearSince = None, !.farSince = None]
    IN  IF d.armed /\ c.loss # None /\ r # None /\ r.at <= now /\ now - r.at >= c.loss * 1000
        THEN Result([paused EXCEPT !.armed = FALSE, !.fired = TRUE], "signalLost", TRUE)
        ELSE Result(paused, "noSignal", FALSE)

OrNow(since, now) == IF since = None THEN now ELSE since

Near(d, now) ==
    LET since == OrNow(d.nearSince, now)
        held  == now - since >= NearHold
        next  == [d EXCEPT !.farSince = None, !.nearSince = since,
                           !.armed = held \/ @, !.fired = ~held /\ @]
    IN  Result(next, IF next.armed THEN "near" ELSE "waitingNear", FALSE)

\* Mutant: the reading between the boundaries does not stop the countdown.
BetweenCountsOn(d) == Result([d EXCEPT !.nearSince = None], "near", FALSE)

Between(d) == Result([d EXCEPT !.nearSince = None, !.farSince = None], "near", FALSE)

\* Mutant: the detector stays armed.
AwayStaysArmed(d, c, now) ==
    LET since == OrNow(d.farSince, now)
    IN  IF (now - since) \div 1000 >= c.duration
        THEN Result([d EXCEPT !.nearSince = None, !.fired = TRUE, !.farSince = None], "far", TRUE)
        ELSE Result([d EXCEPT !.nearSince = None, !.farSince = since], "leaving", FALSE)

\* Mutant: a second too late.
AwayTooLate(d, c, now) ==
    LET since == OrNow(d.farSince, now)
    IN  IF (now - since) \div 1000 > c.duration
        THEN Result([d EXCEPT !.nearSince = None, !.armed = FALSE, !.fired = TRUE,
                              !.farSince = None], "far", TRUE)
        ELSE Result([d EXCEPT !.nearSince = None, !.farSince = since], "leaving", FALSE)

Away(d, c, now) ==
    LET since == OrNow(d.farSince, now)
    IN  IF (now - since) \div 1000 >= c.duration
        THEN Result([d EXCEPT !.nearSince = None, !.armed = FALSE, !.fired = TRUE,
                              !.farSince = None], "far", TRUE)
        ELSE Result([d EXCEPT !.nearSince = None, !.farSince = since], "leaving", FALSE)

Unarmed(d) ==
    Result([d EXCEPT !.nearSince = None], IF d.fired THEN "triggered" ELSE "waitingNear", FALSE)

Update(before, c, now, r, healthy) ==
    LET usable == healthy /\ Valid(c)
        d == [(IF Gap(before, now) \/ ~usable THEN Fresh ELSE before) EXCEPT !.lastTick = now]
    IN  IF ~usable THEN Result(d, "unavailable", FALSE)
        ELSE IF ~IsFresh(r, now) THEN Silent(d, c, now, r)
        ELSE IF r.rssi >= ReturnBoundary(c) THEN Near(d, now)
        ELSE IF ~d.armed THEN Unarmed(d)
        ELSE IF r.rssi > AwayBoundary(c) THEN Between(d)
        ELSE Away(d, c, now)

-----------------------------------------------------------------------------
Now == IF trace = <<>> THEN 100000 ELSE trace[Len(trace)].at

\* The host calls after some time, with a new reading or the last one again.  Times are
\* unsigned.
Call(input) ==
    LET now == Now + input.after
        r   == IF input.rssi = None THEN last ELSE [rssi |-> input.rssi, at |-> now + input.early]
        result == Update(det, config, now, r, input.healthy)
    IN  /\ Len(trace) < MaxCalls
        /\ now \in Nat
        /\ r # None => r.at \in Nat
        /\ det' = result.det
        /\ last' = r
        /\ trace' = Append(trace, [at |-> now, reading |-> r, healthy |-> input.healthy,
                                   state |-> result.state, fired |-> result.fired])
        /\ UNCHANGED config

Next == \E input \in Inputs : Call(input)

Spec == Init /\ [][Next]_vars

-----------------------------------------------------------------------------
(* The policy, told from the trace.                                        *)

TypeOK ==
    /\ det.armed \in BOOLEAN /\ det.fired \in BOOLEAN
    /\ \A t \in {det.nearSince, det.farSince} : t # None => t \in Nat /\ t <= det.lastTick
    /\ det.farSince # None => det.armed /\ det.nearSince = None
    /\ det.armed => ~det.fired

Last == Len(trace)

\* Whatever was seen before call i is forgotten.
StartsOver(i) ==
    \/ i = 1
    \/ ~(trace[i].at - trace[i - 1].at \in 0 .. Stale)
    \/ ~trace[i - 1].healthy

OneSession(i, j) == \A n \in i + 1 .. j : ~StartsOver(n)

\* What the device was seen to do at call i.
Seen(i) == trace[i].healthy /\ Valid(config) /\ IsFresh(trace[i].reading, trace[i].at)
IsNear(i) == Seen(i) /\ trace[i].reading.rssi >= ReturnBoundary(config)
IsAway(i) == Seen(i) /\ trace[i].reading.rssi <= AwayBoundary(config)

\* At call m the device has been near for three seconds without a break.
NearAt(m) ==
    \E i \in 1 .. m : /\ OneSession(i, m)
                      /\ \A n \in i .. m : IsNear(n)
                      /\ trace[m].at - trace[i].at >= NearHold

\* ... it was near like that before call n, and nothing has fired since.
ArmedBy(n) ==
    \E m \in 1 .. n - 1 : NearAt(m) /\ OneSession(m, n) /\ \A f \in m .. n - 1 : ~trace[f].fired

\* At call n the device has been away for as long as the user asked, without a break.
Departs(n) ==
    \E i \in 1 .. n : /\ OneSession(i, n)
                      /\ \A j \in i .. n : IsAway(j)
                      /\ trace[n].at - trace[i].at >= config.duration * 1000

\* At call n the last reading is as old as the user allowed.
IsLost(n) ==
    /\ trace[n].healthy /\ Valid(config) /\ ~Seen(n)
    /\ config.loss # None /\ trace[n].reading # None
    /\ trace[n].at - trace[n].reading.at >= config.loss * 1000

\* A departure is only reported after the device was near, again if it is not the first,
\* and then away without a break or, by opt-in, silent: gaps, stale samples and radio
\* failures never add up to one.
NoFalseDeparture ==
    Last > 0 /\ trace[Last].fired => ArmedBy(Last) /\ (Departs(Last) \/ IsLost(Last))

\* A departure is not missed either.
DepartureIsSeen ==
    Last > 0 /\ ArmedBy(Last) /\ (Departs(Last) \/ IsLost(Last)) => trace[Last].fired
=============================================================================
