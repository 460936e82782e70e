---------------------- MODULE BluetoothDetector_proofs ----------------------
(***************************************************************************)
(* Theorems about BluetoothDetector: for every calibration, and however    *)
(* the host calls, a departure is reported exactly when the trace of the   *)
(* calls says that the device left.                                        *)
(***************************************************************************)
EXTENDS BluetoothDetector, SequenceTheorems, TLAPS

-----------------------------------------------------------------------------
(* The inductive invariant: what the detector remembers, told from the     *)
(* trace.                                                                  *)

Sample == [rssi : Int, at : Nat]
State == {"unavailable", "signalLost", "noSignal", "near", "waitingNear", "far", "leaving", "triggered"}
Entry == [at : Nat, reading : Sample \cup {None}, healthy : BOOLEAN, state : State, fired : BOOLEAN]
Time == Nat \cup {None}
Detector == [armed : BOOLEAN, nearSince : Time, farSince : Time, lastTick : Time, fired : BOOLEAN]

\* From call i to call n the device was near, or away, without a break.
NearRun(i, n) == OneSession(i, n) /\ \A k \in i .. n : IsNear(k)
AwayRun(i, n) == OneSession(i, n) /\ \A k \in i .. n : IsAway(k)

\* A call was near for long enough, nothing fired since, and call n went well: a later call
\* of the session finds the detector armed.
ArmedAt(n) ==
    /\ \E m \in 1 .. n : NearAt(m) /\ OneSession(m, n) /\ \A f \in m .. n : ~trace[f].fired
    /\ trace[n].healthy

TypeInv ==
    /\ config \in Configs
    /\ det \in Detector
    /\ last \in Sample \cup {None}
    /\ trace \in Seq(Entry)
    /\ det.lastTick = IF Last = 0 THEN None ELSE trace[Last].at

ArmedInv ==
    /\ det.armed <=> ArmedAt(Last)
    /\ det.armed => ~det.fired

\* The countdown to near began at the first call of the longest run that is near.
NearInv ==
    /\ det.nearSince # None <=> Last > 0 /\ IsNear(Last)
    /\ det.nearSince # None =>
          /\ det.nearSince <= det.lastTick
          /\ \E i \in 1 .. Last : NearRun(i, Last) /\ det.nearSince = trace[i].at
          /\ \A i \in 1 .. Last : NearRun(i, Last) => det.nearSince <= trace[i].at

\* The countdown to departure, of a detector that is armed, began likewise.
FarInv ==
    /\ det.armed /\ IsAway(Last) => det.farSince # None
    /\ det.farSince # None =>
          /\ det.armed /\ det.nearSince = None
          /\ det.farSince <= det.lastTick
          /\ \E i \in 1 .. Last : AwayRun(i, Last) /\ det.farSince = trace[i].at
          /\ \A i \in 1 .. Last : AwayRun(i, Last) => det.farSince <= trace[i].at

IInv == TypeInv /\ ArmedInv /\ NearInv /\ FarInv

-----------------------------------------------------------------------------
(* Each branch of update, field by field.                                  *)

\* The detector after the first lines of update.
Begin(before, c, now, healthy) ==
    [(IF Gap(before, now) \/ ~(healthy /\ Valid(c)) THEN Fresh ELSE before) EXCEPT !.lastTick = now]

LEMMA UpdateBranches ==
    ASSUME NEW before, NEW c, NEW now, NEW r, NEW healthy
    PROVE  LET d == Begin(before, c, now, healthy)
           IN  Update(before, c, now, r, healthy) =
               IF ~(healthy /\ Valid(c)) THEN Result(d, "unavailable", FALSE)
               ELSE IF ~IsFresh(r, now) THEN Silent(d, c, now, r)
               ELSE IF r.rssi >= ReturnBoundary(c) THEN Near(d, now)
               ELSE IF ~d.armed THEN Unarmed(d)
               ELSE IF r.rssi > AwayBoundary(c) THEN Between(d)
               ELSE Away(d, c, now)
BY DEF Update, Begin

LEMMA BeginIs ==
    ASSUME NEW before \in Detector, NEW c, NEW now \in Nat, NEW healthy \in BOOLEAN,
           before.armed => ~before.fired
    PROVE  LET d == Begin(before, c, now, healthy)
               kept == ~Gap(before, now) /\ healthy /\ Valid(c)
           IN  /\ d \in Detector /\ d.lastTick = now
               /\ d.armed <=> kept /\ before.armed
               /\ d.nearSince = IF kept THEN before.nearSince ELSE None
               /\ d.farSince = IF kept THEN before.farSince ELSE None
               /\ d.armed => ~d.fired
<1>1. Fresh \in Detector /\ Fresh.armed = FALSE /\ Fresh.nearSince = None /\ Fresh.farSince = None
  BY DEF Fresh, Detector, Time
<1>2. CASE Gap(before, now) \/ ~(healthy /\ Valid(c))
  <2>1. Begin(before, c, now, healthy) = [Fresh EXCEPT !.lastTick = now]
    BY <1>2 DEF Begin
  <2> QED BY <1>1, <1>2, <2>1 DEF Detector, Time
<1>3. CASE ~(Gap(before, now) \/ ~(healthy /\ Valid(c)))
  <2>1. Begin(before, c, now, healthy) = [before EXCEPT !.lastTick = now]
    BY <1>3 DEF Begin
  <2> QED BY <1>3, <2>1 DEF Detector, Time
<1> QED BY <1>2, <1>3

\* The reading is as old as the user allowed.
Lost(d, c, now, r) ==
    d.armed /\ c.loss # None /\ r # None /\ r.at <= now /\ now - r.at >= c.loss * 1000

LEMMA SilentIs ==
    ASSUME NEW d \in Detector, NEW c, NEW now, NEW r, d.armed => ~d.fired
    PROVE  LET s == Silent(d, c, now, r)
           IN  /\ s.det \in Detector /\ s.state \in State /\ s.fired \in BOOLEAN
               /\ s.det.lastTick = d.lastTick
               /\ s.fired <=> Lost(d, c, now, r)
               /\ s.det.armed <=> d.armed /\ ~s.fired
               /\ s.det.nearSince = None /\ s.det.farSince = None
               /\ s.det.armed => ~s.det.fired
<1> DEFINE paused == [d EXCEPT !.nearSince = None, !.farSince = None]
<1>1. paused \in Detector /\ paused.armed = d.armed /\ paused.fired = d.fired /\ paused.lastTick = d.lastTick
      /\ paused.nearSince = None /\ paused.farSince = None
  BY DEF Detector, Time
<1>2. CASE Lost(d, c, now, r)
  <2> DEFINE next == [paused EXCEPT !.armed = FALSE, !.fired = TRUE]
  <2>1. Silent(d, c, now, r) = Result(next, "signalLost", TRUE)
    BY <1>2 DEF Silent, Lost
  <2> HIDE DEF paused
  <2>2. /\ next \in Detector /\ next.armed = FALSE /\ next.lastTick = paused.lastTick
        /\ next.nearSince = paused.nearSince /\ next.farSince = paused.farSince
    BY <1>1 DEF Detector
  <2> HIDE DEF next
  <2>3. LET s == Silent(d, c, now, r) IN s.det = next /\ s.state = "signalLost" /\ s.fired = TRUE
    BY <2>1 DEF Result
  <2> QED BY <1>1, <1>2, <2>2, <2>3 DEF State
<1>3. CASE ~Lost(d, c, now, r)
  <2>1. Silent(d, c, now, r) = Result(paused, "noSignal", FALSE)
    BY <1>3 DEF Silent, Lost
  <2> HIDE DEF paused
  <2> QED BY <1>1, <1>3, <2>1 DEF Result, Detector, Time, State
<1> QED BY <1>2, <1>3

LEMMA NearIs ==
    ASSUME NEW d \in Detector, NEW now \in Nat, d.armed => ~d.fired
    PROVE  LET s == Near(d, now)
           IN  /\ s.det \in Detector /\ s.state \in State /\ s.fired = FALSE
               /\ s.det.lastTick = d.lastTick
               /\ s.det.nearSince = OrNow(d.nearSince, now) /\ s.det.farSince = None
               /\ s.det.armed <=> d.armed \/ now - s.det.nearSince >= NearHold
               /\ s.det.armed => ~s.det.fired
<1> DEFINE since == OrNow(d.nearSince, now)
           held == now - since >= NearHold
           next == [d EXCEPT !.farSince = None, !.nearSince = since,
                             !.armed = held \/ @, !.fired = ~held /\ @]
           state == IF next.armed THEN "near" ELSE "waitingNear"
<1>1. Near(d, now) = Result(next, state, FALSE)
  BY DEF Near
<1>2. since \in Nat /\ held \in BOOLEAN
  BY DEF OrNow, Detector, Time, NearHold
<1>3. /\ next \in Detector /\ next.lastTick = d.lastTick
      /\ next.nearSince = since /\ next.farSince = None
      /\ next.armed = (held \/ d.armed) /\ next.fired = (~held /\ d.fired)
  <2> HIDE DEF since, held
  <2> QED BY <1>2 DEF Detector, Time
<1>4. state \in State
  BY DEF State
<1>5. held = (now - since >= NearHold)
  OBVIOUS
<1> HIDE DEF next, state, held
<1>6. Near(d, now).det = next /\ Near(d, now).state = state /\ Near(d, now).fired = FALSE
  BY <1>1 DEF Result
<1> QED BY <1>3, <1>4, <1>5, <1>6

LEMMA OtherIs ==
    ASSUME NEW d \in Detector, NEW s \in {Unarmed(d), Between(d)}, d.armed => ~d.fired,
           ~d.armed => d.farSince = None, s = Between(d) \/ ~d.armed
    PROVE  /\ s.det \in Detector /\ s.state \in State /\ s.fired = FALSE
           /\ s.det.lastTick = d.lastTick
           /\ s.det.nearSince = None /\ s.det.farSince = None
           /\ s.det.armed = d.armed
           /\ s.det.armed => ~s.det.fired
<1>1. CASE s = Between(d)
  BY <1>1 DEF Between, Result, Detector, Time, State
<1>2. CASE s = Unarmed(d) /\ ~d.armed
  BY <1>2 DEF Unarmed, Result, Detector, Time, State
<1> QED BY <1>1, <1>2

LEMMA AwayIs ==
    ASSUME NEW d \in Detector, NEW c \in Configs, NEW now \in Nat, d.armed, ~d.fired
    PROVE  LET s == Away(d, c, now)
               since == OrNow(d.farSince, now)
           IN  /\ s.det \in Detector /\ s.state \in State /\ s.fired \in BOOLEAN
               /\ s.det.lastTick = d.lastTick
               /\ s.fired <=> now - since >= c.duration * 1000
               /\ s.det.armed <=> ~s.fired
               /\ s.det.nearSince = None
               /\ s.det.farSince = IF s.fired THEN None ELSE since
               /\ s.det.armed => ~s.det.fired
<1> DEFINE since == OrNow(d.farSince, now)
<1>1. since \in Nat /\ c.duration \in Int
  BY CallsAssumption DEF OrNow, Detector, Time
<1>2. (now - since) \div 1000 >= c.duration <=> now - since >= c.duration * 1000
  <2> HIDE DEF since
  <2> QED BY <1>1
<1>3. Away(d, c, now) =
         IF (now - since) \div 1000 >= c.duration
         THEN Result([d EXCEPT !.nearSince = None, !.armed = FALSE, !.fired = TRUE,
                               !.farSince = None], "far", TRUE)
         ELSE Result([d EXCEPT !.nearSince = None, !.farSince = since], "leaving", FALSE)
  BY DEF Away
<1> HIDE DEF since
<1>4. CASE now - since >= c.duration * 1000
  <2> DEFINE next == [d EXCEPT !.nearSince = None, !.armed = FALSE, !.fired = TRUE, !.farSince = None]
  <2>1. Away(d, c, now) = Result(next, "far", TRUE)
    <3>1. (now - since) \div 1000 >= c.duration
      BY <1>2, <1>4, Zenon
    <3> QED BY <1>3, <3>1, Zenon
  <2>2. /\ next \in Detector /\ next.armed = FALSE /\ next.lastTick = d.lastTick
        /\ next.nearSince = None /\ next.farSince = None
    BY DEF Detector, Time
  <2> HIDE DEF next
  <2>3. LET s == Away(d, c, now) IN s.det = next /\ s.state = "far" /\ s.fired = TRUE
    BY <2>1 DEF Result
  <2> QED BY <1>4, <2>2, <2>3 DEF State, since
<1>5. CASE ~(now - since >= c.duration * 1000)
  <2> DEFINE next == [d EXCEPT !.nearSince = None, !.farSince = since]
  <2>1. Away(d, c, now) = Result(next, "leaving", FALSE)
    <3>1. ~((now - since) \div 1000 >= c.duration)
      BY <1>2, <1>5, Zenon
    <3> QED BY <1>3, <3>1, Zenon
  <2>2. /\ next \in Detector /\ next.armed /\ ~next.fired /\ next.lastTick = d.lastTick
        /\ next.nearSince = None /\ next.farSince = since
    BY <1>1 DEF Detector, Time
  <2> HIDE DEF next
  <2>3. LET s == Away(d, c, now) IN s.det = next /\ s.state = "leaving" /\ s.fired = FALSE
    BY <2>1 DEF Result
  <2> QED BY <1>5, <2>2, <2>3 DEF State, since
<1> QED BY <1>4, <1>5

-----------------------------------------------------------------------------
(* A call extends the trace: what was said of the earlier calls stays.     *)

LEMMA TraceGrows ==
    ASSUME trace \in Seq(Entry), NEW n \in Nat, n = Last, NEW e \in Entry,
           trace' = Append(trace, e), config' = config
    PROVE  /\ Last' = n + 1 /\ trace'[n + 1] = e /\ trace' \in Seq(Entry)
           /\ \A i \in 1 .. n : /\ trace'[i] = trace[i]
                                /\ IsNear(i)' <=> IsNear(i)
                                /\ IsAway(i)' <=> IsAway(i)
                                /\ StartsOver(i)' <=> StartsOver(i)
<1>1. /\ Len(trace') = n + 1 /\ trace'[n + 1] = e /\ trace' \in Seq(Entry)
      /\ \A i \in 1 .. n : trace'[i] = trace[i]
  BY DEF Last
<1>2. ASSUME NEW i \in 1 .. n
      PROVE  (IsNear(i)' <=> IsNear(i)) /\ (IsAway(i)' <=> IsAway(i))
  BY <1>1 DEF IsNear, IsAway, Seen
<1>3. ASSUME NEW i \in 1 .. n
      PROVE  StartsOver(i)' <=> StartsOver(i)
  <2>1. CASE i = 1
    BY <2>1 DEF StartsOver
  <2>2. CASE i # 1
    <3>1. i - 1 \in 1 .. n
      BY <2>2
    <3> QED BY <1>1, <2>2, <3>1 DEF StartsOver
  <2> QED BY <2>1, <2>2
<1> QED BY <1>1, <1>2, <1>3 DEF Last

LEMMA SessionsGrow ==
    ASSUME trace \in Seq(Entry), NEW n \in Nat, n = Last, NEW e \in Entry,
           trace' = Append(trace, e), config' = config
    PROVE  /\ \A i \in 1 .. n, j \in 1 .. n : OneSession(i, j)' <=> OneSession(i, j)
           /\ \A i \in 1 .. n : OneSession(i, n + 1)' <=> OneSession(i, n) /\ ~StartsOver(n + 1)'
           /\ OneSession(n + 1, n + 1)'
           /\ \A m \in 1 .. n : NearAt(m)' <=> NearAt(m)
<1>1. \A i \in 1 .. n : /\ trace'[i] = trace[i]
                        /\ IsNear(i)' <=> IsNear(i)
                        /\ StartsOver(i)' <=> StartsOver(i)
  BY TraceGrows
<1>2. ASSUME NEW i \in 1 .. n, NEW j \in 1 .. n
      PROVE  OneSession(i, j)' <=> OneSession(i, j)
  <2>1. \A k \in i + 1 .. j : k \in 1 .. n
    OBVIOUS
  <2> QED BY <1>1, <2>1 DEF OneSession
<1>3. ASSUME NEW i \in 1 .. n
      PROVE  OneSession(i, n + 1)' <=> OneSession(i, n) /\ ~StartsOver(n + 1)'
  <2>1. /\ \A k \in i + 1 .. n + 1 : k \in i + 1 .. n \/ k = n + 1
        /\ \A k \in i + 1 .. n : k \in i + 1 .. n + 1 /\ k \in 1 .. n
        /\ n + 1 \in i + 1 .. n + 1
    OBVIOUS
  <2> QED BY <1>1, <2>1 DEF OneSession
<1>4. OneSession(n + 1, n + 1)'
  BY DEF OneSession
<1>5. ASSUME NEW m \in 1 .. n
      PROVE  NearAt(m)' <=> NearAt(m)
  <2>1. \A i \in 1 .. m : i \in 1 .. n /\ \A k \in i .. m : k \in 1 .. n
    OBVIOUS
  <2> QED BY <1>1, <1>2, <2>1 DEF NearAt
<1> QED BY <1>2, <1>3, <1>4, <1>5

\* A run that lasts to the new call is one that lasted to the call before, or the new call.
LEMMA RunsGrow ==
    ASSUME trace \in Seq(Entry), NEW n \in Nat, n = Last, NEW e \in Entry,
           trace' = Append(trace, e), config' = config
    PROVE  /\ \A i \in 1 .. n : /\ NearRun(i, n + 1)' <=> NearRun(i, n) /\ ~StartsOver(n + 1)' /\ IsNear(n + 1)'
                                /\ AwayRun(i, n + 1)' <=> AwayRun(i, n) /\ ~StartsOver(n + 1)' /\ IsAway(n + 1)'
           /\ NearRun(n + 1, n + 1)' <=> IsNear(n + 1)'
           /\ AwayRun(n + 1, n + 1)' <=> IsAway(n + 1)'
<1>1. \A i \in 1 .. n : /\ IsNear(i)' <=> IsNear(i)
                        /\ IsAway(i)' <=> IsAway(i)
                        /\ OneSession(i, n + 1)' <=> OneSession(i, n) /\ ~StartsOver(n + 1)'
  BY TraceGrows, SessionsGrow
<1>2. OneSession(n + 1, n + 1)'
  BY SessionsGrow
<1>3. ASSUME NEW i \in 1 .. n
      PROVE  /\ NearRun(i, n + 1)' <=> NearRun(i, n) /\ ~StartsOver(n + 1)' /\ IsNear(n + 1)'
             /\ AwayRun(i, n + 1)' <=> AwayRun(i, n) /\ ~StartsOver(n + 1)' /\ IsAway(n + 1)'
  <2>1. /\ \A k \in i .. n + 1 : k \in i .. n \/ k = n + 1
        /\ \A k \in i .. n : k \in i .. n + 1 /\ k \in 1 .. n
        /\ n + 1 \in i .. n + 1
    OBVIOUS
  <2> QED BY <1>1, <2>1 DEF NearRun, AwayRun
<1>4. /\ NearRun(n + 1, n + 1)' <=> IsNear(n + 1)'
      /\ AwayRun(n + 1, n + 1)' <=> IsAway(n + 1)'
  <2>1. \A k : k \in n + 1 .. n + 1 <=> k = n + 1
    OBVIOUS
  <2> QED BY <1>2, <2>1 DEF NearRun, AwayRun
<1> QED BY <1>3, <1>4

\* Who was armed before the new call is armed by it, unless the session ends.
LEMMA ArmedByGrows ==
    ASSUME trace \in Seq(Entry), NEW n \in Nat, n = Last, NEW e \in Entry,
           trace' = Append(trace, e), config' = config
    PROVE  /\ ArmedBy(n + 1)' <=> ArmedAt(n) /\ ~StartsOver(n + 1)'
           /\ ArmedAt(n + 1)' <=> (ArmedBy(n + 1)' \/ NearAt(n + 1)') /\ ~e.fired /\ e.healthy
<1>1. /\ trace'[n + 1] = e
      /\ \A i \in 1 .. n : trace'[i] = trace[i]
      /\ \A i \in 1 .. n : OneSession(i, n + 1)' <=> OneSession(i, n) /\ ~StartsOver(n + 1)'
      /\ OneSession(n + 1, n + 1)'
      /\ \A m \in 1 .. n : NearAt(m)' <=> NearAt(m)
  BY TraceGrows, SessionsGrow
<1>2. n # 0 /\ ~StartsOver(n + 1)' => trace[n].healthy
  <2>1. (n + 1) - 1 = n /\ (n # 0 => n \in 1 .. n /\ n + 1 # 1)
    OBVIOUS
  <2> QED BY <1>1, <2>1 DEF StartsOver
<1>3. ArmedBy(n + 1)' <=> \E m \in 1 .. n : /\ NearAt(m) /\ OneSession(m, n) /\ ~StartsOver(n + 1)'
                                            /\ \A f \in m .. n : ~trace[f].fired
  <2>1. (n + 1) - 1 = n /\ \A m \in 1 .. n : \A f \in m .. n : f \in 1 .. n
    OBVIOUS
  <2>2. ArmedBy(n + 1)' <=> \E m \in 1 .. n : /\ NearAt(m)' /\ OneSession(m, n + 1)'
                                              /\ \A f \in m .. n : ~trace'[f].fired
    BY <2>1 DEF ArmedBy
  <2>3. ASSUME NEW m \in 1 .. n
        PROVE  /\ NearAt(m)' /\ OneSession(m, n + 1)' <=> NearAt(m) /\ OneSession(m, n) /\ ~StartsOver(n + 1)'
               /\ (\A f \in m .. n : ~trace'[f].fired) <=> \A f \in m .. n : ~trace[f].fired
    BY <1>1, <2>1
  <2> QED BY <2>2, <2>3
<1>4. ArmedBy(n + 1)' <=> ArmedAt(n) /\ ~StartsOver(n + 1)'
  BY <1>2, <1>3 DEF ArmedAt
<1>5. ASSUME NEW m \in 1 .. n
      PROVE  (\A f \in m .. n + 1 : ~trace'[f].fired) <=> (\A f \in m .. n : ~trace'[f].fired) /\ ~e.fired
  <2>1. /\ \A f \in m .. n + 1 : f \in m .. n \/ f = n + 1
        /\ \A f \in m .. n : f \in m .. n + 1
        /\ n + 1 \in m .. n + 1
    OBVIOUS
  <2> QED BY <1>1, <2>1
<1>6. (\E m \in 1 .. n + 1 : NearAt(m)' /\ OneSession(m, n + 1)' /\ \A f \in m .. n + 1 : ~trace'[f].fired)
         <=> (ArmedBy(n + 1)' \/ NearAt(n + 1)') /\ ~e.fired
  <2>1. /\ \A m \in 1 .. n + 1 : m \in 1 .. n \/ m = n + 1
        /\ \A m \in 1 .. n : m \in 1 .. n + 1
        /\ n + 1 \in 1 .. n + 1 /\ (n + 1) - 1 = n
        /\ \A f : f \in n + 1 .. n + 1 <=> f = n + 1
    OBVIOUS
  <2>2. ArmedBy(n + 1)' <=> \E m \in 1 .. n : /\ NearAt(m)' /\ OneSession(m, n + 1)'
                                              /\ \A f \in m .. n : ~trace'[f].fired
    BY <2>1 DEF ArmedBy
  <2>3. (\A f \in n + 1 .. n + 1 : ~trace'[f].fired) <=> ~e.fired
    BY <1>1, <2>1
  <2>4. (\E m \in 1 .. n + 1 : NearAt(m)' /\ OneSession(m, n + 1)' /\ \A f \in m .. n + 1 : ~trace'[f].fired)
          <=> \/ \E m \in 1 .. n : NearAt(m)' /\ OneSession(m, n + 1)' /\ \A f \in m .. n + 1 : ~trace'[f].fired
              \/ NearAt(n + 1)' /\ OneSession(n + 1, n + 1)' /\ \A f \in n + 1 .. n + 1 : ~trace'[f].fired
    BY <2>1
  <2> QED BY <1>1, <1>5, <2>2, <2>3, <2>4
<1>7. ArmedAt(n + 1)' <=>
         /\ \E m \in 1 .. n + 1 : NearAt(m)' /\ OneSession(m, n + 1)' /\ \A f \in m .. n + 1 : ~trace'[f].fired
         /\ e.healthy
  BY <1>1 DEF ArmedAt
<1> QED BY <1>4, <1>6, <1>7

-----------------------------------------------------------------------------
(* One call.                                                               *)

EntryOf(now, r, healthy, s) ==
    [at |-> now, reading |-> r, healthy |-> healthy, state |-> s.state, fired |-> s.fired]

\* After n calls, a call at now with the reading r: d is the detector after the first
\* lines of update, s the result.
Calls(n, now, r, healthy, d, s) ==
    /\ n = Last
    /\ config' = config /\ last' = r /\ det' = s.det
    /\ trace' = Append(trace, EntryOf(now, r, healthy, s))
    /\ d.lastTick = now /\ (d.armed => ~d.fired)
    /\ s = IF ~(healthy /\ Valid(config)) THEN Result(d, "unavailable", FALSE)
           ELSE IF ~IsFresh(r, now) THEN Silent(d, config, now, r)
           ELSE IF r.rssi >= ReturnBoundary(config) THEN Near(d, now)
           ELSE IF ~d.armed THEN Unarmed(d)
           ELSE IF r.rssi > AwayBoundary(config) THEN Between(d)
           ELSE Away(d, config, now)

LEMMA GapIs ==
    ASSUME NEW d, NEW now \in Nat, d.lastTick \in Nat
    PROVE  Gap(d, now) <=> ~(now - d.lastTick \in 0 .. Stale)
<1>1. Stale \in Nat
  BY DEF Stale
<1>2. d.lastTick # None
  BY CallsAssumption
<1>3. \A a \in Int : a \in 0 .. Stale <=> 0 <= a /\ a <= Stale
  BY <1>1
<1> QED BY <1>1, <1>2, <1>3 DEF Gap

LEMMA CallIs ==
    ASSUME IInv, NEW input \in Inputs, Call(input)
    PROVE  \E n \in Nat, now \in Nat, r \in Sample \cup {None}, healthy \in BOOLEAN, d \in Detector :
              \E s : /\ Calls(n, now, r, healthy, d, s)
                     /\ d = Begin(det, config, now, healthy)
<1>0. PICK healthy \in BOOLEAN : healthy = input.healthy
  BY CallsAssumption
<1> DEFINE now == Now + input.after
           r == IF input.rssi = None THEN last ELSE [rssi |-> input.rssi, at |-> now + input.early]
           s == Update(det, config, now, r, healthy)
           d == Begin(det, config, now, healthy)
<1>1. /\ now \in Nat /\ (r # None => r.at \in Nat)
      /\ det' = s.det /\ last' = r /\ config' = config
      /\ trace' = Append(trace, EntryOf(now, r, healthy, s))
  BY <1>0 DEF Call, EntryOf
<1>2. /\ (input.rssi # None => input.rssi \in Int)
      /\ last \in Sample \cup {None} /\ det \in Detector /\ Last \in Nat
      /\ det.armed => ~det.fired
  BY CallsAssumption DEF IInv, TypeInv, ArmedInv, Last
<1>3. r \in Sample \cup {None}
  BY <1>1, <1>2 DEF Sample
<1> HIDE DEF now, r
<1>4. d \in Detector /\ d.lastTick = now /\ (d.armed => ~d.fired)
  <2> SUFFICES ASSUME NEW b \in Detector, NEW nw \in Nat, b.armed => ~b.fired
               PROVE  LET e == Begin(b, config, nw, healthy)
                      IN  e \in Detector /\ e.lastTick = nw /\ (e.armed => ~e.fired)
    BY <1>1, <1>2
  <2> QED BY BeginIs
<1>5. s = IF ~(healthy /\ Valid(config)) THEN Result(d, "unavailable", FALSE)
          ELSE IF ~IsFresh(r, now) THEN Silent(d, config, now, r)
          ELSE IF r.rssi >= ReturnBoundary(config) THEN Near(d, now)
          ELSE IF ~d.armed THEN Unarmed(d)
          ELSE IF r.rssi > AwayBoundary(config) THEN Between(d)
          ELSE Away(d, config, now)
  BY UpdateBranches
<1> HIDE DEF s, d
<1>6. Calls(Last, now, r, healthy, d, s)
  BY <1>1, <1>4, <1>5 DEF Calls
<1> QED BY <1>1, <1>2, <1>3, <1>4, <1>6 DEF d

\* What the new entry shows.
LEMMA EntryShows ==
    ASSUME IInv, NEW n \in Nat, NEW now \in Nat, NEW r \in Sample \cup {None}, NEW healthy \in BOOLEAN,
           NEW d, NEW s, Calls(n, now, r, healthy, d, s), EntryOf(now, r, healthy, s) \in Entry
    PROVE  LET fresh == healthy /\ Valid(config) /\ IsFresh(r, now)
           IN  /\ IsNear(n + 1)' <=> fresh /\ r.rssi >= ReturnBoundary(config)
               /\ IsAway(n + 1)' <=> fresh /\ r.rssi <= AwayBoundary(config)
               /\ IsLost(n + 1)' <=> /\ healthy /\ Valid(config) /\ ~IsFresh(r, now)
                                     /\ config.loss # None /\ r # None
                                     /\ now - r.at >= config.loss * 1000
               /\ StartsOver(n + 1)' <=> \/ n = 0
                                         \/ ~(now - trace[n].at \in 0 .. Stale)
                                         \/ ~trace[n].healthy
<1> DEFINE e == EntryOf(now, r, healthy, s)
<1>1. /\ e.at = now /\ e.reading = r /\ e.healthy = healthy
      /\ e \in Entry /\ n = Last /\ config' = config /\ trace' = Append(trace, e) /\ trace \in Seq(Entry)
  BY DEF EntryOf, Calls, IInv, TypeInv
<1> HIDE DEF e
<1>2. trace'[n + 1] = e /\ \A i \in 1 .. n : trace'[i] = trace[i]
  BY <1>1, TraceGrows
<1>3. Seen(n + 1)' <=> healthy /\ Valid(config) /\ IsFresh(r, now)
  BY <1>1, <1>2 DEF Seen
<1>4. StartsOver(n + 1)' <=> n = 0 \/ ~(now - trace[n].at \in 0 .. Stale) \/ ~trace[n].healthy
  <2>1. (n + 1) - 1 = n /\ (n # 0 => n \in 1 .. n) /\ (n + 1 = 1 <=> n = 0)
    OBVIOUS
  <2> QED BY <1>1, <1>2, <2>1 DEF StartsOver
<1> QED BY <1>1, <1>2, <1>3, <1>4 DEF IsNear, IsAway, IsLost

\* What the first lines of update keep: all, unless the session starts over.
LEMMA BeginKeeps ==
    ASSUME IInv, NEW n \in Nat, NEW now \in Nat, NEW r \in Sample \cup {None}, NEW healthy \in BOOLEAN,
           NEW d, NEW s, Calls(n, now, r, healthy, d, s), EntryOf(now, r, healthy, s) \in Entry,
           d = Begin(det, config, now, healthy)
    PROVE  LET kept == healthy /\ Valid(config) /\ ~StartsOver(n + 1)'
           IN  /\ d.armed <=> kept /\ det.armed
               /\ d.nearSince = IF kept THEN det.nearSince ELSE None
               /\ d.farSince = IF kept THEN det.farSince ELSE None
<1>1. /\ det \in Detector /\ n = Last /\ trace \in Seq(Entry) /\ (det.armed => ~det.fired)
      /\ det.lastTick = IF n = 0 THEN None ELSE trace[n].at
  BY DEF Calls, IInv, TypeInv, ArmedInv
<1>2. StartsOver(n + 1)' <=> n = 0 \/ ~(now - trace[n].at \in 0 .. Stale) \/ ~trace[n].healthy
  BY EntryShows
<1>3. n # 0 => trace[n].at \in Nat
  <2>1. n # 0 => n \in 1 .. Len(trace)
    BY <1>1 DEF Last
  <2>2. n # 0 => trace[n] \in Entry
    BY <1>1, <2>1
  <2> QED BY <2>2 DEF Entry
<1>4. Gap(det, now) <=> n # 0 /\ ~(now - trace[n].at \in 0 .. Stale)
  <2>1. CASE n = 0
    BY <1>1, <2>1 DEF Gap
  <2>2. CASE n # 0
    <3>1. det.lastTick = trace[n].at /\ det.lastTick # None
      BY <1>1, <1>3, <2>2, CallsAssumption
    <3> QED BY <1>3, <2>2, <3>1, GapIs
  <2> QED BY <2>1, <2>2
<1>5. n = 0 \/ ~trace[n].healthy => ~det.armed /\ det.nearSince = None /\ det.farSince = None
  BY <1>1 DEF IInv, ArmedInv, ArmedAt, NearInv, FarInv, IsNear, Seen
<1>6. LET kept == ~Gap(det, now) /\ healthy /\ Valid(config)
      IN  /\ d.armed <=> kept /\ det.armed
          /\ d.nearSince = IF kept THEN det.nearSince ELSE None
          /\ d.farSince = IF kept THEN det.farSince ELSE None
  BY <1>1, BeginIs
<1> QED BY <1>2, <1>4, <1>5, <1>6

\* The detector, its state and its answer after a call that begins with the detector d.
Does(now, r, healthy, d, s) ==
    LET usable == healthy /\ Valid(config)
        fresh  == usable /\ IsFresh(r, now)
        near   == fresh /\ r.rssi >= ReturnBoundary(config)
        away   == fresh /\ r.rssi <= AwayBoundary(config)
    IN  /\ s.det \in Detector /\ s.state \in State /\ s.fired \in BOOLEAN
        /\ s.det.lastTick = now /\ (s.det.armed => ~s.det.fired)
        /\ s.fired <=> \/ usable /\ ~fresh /\ Lost(d, config, now, r)
                       \/ away /\ d.armed /\ now - OrNow(d.farSince, now) >= config.duration * 1000
        /\ s.det.armed <=> /\ usable /\ ~s.fired
                           /\ d.armed \/ (near /\ now - OrNow(d.nearSince, now) >= NearHold)
        /\ s.det.nearSince = IF near THEN OrNow(d.nearSince, now) ELSE None
        /\ s.det.farSince = IF away /\ d.armed /\ ~s.fired THEN OrNow(d.farSince, now) ELSE None

\* What a call does to the detector, whatever its branch.
LEMMA CallDoes ==
    ASSUME IInv, NEW n \in Nat, NEW now \in Nat, NEW r \in Sample \cup {None}, NEW healthy \in BOOLEAN,
           NEW d \in Detector, NEW s, Calls(n, now, r, healthy, d, s),
           d = Begin(det, config, now, healthy)
    PROVE  Does(now, r, healthy, d, s)
<1> DEFINE usable == healthy /\ Valid(config)
           fresh  == usable /\ IsFresh(r, now)
           near   == fresh /\ r.rssi >= ReturnBoundary(config)
           away   == fresh /\ r.rssi <= AwayBoundary(config)
<1>1. /\ d.lastTick = now /\ (d.armed => ~d.fired)
      /\ s = IF ~usable THEN Result(d, "unavailable", FALSE)
             ELSE IF ~IsFresh(r, now) THEN Silent(d, config, now, r)
             ELSE IF r.rssi >= ReturnBoundary(config) THEN Near(d, now)
             ELSE IF ~d.armed THEN Unarmed(d)
             ELSE IF r.rssi > AwayBoundary(config) THEN Between(d)
             ELSE Away(d, config, now)
  BY DEF Calls
<1>2. /\ ~usable => ~d.armed /\ d.nearSince = None /\ d.farSince = None
      /\ ~d.armed => d.farSince = None
  <2>0. det \in Detector /\ (det.armed => ~det.fired)
    BY DEF IInv, TypeInv, ArmedInv
  <2>1. det.farSince # None => det.armed
    BY DEF IInv, FarInv
  <2>2. LET kept == ~Gap(det, now) /\ healthy /\ Valid(config)
        IN  /\ d.armed <=> kept /\ det.armed
            /\ d.nearSince = IF kept THEN det.nearSince ELSE None
            /\ d.farSince = IF kept THEN det.farSince ELSE None
    BY <2>0, BeginIs
  <2> QED BY <2>1, <2>2
<1>3. config \in Configs
  BY DEF IInv, TypeInv
<1>4. /\ fresh => r \in Sample
      /\ near => ~away
      /\ fresh /\ ~near => (away <=> ~(r.rssi > AwayBoundary(config)))
  BY <1>3, CallsAssumption DEF IsFresh, Valid, Sample, ReturnBoundary, AwayBoundary
<1> HIDE DEF usable, fresh, near, away
<1>11. d.armed => ~d.fired
  BY <1>1
<1>5. (fresh => usable) /\ (near => fresh) /\ (away => fresh)
  BY DEF fresh, near, away
<1> DEFINE Good == /\ s.det \in Detector /\ s.state \in State /\ s.fired \in BOOLEAN
                   /\ s.det.lastTick = now /\ (s.det.armed => ~s.det.fired)
                   /\ s.fired <=> \/ usable /\ ~fresh /\ Lost(d, config, now, r)
                                  \/ away /\ d.armed /\ now - OrNow(d.farSince, now) >= config.duration * 1000
                   /\ s.det.armed <=> /\ usable /\ ~s.fired
                                      /\ d.armed \/ (near /\ now - OrNow(d.nearSince, now) >= NearHold)
                   /\ s.det.nearSince = IF near THEN OrNow(d.nearSince, now) ELSE None
                   /\ s.det.farSince = IF away /\ d.armed /\ ~s.fired THEN OrNow(d.farSince, now) ELSE None
<1>6. CASE ~usable
  <2>1. s.det = d /\ s.state = "unavailable" /\ s.fired = FALSE
    BY <1>1, <1>6 DEF Result
  <2>2. s.state \in State
    BY <2>1 DEF State
  <2>3. Good
    BY <1>1, <1>2, <1>5, <1>6, <2>1, <2>2
  <2> QED BY <2>3 DEF usable, fresh, near, away, Does
<1>7. CASE usable /\ ~fresh
  <2>1. s = Silent(d, config, now, r)
    BY <1>1, <1>7 DEF fresh
  <2>2. /\ s.det \in Detector /\ s.state \in State /\ s.fired \in BOOLEAN
        /\ s.det.lastTick = d.lastTick
        /\ s.fired <=> Lost(d, config, now, r)
        /\ s.det.armed <=> d.armed /\ ~s.fired
        /\ s.det.nearSince = None /\ s.det.farSince = None
        /\ s.det.armed => ~s.det.fired
    BY <1>11, <2>1, SilentIs
  <2>3. Good
    BY <1>1, <1>5, <1>7, <2>2
  <2> QED BY <2>3 DEF usable, fresh, near, away, Does
<1>8. CASE near
  <2>1. s = Near(d, now)
    BY <1>1, <1>5, <1>8 DEF fresh, near
  <2>2. /\ s.det \in Detector /\ s.state \in State /\ s.fired = FALSE
        /\ s.det.lastTick = d.lastTick
        /\ s.det.nearSince = OrNow(d.nearSince, now) /\ s.det.farSince = None
        /\ s.det.armed <=> d.armed \/ now - s.det.nearSince >= NearHold
        /\ s.det.armed => ~s.det.fired
    BY <1>11, <2>1, NearIs
  <2>3. Good
    BY <1>1, <1>4, <1>5, <1>8, <2>2
  <2> QED BY <2>3 DEF usable, fresh, near, away, Does
<1>9. CASE fresh /\ ~near /\ (~d.armed \/ ~away)
  <2>1. s \in {Unarmed(d), Between(d)} /\ (s = Between(d) \/ ~d.armed)
    BY <1>1, <1>4, <1>5, <1>9 DEF fresh, near
  <2>2. /\ s.det \in Detector /\ s.state \in State /\ s.fired = FALSE
        /\ s.det.lastTick = d.lastTick
        /\ s.det.nearSince = None /\ s.det.farSince = None
        /\ s.det.armed = d.armed
        /\ s.det.armed => ~s.det.fired
    BY <1>2, <1>11, <2>1, OtherIs
  <2>3. Good
    BY <1>1, <1>5, <1>9, <2>2
  <2> QED BY <2>3 DEF usable, fresh, near, away, Does
<1>10. CASE fresh /\ ~near /\ d.armed /\ away
  <2>1. s = Away(d, config, now)
    BY <1>1, <1>4, <1>5, <1>10 DEF fresh, near
  <2>2. /\ s.det \in Detector /\ s.state \in State /\ s.fired \in BOOLEAN
        /\ s.det.lastTick = d.lastTick
        /\ s.fired <=> now - OrNow(d.farSince, now) >= config.duration * 1000
        /\ s.det.armed <=> ~s.fired
        /\ s.det.nearSince = None
        /\ s.det.farSince = IF s.fired THEN None ELSE OrNow(d.farSince, now)
        /\ s.det.armed => ~s.det.fired
    BY <1>3, <1>10, <1>11, <2>1, AwayIs
  <2>3. Good
    BY <1>1, <1>5, <1>10, <2>2
  <2> QED BY <2>3 DEF usable, fresh, near, away, Does
<1> QED BY <1>6, <1>7, <1>8, <1>9, <1>10 DEF Does

\* A countdown began, if at all, at the first call of the longest run to call n, A; B are the
\* runs to the call after it.
Counts(n, at, A, B, over, since) ==
    /\ n \in Nat /\ at \in [1 .. n + 1 -> Nat] /\ over \in BOOLEAN /\ since \in Time
    /\ A \subseteq 1 .. n /\ B \subseteq 1 .. n + 1
    /\ n + 1 \in B /\ \A i \in 1 .. n : i \in B <=> i \in A /\ ~over
    /\ ~over => n # 0 /\ at[n] <= at[n + 1]
    /\ since = None <=> A = {}
    /\ since # None => /\ since <= at[n]
                       /\ \E i \in A : since = at[i]
                       /\ \A i \in A : since <= at[i]

\* The same is true after the call after it.
LEMMA CountdownGrows ==
    ASSUME NEW n, NEW at, NEW A, NEW B, NEW over, NEW since, Counts(n, at, A, B, over, since)
    PROVE  LET next == OrNow(IF over THEN None ELSE since, at[n + 1])
           IN  /\ next \in Nat /\ next <= at[n + 1]
               /\ \E i \in B : next = at[i]
               /\ \A i \in B : next <= at[i]
               /\ \A hold \in Int : at[n + 1] - next >= hold <=> \E i \in B : at[n + 1] - at[i] >= hold
<1> USE DEF Counts
<1> DEFINE next == OrNow(IF over THEN None ELSE since, at[n + 1])
<1>1. /\ at[n + 1] \in Nat /\ \A i \in B : at[i] \in Nat
      /\ \A i \in B : i \in 1 .. n \/ i = n + 1
  OBVIOUS
<1>2. /\ next \in Nat /\ next <= at[n + 1]
      /\ \E i \in B : next = at[i]
      /\ \A i \in B : next <= at[i]
  <2>1. CASE over \/ since = None
    <3>1. next = at[n + 1] /\ \A i \in B : i = n + 1
      BY <1>1, <2>1 DEF OrNow
    <3> QED BY <1>1, <3>1
  <2>2. CASE ~over /\ since # None
    <3>1. next = since /\ since \in Nat /\ n \in 1 .. n + 1
      BY <2>2 DEF OrNow, Time
    <3>2. at[n] \in Nat /\ at[n] <= at[n + 1] /\ since <= at[n]
      BY <2>2, <3>1
    <3> QED BY <1>1, <2>2, <3>1, <3>2
  <2> QED BY <2>1, <2>2
<1> HIDE DEF next
<1>3. ASSUME NEW hold \in Int
      PROVE  at[n + 1] - next >= hold <=> \E i \in B : at[n + 1] - at[i] >= hold
  BY <1>1, <1>2
<1> QED BY <1>2, <1>3 DEF next

Policy == NoFalseDeparture /\ DepartureIsSeen

LEMMA ArmedIsValid == ASSUME NEW n \in Nat, ArmedAt(n) PROVE Valid(config)
<1>1. PICK m \in 1 .. n : NearAt(m)
  BY DEF ArmedAt
<1>2. PICK i \in 1 .. m : \A k \in i .. m : IsNear(k)
  BY <1>1 DEF NearAt
<1> QED BY <1>2 DEF IsNear, Seen

LEMMA CallKeeps ==
    ASSUME IInv, NEW input \in Inputs, Call(input)
    PROVE  IInv' /\ Policy'
<1>1. PICK n \in Nat, now \in Nat, r \in Sample \cup {None}, healthy \in BOOLEAN, d \in Detector :
         \E s : Calls(n, now, r, healthy, d, s) /\ d = Begin(det, config, now, healthy)
  BY CallIs
<1>2. PICK s : Calls(n, now, r, healthy, d, s) /\ d = Begin(det, config, now, healthy)
  BY <1>1
<1> DEFINE usable == healthy /\ Valid(config)
           fresh  == usable /\ IsFresh(r, now)
           near   == fresh /\ r.rssi >= ReturnBoundary(config)
           away   == fresh /\ r.rssi <= AwayBoundary(config)
           nearFrom == OrNow(d.nearSince, now)
           farFrom  == OrNow(d.farSince, now)
           e == EntryOf(now, r, healthy, s)
<1>3. /\ s.det \in Detector /\ s.state \in State /\ s.fired \in BOOLEAN
      /\ s.det.lastTick = now /\ (s.det.armed => ~s.det.fired)
      /\ s.fired <=> \/ usable /\ ~fresh /\ Lost(d, config, now, r)
                     \/ away /\ d.armed /\ now - farFrom >= config.duration * 1000
      /\ s.det.armed <=> /\ usable /\ ~s.fired
                         /\ d.armed \/ (near /\ now - nearFrom >= NearHold)
      /\ s.det.nearSince = IF near THEN nearFrom ELSE None
      /\ s.det.farSince = IF away /\ d.armed /\ ~s.fired THEN farFrom ELSE None
  <2>1. Does(now, r, healthy, d, s) BY <1>2, CallDoes
  <2> QED BY <2>1 DEF Does
<1>4. e \in Entry
  BY <1>3 DEF EntryOf, Entry
<1>5. /\ n = Last /\ trace \in Seq(Entry) /\ trace' = Append(trace, e)
      /\ config' = config /\ config \in Configs /\ last' = r /\ det' = s.det
  BY <1>2 DEF Calls, IInv, TypeInv
<1>6. /\ e.at = now /\ e.fired = s.fired /\ e.healthy = healthy
  BY DEF EntryOf
<1>7. /\ IsNear(n + 1)' <=> near
      /\ IsAway(n + 1)' <=> away
      /\ IsLost(n + 1)' <=> /\ usable /\ ~fresh /\ config.loss # None /\ r # None
                            /\ now - r.at >= config.loss * 1000
      /\ StartsOver(n + 1)' <=> n = 0 \/ ~(now - trace[n].at \in 0 .. Stale) \/ ~trace[n].healthy
  BY <1>2, <1>4, EntryShows
<1>8. LET kept == healthy /\ Valid(config) /\ ~StartsOver(n + 1)'
      IN  /\ d.armed <=> kept /\ det.armed
          /\ d.nearSince = IF kept THEN det.nearSince ELSE None
          /\ d.farSince = IF kept THEN det.farSince ELSE None
  BY <1>2, <1>4, BeginKeeps
<1> HIDE DEF e
<1>9. /\ Last' = n + 1 /\ trace'[n + 1] = e /\ trace' \in Seq(Entry)
      /\ \A i \in 1 .. n : trace'[i] = trace[i] /\ trace[i] \in Entry
  <2>1. \A i \in 1 .. n : trace[i] \in Entry
    BY <1>5 DEF Last
  <2> QED BY <1>4, <1>5, <2>1, TraceGrows
<1>10. TypeInv'
  <2>1. s.det.lastTick = IF n + 1 = 0 THEN None ELSE e.at
    BY <1>3, <1>6
  <2> QED BY <1>3, <1>5, <1>9, <2>1 DEF TypeInv
<1>11. /\ (near => fresh) /\ (away => fresh) /\ (fresh => usable) /\ (usable => healthy)
       /\ near => ~away
  BY <1>5, CallsAssumption DEF IsFresh, Valid, Sample, ReturnBoundary, AwayBoundary
<1>12. d.armed <=> healthy /\ ArmedBy(n + 1)'
  <2>1. ArmedBy(n + 1)' <=> ArmedAt(n) /\ ~StartsOver(n + 1)'
    BY <1>4, <1>5, ArmedByGrows
  <2>2. det.armed <=> ArmedAt(n)
    BY <1>5 DEF IInv, ArmedInv
  <2> QED BY <1>8, <2>1, <2>2, ArmedIsValid
<1>13. Lost(d, config, now, r) /\ usable /\ ~fresh <=> d.armed /\ IsLost(n + 1)'
  <2>1. usable /\ config.loss # None /\ r # None /\ now - r.at >= config.loss * 1000 => r.at <= now
    <3>1. usable /\ config.loss # None => config.loss \in Nat
      BY DEF Valid
    <3>2. r # None => r.at \in Nat
      BY DEF Sample
    <3> QED BY <3>1, <3>2
  <2> QED BY <1>7, <2>1 DEF Lost
<1>17. PICK over \in BOOLEAN : over <=> StartsOver(n + 1)'
  <2>1. TRUE \in BOOLEAN /\ FALSE \in BOOLEAN
    OBVIOUS
  <2> QED BY <2>1
<1> DEFINE at == [i \in 1 .. n + 1 |-> trace'[i].at]
<1>14. /\ at \in [1 .. n + 1 -> Nat] /\ at[n + 1] = now
       /\ \A i \in 1 .. n + 1 : trace'[i].at = at[i]
       /\ \A i \in 1 .. n : trace[i].at = at[i]
       /\ n # 0 => det.lastTick = at[n]
       /\ ~over => n # 0 /\ at[n] <= at[n + 1]
  <2>1. \A i \in 1 .. n + 1 : trace'[i] \in Entry /\ trace'[i].at \in Nat
    BY <1>5, <1>9 DEF Last, Entry
  <2>2. /\ n + 1 \in 1 .. n + 1 /\ \A i \in 1 .. n : i \in 1 .. n + 1
        /\ n # 0 => n \in 1 .. n
    OBVIOUS
  <2>3. n # 0 => det.lastTick = trace[n].at
    BY <1>5 DEF IInv, TypeInv
  <2>4. /\ at \in [1 .. n + 1 -> Nat] /\ at[n + 1] = now
        /\ \A i \in 1 .. n + 1 : trace'[i].at = at[i]
        /\ \A i \in 1 .. n : trace[i].at = at[i]
    BY <1>6, <1>9, <2>1, <2>2
  <2>5. ~over => n # 0 /\ 0 <= now - trace[n].at
    <3>1. Stale \in Nat
      BY DEF Stale
    <3> QED BY <1>7, <1>17, <3>1
  <2>6. n # 0 => trace[n].at = at[n] /\ at[n] \in Nat
    BY <2>2, <2>4
  <2>7. ~over => n # 0 /\ at[n] <= at[n + 1]
    BY <2>4, <2>5, <2>6
  <2> QED BY <2>3, <2>4, <2>6, <2>7
<1> HIDE DEF at
<1>15. near => /\ nearFrom \in Nat /\ nearFrom <= now
               /\ \E i \in 1 .. n + 1 : NearRun(i, n + 1)' /\ nearFrom = at[i]
               /\ \A i \in 1 .. n + 1 : NearRun(i, n + 1)' => nearFrom <= at[i]
               /\ now - nearFrom >= NearHold <=> NearAt(n + 1)'
  <2> SUFFICES ASSUME near
               PROVE  /\ nearFrom \in Nat /\ nearFrom <= now
                      /\ \E i \in 1 .. n + 1 : NearRun(i, n + 1)' /\ nearFrom = at[i]
                      /\ \A i \in 1 .. n + 1 : NearRun(i, n + 1)' => nearFrom <= at[i]
                      /\ now - nearFrom >= NearHold <=> NearAt(n + 1)'
    OBVIOUS
  <2> DEFINE A == {i \in 1 .. n : NearRun(i, n)}
             B == {i \in 1 .. n + 1 : NearRun(i, n + 1)'}
             since == det.nearSince
             next == OrNow(IF over THEN None ELSE since, at[n + 1])
  <2>1. near /\ IsNear(n + 1)'
    BY <1>7
  <2>2. n + 1 \in B /\ \A i \in 1 .. n : i \in B <=> i \in A /\ ~over
    <3>1. n + 1 \in 1 .. n + 1 /\ \A i \in 1 .. n : i \in 1 .. n + 1
      OBVIOUS
    <3>2. /\ \A i \in 1 .. n : NearRun(i, n + 1)' <=> NearRun(i, n) /\ ~over /\ IsNear(n + 1)'
          /\ NearRun(n + 1, n + 1)' <=> IsNear(n + 1)'
      BY <1>4, <1>5, <1>17, RunsGrow
    <3> QED BY <2>1, <3>1, <3>2
  <2>3. /\ since = None <=> A = {}
        /\ since # None => /\ since <= at[n]
                           /\ \E i \in A : since = at[i]
                           /\ \A i \in A : since <= at[i]
    <3>1. NearInv
      BY DEF IInv
    <3>2. since # None => n # 0 /\ since <= at[n]
      BY <1>5, <1>14, <3>1 DEF NearInv
    <3>3. since # None => /\ \E i \in A : since = at[i]
                          /\ \A i \in A : since <= at[i]
      BY <1>5, <1>14, <3>1 DEF NearInv
    <3>4. ASSUME NEW i \in A PROVE since # None
      <4>1. n \in i .. n /\ n > 0
        OBVIOUS
      <4>2. IsNear(n)
        BY <4>1 DEF NearRun
      <4> QED BY <1>5, <3>1, <4>1, <4>2 DEF NearInv
    <3> QED BY <3>2, <3>3, <3>4
  <2>4. nearFrom = next
    BY <1>8, <1>11, <1>14, <1>17, <2>1
  <2>5. since \in Time
    BY DEF IInv, TypeInv, Detector
  <2>6. A \in SUBSET (1 .. n) /\ B \in SUBSET (1 .. n + 1)
    OBVIOUS
  <2> HIDE DEF A, B, since
  <2>7. /\ next \in Nat /\ next <= at[n + 1]
        /\ \E i \in B : next = at[i]
        /\ \A i \in B : next <= at[i]
        /\ \A hold \in Int : at[n + 1] - next >= hold <=> \E i \in B : at[n + 1] - at[i] >= hold
    <3>1. at \in [1 .. n + 1 -> Nat]
      BY <1>14
    <3>2. ~over => n # 0 /\ at[n] <= at[n + 1]
      BY <1>14
    <3>3. Counts(n, at, A, B, over, since)
      BY <2>2, <2>3, <2>5, <2>6, <3>1, <3>2 DEF Counts
    <3> QED BY <3>3, CountdownGrows
  <2> HIDE DEF next, near, nearFrom
  <2>8. NearAt(n + 1)' <=> \E i \in B : at[n + 1] - at[i] >= NearHold
    <3>1. n + 1 \in 1 .. n + 1
      OBVIOUS
    <3> QED BY <1>14, <3>1 DEF NearAt, NearRun, B
  <2>9. NearHold \in Int
    BY DEF NearHold
  <2>10. nearFrom \in Nat /\ nearFrom <= now
    BY <1>14, <2>4, <2>7
  <2>11. now - nearFrom >= NearHold <=> NearAt(n + 1)'
    <3>1. at[n + 1] - next >= NearHold <=> \E i \in B : at[n + 1] - at[i] >= NearHold
      BY <2>7, <2>9
    <3> QED BY <1>14, <2>4, <2>8, <3>1, Zenon
  <2>12. /\ \E i \in 1 .. n + 1 : NearRun(i, n + 1)' /\ nearFrom = at[i]
         /\ \A i \in 1 .. n + 1 : NearRun(i, n + 1)' => nearFrom <= at[i]
    BY <2>4, <2>7, Zenon DEF B
  <2> QED BY <2>10, <2>11, <2>12, Zenon
<1>16. away /\ d.armed => /\ farFrom \in Nat /\ farFrom <= now
                          /\ \E i \in 1 .. n + 1 : AwayRun(i, n + 1)' /\ farFrom = at[i]
                          /\ \A i \in 1 .. n + 1 : AwayRun(i, n + 1)' => farFrom <= at[i]
                          /\ now - farFrom >= config.duration * 1000 <=> Departs(n + 1)'
  <2> SUFFICES ASSUME away, d.armed
               PROVE  /\ farFrom \in Nat /\ farFrom <= now
                      /\ \E i \in 1 .. n + 1 : AwayRun(i, n + 1)' /\ farFrom = at[i]
                      /\ \A i \in 1 .. n + 1 : AwayRun(i, n + 1)' => farFrom <= at[i]
                      /\ now - farFrom >= config.duration * 1000 <=> Departs(n + 1)'
    OBVIOUS
  <2> DEFINE A == {i \in 1 .. n : AwayRun(i, n)}
             B == {i \in 1 .. n + 1 : AwayRun(i, n + 1)'}
             since == det.farSince
             next == OrNow(IF over THEN None ELSE since, at[n + 1])
  <2>1. /\ away /\ IsAway(n + 1)' /\ d.armed
        /\ ~over /\ det.armed
    BY <1>7, <1>8, <1>17
  <2>2. n + 1 \in B /\ \A i \in 1 .. n : i \in B <=> i \in A /\ ~over
    <3>1. n + 1 \in 1 .. n + 1 /\ \A i \in 1 .. n : i \in 1 .. n + 1
      OBVIOUS
    <3>2. /\ \A i \in 1 .. n : AwayRun(i, n + 1)' <=> AwayRun(i, n) /\ ~over /\ IsAway(n + 1)'
          /\ AwayRun(n + 1, n + 1)' <=> IsAway(n + 1)'
      BY <1>4, <1>5, <1>17, RunsGrow
    <3> QED BY <2>1, <3>1, <3>2
  <2>3. /\ since = None <=> A = {}
        /\ since # None => /\ since <= at[n]
                           /\ \E i \in A : since = at[i]
                           /\ \A i \in A : since <= at[i]
    <3>1. FarInv
      BY DEF IInv
    <3>2. since # None => n # 0 /\ since <= at[n]
      BY <1>5, <1>14, <3>1 DEF FarInv
    <3>3. since # None => /\ \E i \in A : since = at[i]
                          /\ \A i \in A : since <= at[i]
      BY <1>5, <1>14, <3>1 DEF FarInv
    <3>4. ASSUME NEW i \in A PROVE since # None
      <4>1. n \in i .. n /\ n > 0
        OBVIOUS
      <4>2. IsAway(n)
        BY <4>1 DEF AwayRun
      <4> QED BY <1>5, <2>1, <3>1, <4>1, <4>2 DEF FarInv
    <3> QED BY <3>2, <3>3, <3>4
  <2>4. farFrom = next
    BY <1>8, <1>11, <1>14, <1>17, <2>1
  <2>5. since \in Time
    BY DEF IInv, TypeInv, Detector
  <2>6. A \in SUBSET (1 .. n) /\ B \in SUBSET (1 .. n + 1)
    OBVIOUS
  <2> HIDE DEF A, B, since
  <2>7. /\ next \in Nat /\ next <= at[n + 1]
        /\ \E i \in B : next = at[i]
        /\ \A i \in B : next <= at[i]
        /\ \A hold \in Int : at[n + 1] - next >= hold <=> \E i \in B : at[n + 1] - at[i] >= hold
    <3>1. at \in [1 .. n + 1 -> Nat]
      BY <1>14
    <3>2. ~over => n # 0 /\ at[n] <= at[n + 1]
      BY <1>14
    <3>3. Counts(n, at, A, B, over, since)
      BY <2>2, <2>3, <2>5, <2>6, <3>1, <3>2 DEF Counts
    <3> QED BY <3>3, CountdownGrows
  <2> HIDE DEF next, away, farFrom
  <2>8. Departs(n + 1)' <=> \E i \in B : at[n + 1] - at[i] >= config.duration * 1000
    <3>1. n + 1 \in 1 .. n + 1
      OBVIOUS
    <3>2. config' = config
      BY <1>5
    <3>3. Departs(n + 1)' <=> \E i \in 1 .. n + 1 :
             AwayRun(i, n + 1)' /\ trace'[n + 1].at - trace'[i].at >= config.duration * 1000
      BY <3>2 DEF Departs, AwayRun
    <3> QED BY <1>14, <3>1, <3>3 DEF B
  <2>9. config.duration * 1000 \in Int
    BY <1>5, CallsAssumption
  <2>10. farFrom \in Nat /\ farFrom <= now
    BY <1>14, <2>4, <2>7
  <2>11. now - farFrom >= config.duration * 1000 <=> Departs(n + 1)'
    <3>1. at[n + 1] - next >= config.duration * 1000 <=> \E i \in B : at[n + 1] - at[i] >= config.duration * 1000
      BY <2>7, <2>9
    <3> QED BY <1>14, <2>4, <2>8, <3>1
  <2>12. /\ \E i \in 1 .. n + 1 : AwayRun(i, n + 1)' /\ farFrom = at[i]
         /\ \A i \in 1 .. n + 1 : AwayRun(i, n + 1)' => farFrom <= at[i]
    BY <2>4, <2>7, Zenon DEF B
  <2> QED BY <2>10, <2>11, <2>12, Zenon
<1>18. ArmedInv'
  <2>1. ArmedAt(n + 1)' <=> (ArmedBy(n + 1)' \/ NearAt(n + 1)') /\ ~s.fired /\ healthy
    BY <1>4, <1>5, <1>6, ArmedByGrows
  <2>2. NearAt(n + 1)' => near
    <3>1. NearAt(n + 1)' => IsNear(n + 1)'
      BY DEF NearAt
    <3> QED BY <1>7, <3>1
  <2>3. s.det.armed <=> ArmedAt(n + 1)'
    BY <1>3, <1>8, <1>11, <1>12, <1>15, <2>1, <2>2
  <2> QED BY <1>3, <1>5, <1>9, <2>3 DEF ArmedInv
<1>19. NearInv'
  <2>1. det'.nearSince = (IF near THEN nearFrom ELSE None) /\ det'.lastTick = now
    BY <1>3, <1>5
  <2> HIDE DEF near, nearFrom
  <2>2. \A i \in 1 .. n + 1 : trace'[i].at = at[i]
    BY <1>14
  <2>3. n + 1 > 0 /\ None \notin Nat
    BY CallsAssumption
  <2> QED BY <1>7, <1>9, <1>15, <2>1, <2>2, <2>3 DEF NearInv
<1>20. FarInv'
  <2>1. /\ det'.farSince = (IF away /\ d.armed /\ ~s.fired THEN farFrom ELSE None) /\ det'.lastTick = now
        /\ det'.nearSince = IF near THEN nearFrom ELSE None
        /\ det'.armed => ~s.fired /\ (d.armed \/ near)
        /\ away /\ d.armed /\ ~s.fired => det'.armed
    BY <1>3, <1>5, <1>11
  <2> HIDE DEF near, nearFrom, away, farFrom
  <2>2. \A i \in 1 .. n + 1 : trace'[i].at = at[i]
    BY <1>14
  <2>3. None \notin Nat
    BY CallsAssumption
  <2>4. det'.armed /\ IsAway(n + 1)' => det'.farSince # None
    BY <1>7, <1>11, <1>16, <2>1, <2>3
  <2>5. ASSUME det'.farSince # None
        PROVE  /\ det'.armed /\ det'.nearSince = None
               /\ det'.farSince <= det'.lastTick
               /\ \E i \in 1 .. n + 1 : AwayRun(i, n + 1)' /\ det'.farSince = trace'[i].at
               /\ \A i \in 1 .. n + 1 : AwayRun(i, n + 1)' => det'.farSince <= trace'[i].at
    <3>1. away /\ d.armed /\ ~s.fired /\ det'.farSince = farFrom
      BY <2>1, <2>5
    <3>2. det'.armed /\ det'.nearSince = None
      BY <1>11, <2>1, <3>1
    <3>3. /\ farFrom <= now
          /\ \E i \in 1 .. n + 1 : AwayRun(i, n + 1)' /\ farFrom = at[i]
          /\ \A i \in 1 .. n + 1 : AwayRun(i, n + 1)' => farFrom <= at[i]
      BY <1>16, <3>1
    <3>4. det'.lastTick = now
      BY <2>1
    <3> QED BY <2>2, <3>1, <3>2, <3>3, <3>4
  <2>6. Last' = n + 1
    BY <1>9
  <2> QED BY <2>4, <2>5, <2>6 DEF FarInv
<1>21. Policy'
  <2>1. Departs(n + 1)' => away
    <3>1. Departs(n + 1)' => IsAway(n + 1)'
      BY DEF Departs
    <3> QED BY <1>7, <3>1
  <2>2. s.fired <=> ArmedBy(n + 1)' /\ (Departs(n + 1)' \/ IsLost(n + 1)')
    BY <1>3, <1>7, <1>11, <1>12, <1>13, <1>16, <2>1
  <2>3. trace'[n + 1].fired = s.fired
    BY <1>6, <1>9
  <2> QED BY <1>9, <2>2, <2>3 DEF Policy, NoFalseDeparture, DepartureIsSeen
<1> QED BY <1>10, <1>18, <1>19, <1>20, <1>21 DEF IInv

-----------------------------------------------------------------------------
LEMMA InitOk == Init => IInv /\ Policy
<1> SUFFICES ASSUME Init PROVE IInv /\ Policy
  OBVIOUS
<1>1. Last = 0 /\ trace \in Seq(Entry)
  BY DEF Init, Last
<1>2. det \in Detector /\ ~det.armed /\ det.nearSince = None /\ det.farSince = None /\ det.lastTick = None
  BY DEF Init, Fresh, Detector, Time
<1>3. TypeInv
  BY <1>1, <1>2 DEF TypeInv, Init
<1>4. ArmedInv
  BY <1>1, <1>2 DEF ArmedInv, ArmedAt
<1>5. NearInv /\ FarInv
  BY <1>1, <1>2 DEF NearInv, FarInv
<1> QED BY <1>1, <1>3, <1>4, <1>5 DEF IInv, Policy, NoFalseDeparture, DepartureIsSeen

LEMMA StutterOk == IInv /\ Policy /\ UNCHANGED vars => IInv' /\ Policy'
<1> SUFFICES ASSUME IInv, Policy, UNCHANGED vars PROVE IInv' /\ Policy'
  OBVIOUS
<1> USE DEF vars, Last
<1>1. TypeInv'
  BY DEF IInv, TypeInv
<1>2. ArmedInv'
  BY DEF IInv, ArmedInv, ArmedAt, NearAt, OneSession, StartsOver, IsNear, Seen
<1>3. NearInv'
  BY DEF IInv, NearInv, NearRun, OneSession, StartsOver, IsNear, Seen
<1>4. FarInv'
  BY DEF IInv, FarInv, AwayRun, OneSession, StartsOver, IsAway, Seen
<1>5. Policy'
  BY DEF Policy, NoFalseDeparture, DepartureIsSeen, ArmedBy, Departs, IsLost, NearAt, OneSession, StartsOver, IsNear, IsAway, Seen
<1> QED BY <1>1, <1>2, <1>3, <1>4, <1>5 DEF IInv

\* What the detector remembers is what the trace shows, and it fires exactly when the policy
\* says so: the invariant the others follow from.
THEOREM Invariance == Spec => [](IInv /\ Policy)
<1>1. Init => IInv /\ Policy
  BY InitOk
<1>2. IInv /\ Policy /\ [Next]_vars => IInv' /\ Policy'
  BY CallKeeps, StutterOk DEF Next
<1> QED BY <1>1, <1>2, PTL DEF Spec

\* The countdowns never lie in the future of the last call, and only an armed detector that
\* does not count to near counts to departure.
THEOREM DetectorTypeOK == Spec => []TypeOK
<1>1. IInv => TypeOK
  BY CallsAssumption DEF IInv, TypeInv, ArmedInv, NearInv, FarInv, TypeOK, Detector, Time
<1> QED BY <1>1, Invariance, PTL

\* A departure is only reported after the device was near and then away without a break or,
\* by opt-in, silent: for every calibration and every sequence of calls.
THEOREM DeparturesAreTrue == Spec => []NoFalseDeparture
<1>1. Policy => NoFalseDeparture
  BY DEF Policy
<1> QED BY <1>1, Invariance, PTL

\* A departure is reported at the first call that can tell it.
THEOREM DeparturesAreSeen == Spec => []DepartureIsSeen
<1>1. Policy => DepartureIsSeen
  BY DEF Policy
<1> QED BY <1>1, Invariance, PTL
=============================================================================
