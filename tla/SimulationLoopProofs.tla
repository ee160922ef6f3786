------------------------- MODULE SimulationLoopProofs -------------------------
(***************************************************************************)
(* The properties of the two schedules, for every pair of periods and      *)
(* every lateness.  The inductive invariant relates each deadline to the   *)
(* readings of the clock and to the number of frames or ticks: a deadline  *)
(* never lies before the count of periods it stands for, and is ahead of   *)
(* the reading before the last by more than a period.                      *)
(***************************************************************************)
EXTENDS SimulationLoop, TLAPS

\* The loop's deadline.
TickInv ==
    /\ previous =< next_tick
    /\ ticks * TickPeriod =< next_tick
    /\ (ticks - 1) * TickPeriod =< previous
    /\ \A a \in ante : a + TickPeriod =< next_tick

\* Before the first tick nothing is scheduled; after it everything is set.
StartInv ==
    /\ ticks = 0 => /\ origin = {} /\ next_publication = {} /\ published = {}
                    /\ antePublished = {} /\ ante = {}
                    /\ publications = 0 /\ longest = 0
    /\ ticks > 0 => origin # {} /\ next_publication # {} /\ published # {}

\* The deadline of the publication.
PublicationInv ==
    \A n \in next_publication :
        /\ previous < n
        /\ \A p \in published : p =< previous /\ n =< p + TelemetryPeriod
        /\ \A a \in antePublished : a + TelemetryPeriod < n
        /\ \A o \in origin :
              /\ o =< previous
              /\ o + publications * TelemetryPeriod =< n
              /\ (publications - 1) * TelemetryPeriod =< previous - o
              /\ longest =< TelemetryPeriod =>
                    n = o + publications * TelemetryPeriod

IInv == TypeOK /\ TickInv /\ StartInv /\ PublicationInv

-----------------------------------------------------------------------------
\* One more period.
LEMMA Successor ==
  ASSUME NEW n \in Int, NEW P \in Nat
  PROVE  /\ (n + 1) * P = n * P + P
         /\ (n - 1) * P = n * P - P
         /\ ((n + 1) - 1) * P = n * P
  BY SMT

LEMMA InitInv == Init => IInv
  BY ScheduleAssumption
  DEF Init, IInv, TypeOK, isOptional, TickInv, StartInv, PublicationInv

\* What a tick at the instant now does to the loop's deadline.
LEMMA TickSchedule ==
  ASSUME IInv, NEW now \in Nat, now >= earliest,
         next_tick' = nextTick(next_tick, now), previous' = now,
         ticks' = ticks + 1, ante' = IF ticks = 0 THEN {} ELSE {previous}
  PROVE  /\ TickInv'
         /\ next_tick' \in Nat
         /\ \A a \in ante : now - a >= TickPeriod
<1>1. /\ TickPeriod \in Nat \ {0} /\ ticks \in Nat /\ next_tick \in Nat
      /\ previous \in Nat /\ ante \subseteq Nat
  BY ScheduleAssumption DEF IInv, TypeOK, isOptional
<1>2. now >= next_tick /\ now >= previous
  BY <1>1 DEF earliest
<1>3. /\ next_tick' \in Nat
      /\ next_tick' >= now /\ next_tick' >= next_tick + TickPeriod
  BY <1>1, <1>2 DEF nextTick
<1> DEFINE m == ticks * TickPeriod
<1>4. m \in Nat /\ m =< next_tick
  BY <1>1 DEF IInv, TickInv
<1>5. /\ ticks' * TickPeriod = m + TickPeriod
      /\ (ticks' - 1) * TickPeriod = m
  BY <1>1, Successor
<1> HIDE DEF m
<1>6. /\ ticks' * TickPeriod =< next_tick'
      /\ (ticks' - 1) * TickPeriod =< previous'
  BY <1>1, <1>2, <1>3, <1>4, <1>5
<1>7. \A a \in ante' : a + TickPeriod =< next_tick'
  BY <1>1, <1>3 DEF IInv, TickInv
<1>8. \A a \in ante : now - a >= TickPeriod
  BY <1>1, <1>2 DEF IInv, TickInv
<1> QED BY <1>3, <1>6, <1>7, <1>8 DEF TickInv

-----------------------------------------------------------------------------
\* The instants of a state with an armed schedule.
LEMMA Armed ==
  ASSUME IInv, NEW now \in Nat, NEW n \in due(now)
  PROVE  /\ n \in Nat
         /\ due(now) = {n}
         /\ ticks = 0 => n = now
         /\ ticks > 0 => next_publication = {n}
  BY DEF IInv, TypeOK, isOptional, StartInv, due

\* A tick that publishes.
LEMMA PublishingTick ==
  ASSUME IInv, NEW now \in Nat, now >= previous, NEW n \in due(now),
         isDue(n, now),
         next_publication' = {reschedule(n, now)},
         publications' = publications + 1, published' = {now},
         antePublished' = published, previous' = now, ticks' = ticks + 1,
         origin' = IF ticks = 0 THEN {now} ELSE origin,
         longest' = IF ticks > 0 /\ now - previous > longest
                    THEN now - previous ELSE longest
  PROVE  /\ PublicationInv' /\ reschedule(n, now) \in Nat
         /\ \A a \in antePublished : now - a > TelemetryPeriod
<1>1. /\ TelemetryPeriod \in Nat \ {0} /\ ticks \in Nat /\ previous \in Nat
      /\ publications \in Nat /\ longest \in Nat
      /\ published \subseteq Nat /\ antePublished \subseteq Nat
      /\ origin \subseteq Nat
  BY ScheduleAssumption DEF IInv, TypeOK, isOptional
<1>2. /\ n \in Nat /\ (ticks = 0 => n = now)
      /\ ticks > 0 => next_publication = {n}
  BY Armed
<1> DEFINE r == reschedule(n, now)
           m == publications * TelemetryPeriod
<1>3. n =< now
  BY <1>1, <1>2 DEF isDue
<1>4. /\ r \in Nat /\ r > now /\ r =< now + TelemetryPeriod
      /\ r >= n + TelemetryPeriod
      /\ now < n + TelemetryPeriod => r = n + TelemetryPeriod
  BY <1>1, <1>2, <1>3 DEF reschedule
<1>5. /\ m \in Int
      /\ publications' * TelemetryPeriod = m + TelemetryPeriod
      /\ (publications' - 1) * TelemetryPeriod = m
  BY <1>1, Successor
<1>6. \A a \in antePublished : now - a > TelemetryPeriod
  <2>1. CASE ticks = 0
    BY <2>1 DEF IInv, StartInv
  <2>2. CASE ticks > 0
    BY <1>1, <1>2, <1>3, <2>2 DEF IInv, PublicationInv
  <2> QED BY <1>1, <2>1, <2>2
<1>7. \A a \in antePublished' : a + TelemetryPeriod < r
  <2>1. CASE ticks = 0
    BY <2>1 DEF IInv, StartInv
  <2>2. CASE ticks > 0
    <3>1. \A p \in published : p < n
      BY <1>1, <1>2, <2>2 DEF IInv, PublicationInv
    <3> QED BY <1>1, <1>2, <1>4, <3>1
  <2> QED BY <1>1, <2>1, <2>2
<1>8. \A o \in origin' :
         /\ o =< now
         /\ o + m =< n
         /\ longest' =< TelemetryPeriod => r = o + m + TelemetryPeriod
  <2>1. CASE ticks = 0
    <3>1. publications = 0 /\ origin' = {now} /\ n = now
      BY <1>2, <2>1 DEF IInv, StartInv
    <3>2. m = 0
      BY <1>1, <3>1
    <3> QED BY <1>1, <1>4, <3>1, <3>2
  <2>2. CASE ticks > 0
    <3> SUFFICES ASSUME NEW o \in origin
                 PROVE  /\ o =< now
                        /\ o + m =< n
                        /\ longest' =< TelemetryPeriod =>
                              r = o + m + TelemetryPeriod
      BY <2>2
    <3>1. /\ o =< previous /\ o + m =< n /\ previous < n
          /\ longest =< TelemetryPeriod => n = o + m
      BY <1>2, <2>2 DEF IInv, PublicationInv
    <3>2. ASSUME longest' =< TelemetryPeriod
          PROVE  longest =< TelemetryPeriod /\ now < n + TelemetryPeriod
      BY <1>1, <1>2, <2>2, <3>1, <3>2
    <3> QED BY <1>1, <1>2, <1>4, <1>5, <3>1, <3>2
  <2> QED BY <1>1, <2>1, <2>2
<1>9. PublicationInv'
  <2> HIDE DEF r, m
  <2>1. next_publication' = {r}
    BY DEF r
  <2>2. \A o \in origin' : o \in Nat
    BY <1>1
  <2> QED BY <1>1, <1>2, <1>3, <1>4, <1>5, <1>7, <1>8, <2>1, <2>2
          DEF PublicationInv
<1> QED BY <1>4, <1>6, <1>9

\* A tick that does not.
LEMMA SilentTick ==
  ASSUME IInv, NEW now \in Nat, now >= previous, NEW n \in due(now),
         ~isDue(n, now),
         next_publication' = {n},
         publications' = publications, published' = published,
         antePublished' = antePublished, previous' = now, ticks' = ticks + 1,
         origin' = IF ticks = 0 THEN {now} ELSE origin,
         longest' = IF ticks > 0 /\ now - previous > longest
                    THEN now - previous ELSE longest
  PROVE  PublicationInv' /\ n \in Nat /\ ticks > 0
<1>1. /\ TelemetryPeriod \in Nat \ {0} /\ ticks \in Nat /\ previous \in Nat
      /\ publications \in Nat /\ longest \in Nat
      /\ published \subseteq Nat /\ antePublished \subseteq Nat
      /\ origin \subseteq Nat
  BY ScheduleAssumption DEF IInv, TypeOK, isOptional
<1>2. /\ n \in Nat /\ (ticks = 0 => n = now)
      /\ ticks > 0 => next_publication = {n}
  BY Armed
<1>3. now < n /\ ticks > 0
  BY <1>1, <1>2 DEF isDue
<1> DEFINE m == publications * TelemetryPeriod
           k == (publications - 1) * TelemetryPeriod
<1>4. m \in Int /\ k \in Int
  BY <1>1
<1>5. \A o \in origin :
         /\ o =< previous /\ o + m =< n /\ k =< previous - o
         /\ longest =< TelemetryPeriod => n = o + m
  BY <1>2, <1>3 DEF IInv, PublicationInv
<1>6. /\ \A p \in published : p =< previous /\ n =< p + TelemetryPeriod
      /\ \A a \in antePublished : a + TelemetryPeriod < n
  BY <1>2, <1>3 DEF IInv, PublicationInv
<1>7. /\ publications' * TelemetryPeriod = m
      /\ (publications' - 1) * TelemetryPeriod = k
  OBVIOUS
<1>8. /\ origin' = origin
      /\ longest' =< TelemetryPeriod => longest =< TelemetryPeriod
  BY <1>1, <1>3
<1> HIDE DEF m, k
<1>9. PublicationInv'
  BY <1>1, <1>2, <1>3, <1>4, <1>5, <1>6, <1>7, <1>8 DEF PublicationInv
<1> QED BY <1>2, <1>3, <1>9

-----------------------------------------------------------------------------
\* A tick keeps the invariant, and comes in no burst.
LEMMA TickInductive ==
  ASSUME IInv, NEW lateness \in Latenesses, Tick(lateness)
  PROVE  /\ IInv'
         /\ \A a \in ante : previous' - a >= TickPeriod
         /\ publications' # publications =>
               \A a \in antePublished : previous' - a > TelemetryPeriod
<1>1. /\ ticks \in Nat /\ next_tick \in Nat /\ previous \in Nat
      /\ publications \in Nat /\ longest \in Nat /\ running \in BOOLEAN
      /\ isOptional(published) /\ isOptional(antePublished)
      /\ isOptional(origin) /\ isOptional(ante)
  BY DEF IInv, TypeOK
<1> DEFINE now == earliest + lateness
<1>2. now \in Nat /\ now >= earliest /\ now >= previous
  BY <1>1, ScheduleAssumption DEF earliest
<1>3. /\ PublishWhenDue(now)
      /\ next_tick' = nextTick(next_tick, now)
      /\ previous' = now
      /\ ante' = IF ticks = 0 THEN {} ELSE {previous}
      /\ origin' = IF ticks = 0 THEN {now} ELSE origin
      /\ longest' = IF ticks > 0 /\ now - previous > longest
                    THEN now - previous
                    ELSE longest
      /\ ticks' = ticks + 1
      /\ running' = running
  BY DEF Tick
<1> HIDE DEF now
<1>4. /\ TickInv' /\ next_tick' \in Nat
      /\ \A a \in ante : now - a >= TickPeriod
  BY <1>2, <1>3, TickSchedule
<1>5. PICK n \in due(now) :
        \/ /\ isDue(n, now)
           /\ next_publication' = {reschedule(n, now)}
           /\ publications' = publications + 1
           /\ published' = {now}
           /\ antePublished' = published
        \/ /\ ~isDue(n, now)
           /\ next_publication' = {n}
           /\ UNCHANGED <<publications, published, antePublished>>
  BY <1>3 DEF PublishWhenDue
<1>6. /\ isOptional(ante') /\ isOptional(origin')
      /\ longest' \in Nat /\ ticks' \in Nat /\ previous' \in Nat
      /\ running' \in BOOLEAN /\ ticks' > 0 /\ ante' \subseteq {previous}
      /\ ticks > 0 => origin # {}
      /\ origin' # {}
  BY <1>1, <1>2, <1>3 DEF isOptional, IInv, StartInv
<1>7. CASE isDue(n, now)
  <2>1. /\ PublicationInv' /\ reschedule(n, now) \in Nat
        /\ \A a \in antePublished : now - a > TelemetryPeriod
    BY <1>2, <1>3, <1>5, <1>7, PublishingTick
  <2>2. TypeOK'
    <3>1. publications' \in Nat
      BY <1>1, <1>5, <1>7
    <3>2. isOptional(next_publication') /\ isOptional(published')
      BY <1>2, <1>5, <1>7, <2>1 DEF isOptional
    <3>3. isOptional(antePublished')
      BY <1>1, <1>5, <1>7
    <3> QED BY <1>4, <1>6, <3>1, <3>2, <3>3 DEF TypeOK
  <2>3. StartInv'
    BY <1>5, <1>6, <1>7 DEF StartInv
  <2> QED BY <1>3, <1>4, <2>1, <2>2, <2>3 DEF IInv
<1>8. CASE ~isDue(n, now)
  <2>1. PublicationInv' /\ n \in Nat /\ ticks > 0
    BY <1>2, <1>3, <1>5, <1>8, SilentTick
  <2>2. TypeOK'
    BY <1>1, <1>4, <1>5, <1>6, <1>8, <2>1 DEF TypeOK, isOptional
  <2>3. StartInv'
    BY <1>5, <1>6, <1>8, <2>1 DEF StartInv, IInv
  <2> QED BY <1>1, <1>3, <1>4, <1>5, <1>8, <2>1, <2>2, <2>3 DEF IInv
<1> QED BY <1>7, <1>8

\* What does not touch the schedules keeps the invariant.
LEMMA StutterInductive ==
  ASSUME IInv, UNCHANGED <<next_tick, previous, next_publication, publications,
                           history>>, running' \in BOOLEAN
  PROVE  IInv'
  BY DEF IInv, TypeOK, isOptional, TickInv, StartInv, PublicationInv, history

LEMMA Inductive == IInv /\ [Next]_vars => IInv'
<1> SUFFICES ASSUME IInv, [Next]_vars PROVE IInv'
  OBVIOUS
<1>1. ASSUME NEW lateness \in Latenesses, Tick(lateness) PROVE IInv'
  BY <1>1, TickInductive
<1>2. CASE handle_signal
  BY <1>2, StutterInductive DEF handle_signal
<1>3. CASE UNCHANGED vars
  BY <1>3, StutterInductive DEF vars, code, IInv, TypeOK
<1> QED BY <1>1, <1>2, <1>3 DEF Next, Finished

LEMMA Invariance == Spec => []IInv
  BY InitInv, Inductive, PTL DEF Spec

-----------------------------------------------------------------------------
\* Instants and counters keep their types, and an optional holds at most one
\* value.
THEOREM TypeCorrect == Spec => []TypeOK
<1>1. IInv => TypeOK
  BY DEF IInv
<1> QED BY <1>1, Invariance, PTL

\* DroneService::step never publishes more than one frame per period on average,
\* whatever the overruns of the loop.
THEOREM RateBound == Spec => []NeverFasterThanItsRate
<1>1. IInv => NeverFasterThanItsRate
  <2> SUFFICES ASSUME IInv, NEW o \in origin
               PROVE  (publications - 1) * TelemetryPeriod =< previous - o
    BY DEF NeverFasterThanItsRate
  <2>1. PICK n \in next_publication : TRUE
    BY DEF IInv, StartInv, TypeOK
  <2> QED BY <2>1 DEF IInv, PublicationInv
<1> QED BY <1>1, Invariance, PTL

\* Absolute scheduling: no frame is ever missing, while two ticks are at most a
\* telemetry period apart.
THEOREM RateIsKept == Spec => []RateDoesNotDrift
<1>1. IInv => RateDoesNotDrift
  <2> SUFFICES ASSUME IInv, NEW o \in origin, longest =< TelemetryPeriod
               PROVE  previous - o < publications * TelemetryPeriod
    BY DEF RateDoesNotDrift
  <2>1. PICK n \in next_publication : TRUE
    BY DEF IInv, StartInv, TypeOK
  <2> DEFINE m == publications * TelemetryPeriod
  <2>2. previous < n /\ n = o + m
    BY <2>1 DEF IInv, PublicationInv
  <2>3. o \in Nat /\ previous \in Nat /\ m \in Int
    BY ScheduleAssumption DEF IInv, TypeOK, isOptional
  <2> HIDE DEF m
  <2>4. previous - o < m
    BY <2>2, <2>3
  <2> QED BY <2>4 DEF m
<1> QED BY <1>1, Invariance, PTL

\* After every tick the last frame is younger than a telemetry period.
THEOREM FramesAreFresh == Spec => []TelemetryIsFresh
<1>1. IInv => TelemetryIsFresh
  <2> SUFFICES ASSUME IInv, origin # {}
               PROVE  \E t \in published : previous - t < TelemetryPeriod
    BY DEF TelemetryIsFresh
  <2>1. PICK n \in next_publication, p \in published : TRUE
    BY DEF IInv, StartInv, TypeOK
  <2>2. previous < n /\ n =< p + TelemetryPeriod
    BY <2>1 DEF IInv, PublicationInv
  <2>3. /\ n \in Nat /\ p \in Nat /\ previous \in Nat
        /\ TelemetryPeriod \in Nat
    BY ScheduleAssumption DEF IInv, TypeOK, isOptional
  <2> QED BY <2>2, <2>3
<1> QED BY <1>1, Invariance, PTL

\* The loop of drone_main never runs more than one tick per period on average.
THEOREM TickBound == Spec => []NeverSpinsFaster
<1>1. IInv => NeverSpinsFaster
  BY DEF IInv, TickInv, NeverSpinsFaster
<1> QED BY <1>1, Invariance, PTL

\* What a step does to the counters.
LEMMA StepIsTick ==
  ASSUME [Next]_vars, ticks' # ticks \/ publications' # publications
  PROVE  \E lateness \in Latenesses : Tick(lateness)
  BY DEF Next, vars, code, history, handle_signal, Finished

\* After an overrun DroneService::step publishes once, not once per missed
\* deadline.
THEOREM NoBurstOfFrames == Spec => NoCatchUpBurst
<1>1. ASSUME IInv, [Next]_vars, publications' # publications
      PROVE  \A t \in antePublished : previous' - t > TelemetryPeriod
  BY <1>1, StepIsTick, TickInductive
<1>2. IInv /\ [Next]_vars =>
        [publications' # publications =>
           \A t \in antePublished : previous' - t > TelemetryPeriod]_vars
  BY <1>1
<1> QED BY <1>2, Invariance, PTL DEF Spec, NoCatchUpBurst

\* After an overrun the loop of drone_main sleeps again, it does not spin.
THEOREM NoBurstOfTicks == Spec => NoCatchUpTicks
<1>1. ASSUME IInv, [Next]_vars, ticks' # ticks
      PROVE  \A t \in ante : previous' - t >= TickPeriod
  BY <1>1, StepIsTick, TickInductive
<1>2. IInv /\ [Next]_vars =>
        [ticks' # ticks =>
           \A t \in ante : previous' - t >= TickPeriod]_vars
  BY <1>1
<1> QED BY <1>2, Invariance, PTL DEF Spec, NoCatchUpTicks
=============================================================================
