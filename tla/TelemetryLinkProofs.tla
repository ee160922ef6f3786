------------------------- MODULE TelemetryLinkProofs -------------------------
(***************************************************************************)
(* Proofs about the ground station and the way of telemetry to it.  The    *)
(* first part is about the station alone, for every operator and every     *)
(* frame that reaches it, and holds wherever the frames come from; the     *)
(* second about the station at the end of a link with bounded gaps and     *)
(* delays, for every period, gap, delay, number of losses and timeout.     *)
(***************************************************************************)
EXTENDS TelemetryLink, SequenceTheorems, FiniteSetTheorems, TLAPS

(***************************************************************************)
(* What an optional age says once it is a set of at most one number.       *)
(***************************************************************************)
LEMMA AgedType ==
  ASSUME NEW o, optionalAge(o), NEW d \in Nat
  PROVE  /\ optionalAge(aged(o, d))
         /\ aged(o, d) = {} <=> o = {}
<1> USE StationAssumption
<1>1. CASE o = {}
  BY <1>1 DEF aged, optionalAge
<1>2. ASSUME NEW t \in 0 .. Forgotten, o = {t}
      PROVE  \E u \in 0 .. Forgotten : aged(o, d) = {u}
  <2> DEFINE u == IF t + d > Forgotten THEN Forgotten ELSE t + d
  <2>1. u \in 0 .. Forgotten
    OBVIOUS
  <2>2. aged(o, d) = {u}
    BY <1>2 DEF aged
  <2> QED BY <2>1, <2>2
<1> QED BY <1>1, <1>2 DEF optionalAge

\* A duration below Forgotten that has passed stays passed, and what is older
\* stays at least as old.
LEMMA AgedKeepsOrder ==
  ASSUME NEW o, optionalAge(o), NEW p, optionalAge(p), NEW d \in Nat,
         NEW limit \in Nat, limit < Forgotten
  PROVE  /\ (\A t \in o : t >= limit) => \A t \in aged(o, d) : t >= limit
         /\ (\A t \in o, u \in p : t >= u) =>
               \A t \in aged(o, d), u \in aged(p, d) : t >= u
  BY StationAssumption DEF aged, optionalAge

LEMMA ClampInFence ==
  ASSUME NEW p \in Vec3
  PROVE  clampToFence(p) \in Vec3 /\ contains(clampToFence(p))
  BY StationAssumption DEF clampToFence, contains, Vec3, clamp

-----------------------------------------------------------------------------
(***************************************************************************)
(* The inductive invariant.  LinkInv: the monitor and the log agree on the *)
(* status, at any point of a tick.  StickInv: what the rate limit knows.   *)
(* A release may follow a transmission at once; but a release follows only *)
(* a deflection, and that one was not early.                               *)
(***************************************************************************)
LinkInv ==
    /\ heard = sinceHeartbeat
    /\ view.connected = connected
    /\ connected <=> log = {TRUE}
    /\ heard = {} => log = {}
    /\ ~awake => (connected <=> alive)

StickInv ==
    /\ manual_active <=> axes # Zero
    /\ stick = Zero => axes = Zero
    /\ sinceManual = {} => sinceAnte = {} /\ ~manual_active
    /\ \A t \in sinceAnte, u \in sinceManual : t >= u
    /\ manual_active => \A t \in sinceAnte : t >= ManualPeriod

\* The view is a record, of which the steps change one or two fields.
View == [telemetry : [status : Statuses \cup {NoTelemetry},
                      position : Positions \cup {NoTelemetry}],
         connected : BOOLEAN,
         goto_target : SUBSET Vec3]

GInv == TypeOK /\ view \in View /\ LinkInv /\ StickInv

LEMMA InitEstablishes == Init => GInv
<1> SUFFICES ASSUME Init PROVE GInv
  OBVIOUS
<1>1. TypeOK
  <2>1. optionalAge({}) /\ Zero \in Vec3
    BY DEF optionalAge, Zero, Vec3
  <2>2. /\ snapshot = [status |-> NoTelemetry, position |-> NoTelemetry]
        /\ view.telemetry = snapshot /\ view.connected = FALSE
        /\ view.goto_target = {}
    BY DEF Init
  <2>3. /\ awake = FALSE /\ connected = FALSE /\ manual_active = FALSE
        /\ sinceHeartbeat = {} /\ sinceManual = {} /\ sinceAnte = {} /\ heard = {}
        /\ call = "none" /\ order = "none" /\ axes = Zero /\ stick = Zero
        /\ log = {}
    BY DEF Init
  <2>4. {awake, connected, manual_active} \subseteq BOOLEAN
    BY <2>3
  <2>5. {axes, stick} \subseteq Vec3
    BY <2>1, <2>3
  <2>6. log \in {{}, {TRUE}, {FALSE}}
    BY <2>3
  <2>7. \A t \in view.goto_target :
           view.goto_target = {t} /\ t \in Vec3 /\ contains(t)
    BY <2>2
  <2>8. snapshot \in [status : Statuses \cup {NoTelemetry},
                     position : Positions \cup {NoTelemetry}]
    BY <2>2
  <2>9. view.connected \in BOOLEAN /\ view.telemetry = snapshot
    BY <2>2
  <2>10. /\ optionalAge(sinceHeartbeat) /\ optionalAge(sinceManual)
         /\ optionalAge(sinceAnte) /\ optionalAge(heard)
         /\ call \in {"none", "sent"}
         /\ order \in {"none", "goto", "manual"}
    BY <2>1, <2>3
  <2> QED BY <2>4, <2>5, <2>6, <2>7, <2>8, <2>9, <2>10 DEF TypeOK
<1>2. view \in View
  BY DEF Init, View
<1>3. LinkInv
  BY DEF Init, LinkInv, alive
<1>4. StickInv
  BY DEF Init, StickInv
<1> QED BY <1>1, <1>2, <1>3, <1>4 DEF GInv

LEMMA WakeUpKeeps ==
  ASSUME GInv, NEW d \in Nat, WakeUp(d)
  PROVE  GInv'
<1> USE StationAssumption
<1>0. d \in Nat
  OBVIOUS
<1>1. /\ optionalAge(sinceHeartbeat) /\ optionalAge(sinceManual)
      /\ optionalAge(sinceAnte) /\ optionalAge(heard)
  BY DEF GInv, TypeOK
<1>2. TypeOK'
  BY <1>0, <1>1, AgedType DEF GInv, TypeOK, WakeUp
<1>3. (view \in View)'
  BY DEF GInv, View, WakeUp
<1>4. LinkInv'
  BY <1>0, <1>1, AgedType DEF GInv, LinkInv, WakeUp
<1>5. StickInv'
  <2>1. /\ aged(sinceManual, d) = {} <=> sinceManual = {}
        /\ aged(sinceAnte, d) = {} <=> sinceAnte = {}
    BY <1>0, <1>1, AgedType
  <2>2. \A t \in aged(sinceAnte, d), u \in aged(sinceManual, d) : t >= u
    BY <1>0, <1>1, AgedKeepsOrder DEF GInv, StickInv
  <2>3. (\A t \in sinceAnte : t >= ManualPeriod) =>
           \A t \in aged(sinceAnte, d) : t >= ManualPeriod
    BY <1>0, <1>1, AgedKeepsOrder
  <2> QED
    BY <2>1, <2>2, <2>3 DEF GInv, StickInv, WakeUp
<1> QED BY <1>2, <1>3, <1>4, <1>5 DEF GInv

\* A frame touches neither the stick nor the goal of a GOTO.
LEMMA FrameKeeps ==
  ASSUME GInv,
         \/ \E status \in Statuses : Heartbeat(status)
         \/ \E position \in Positions : Position(position)
  PROVE  GInv'
<1> USE StationAssumption
<1>1. /\ awake /\ awake' = awake /\ UNCHANGED <<connected, log, manual, order>>
      /\ call' = "none"
      /\ view' = [view EXCEPT !.telemetry = snapshot']
  BY DEF Heartbeat, Position
<1>2. snapshot' \in [status : Statuses \cup {NoTelemetry},
                     position : Positions \cup {NoTelemetry}]
  BY DEF Heartbeat, Position, GInv, TypeOK
<1>3. /\ view' \in View /\ view'.telemetry = snapshot'
      /\ view'.connected = view.connected /\ view'.goto_target = view.goto_target
  BY <1>1, <1>2 DEF GInv, View
<1>4. heard' = sinceHeartbeat' /\ optionalAge(heard')
      /\ (heard' = heard \/ heard' = {0})
  BY DEF Heartbeat, Position, GInv, TypeOK, LinkInv, optionalAge
<1>5. TypeOK'
  BY <1>1, <1>2, <1>3, <1>4 DEF GInv, TypeOK, manual
<1>6. LinkInv'
  BY <1>1, <1>3, <1>4 DEF GInv, LinkInv
<1>7. StickInv'
  BY <1>1 DEF GInv, StickInv, manual
<1> QED BY <1>3, <1>5, <1>6, <1>7 DEF GInv

LEMMA UpdateKeeps ==
  ASSUME GInv, Update
  PROVE  GInv'
<1>1. /\ ~awake' /\ connected' = alive /\ call' = "none"
      /\ log' = IF alive # connected THEN {alive} ELSE log
      /\ view' = [view EXCEPT !.connected = alive,
                              !.goto_target = IF connected /\ ~alive THEN {} ELSE @]
      /\ UNCHANGED <<sinceHeartbeat, snapshot, heard, manual, order>>
  BY DEF Update
<1>2. alive \in BOOLEAN
  BY DEF alive
<1>3. /\ view' \in View /\ view'.telemetry = view.telemetry
      /\ view'.connected = alive
      /\ view'.goto_target = {} \/ view'.goto_target = view.goto_target
  <2>1. view \in View
    BY DEF GInv
  <2>2. /\ view' \in View /\ view'.telemetry = view.telemetry
        /\ view'.connected = alive
    BY <1>1, <1>2, <2>1 DEF View
  <2>3. view'.goto_target = IF connected /\ ~alive THEN {} ELSE view.goto_target
    BY <1>1, <2>1 DEF View
  <2> QED BY <2>2, <2>3
<1>4. alive' = alive
  BY <1>1 DEF alive
<1>5. log' \in {{}, {TRUE}, {FALSE}}
  BY <1>1, <1>2 DEF GInv, TypeOK
<1>6. TypeOK'
  <2>1. {awake', connected', manual_active'} \subseteq BOOLEAN
    <3>1. manual_active \in BOOLEAN /\ manual_active' = manual_active
      BY <1>1 DEF GInv, TypeOK, manual
    <3>2. awake' \in BOOLEAN /\ connected' \in BOOLEAN
      BY <1>1, <1>2 DEF Update
    <3> QED BY <3>1, <3>2
  <2>2. \A t \in view'.goto_target :
           view'.goto_target = {t} /\ t \in Vec3 /\ contains(t)
    BY <1>3 DEF GInv, TypeOK
  <2>3. view'.telemetry = snapshot' /\ view'.connected \in BOOLEAN
    BY <1>1, <1>2, <1>3 DEF GInv, TypeOK
  <2> QED BY <1>1, <1>5, <2>1, <2>2, <2>3 DEF GInv, TypeOK, manual
<1>7. LinkInv'
  <2>1. /\ connected \in BOOLEAN
        /\ connected <=> log = {TRUE}
    BY DEF GInv, TypeOK, LinkInv
  <2>2. connected' <=> log' = {TRUE}
    BY <1>1, <1>2, <2>1
  <2>3. heard' = {} => log' = {}
    <3>1. SUFFICES ASSUME heard = {} PROVE log' = {}
      BY <1>1
    <3>2. log = {} /\ sinceHeartbeat = {}
      BY <3>1 DEF GInv, LinkInv
    <3>3. connected = FALSE
      <4>1. {} # {TRUE}
        OBVIOUS
      <4>2. log # {TRUE}
        BY <3>2, <4>1
      <4> QED BY <2>1, <4>2
    <3>4. alive = FALSE
      BY <3>2 DEF alive
    <3> QED BY <1>1, <3>2, <3>3, <3>4
  <2> QED BY <1>1, <1>3, <1>4, <2>2, <2>3 DEF GInv, LinkInv
<1>8. StickInv'
  BY <1>1 DEF GInv, StickInv, manual
<1> QED BY <1>3, <1>6, <1>7, <1>8 DEF GInv

LEMMA GotoKeeps ==
  ASSUME GInv, NEW target \in Targets, send_goto(target)
  PROVE  GInv'
<1>1. /\ view' = [view EXCEPT !.goto_target = {clampToFence(target)}]
      /\ order' = "goto" /\ call' = "none"
      /\ UNCHANGED <<awake, link, manual>>
  BY DEF send_goto
<1>2. clampToFence(target) \in Vec3 /\ contains(clampToFence(target))
  BY ClampInFence, StationAssumption
<1>3. /\ view' \in View /\ view'.telemetry = view.telemetry
      /\ view'.connected = view.connected
      /\ view'.goto_target = {clampToFence(target)}
  BY <1>1, <1>2 DEF GInv, View
<1>4. TypeOK'
  BY <1>1, <1>2, <1>3 DEF GInv, TypeOK, link, manual
<1>5. LinkInv'
  BY <1>1, <1>3 DEF GInv, LinkInv, link, alive
<1>6. StickInv'
  BY <1>1 DEF GInv, StickInv, manual
<1> QED BY <1>3, <1>4, <1>5, <1>6 DEF GInv

\* A call that transmits nothing is a centred stick after a centred stick, or a
\* repetition within the period.
LEMMA ManualKeeps ==
  ASSUME GInv, NEW a \in Sticks, send_manual(a)
  PROVE  GInv'
<1> USE StationAssumption
<1>1. /\ stick' = a /\ a \in Vec3 /\ UNCHANGED <<awake, link>>
      /\ call' \in {"none", "sent"}
  BY DEF send_manual
<1>2. /\ view' \in View /\ view'.telemetry = view.telemetry
      /\ view'.connected = view.connected
      /\ view'.goto_target = {} \/ view'.goto_target = view.goto_target
  BY DEF send_manual, GInv, View
<1>3. LinkInv'
  BY <1>1, <1>2 DEF GInv, LinkInv, link, alive
<1>4. CASE /\ silent(a) \/ limited(a)
           /\ UNCHANGED <<sinceManual, manual_active, axes, sinceAnte, order>>
  <2>1. TypeOK'
    BY <1>1, <1>2, <1>4 DEF GInv, TypeOK, link
  <2>2. a = Zero => axes = Zero
    BY <1>4 DEF GInv, StickInv, silent, limited
  <2>3. StickInv'
    BY <1>1, <1>4, <2>2 DEF GInv, StickInv
  <2> QED BY <1>2, <1>3, <2>1, <2>3 DEF GInv
<1>5. CASE /\ transmitted(a) /\ call' = "sent" /\ sinceAnte' = sinceManual
           /\ axes' = a /\ order' = "manual"
  <2>1. /\ sinceManual' = {0} /\ (manual_active' <=> a # Zero)
        /\ manual_active' \in BOOLEAN
        /\ ~silent(a) /\ ~limited(a)
    BY <1>5 DEF transmitted
  <2>2. TypeOK'
    <3>1. {awake', connected', manual_active'} \subseteq BOOLEAN
      BY <1>1, <2>1 DEF GInv, TypeOK, link
    <3>2. {axes', stick'} \subseteq Vec3
      BY <1>1, <1>5
    <3>3. optionalAge(sinceManual') /\ optionalAge(sinceAnte')
      BY <1>5, <2>1 DEF GInv, TypeOK, optionalAge
    <3>4. \A t \in view'.goto_target :
             view'.goto_target = {t} /\ t \in Vec3 /\ contains(t)
      BY <1>2 DEF GInv, TypeOK
    <3> QED BY <1>1, <1>2, <1>5, <3>1, <3>2, <3>3, <3>4 DEF GInv, TypeOK, link
  <2>3. \A t \in sinceManual : t \in Nat
    BY DEF GInv, TypeOK, optionalAge
  <2>4. a # Zero => \A t \in sinceManual : t >= ManualPeriod
    BY <2>1, <2>3 DEF limited
  <2>5. StickInv'
    BY <1>1, <1>5, <2>1, <2>3, <2>4 DEF GInv, StickInv
  <2> QED BY <1>2, <1>3, <2>2, <2>5 DEF GInv
<1> QED BY <1>4, <1>5 DEF send_manual

LEMMA GInductive == GInv /\ [Next]_vars => GInv'
<1> SUFFICES ASSUME GInv, [Next]_vars PROVE GInv'
  OBVIOUS
<1>1. CASE UNCHANGED vars
  <2>1. /\ awake' = awake /\ view' = view /\ call' = call /\ order' = order
        /\ UNCHANGED <<sinceHeartbeat, connected, snapshot, log, heard,
                      sinceManual, manual_active, axes, stick, sinceAnte>>
    BY <1>1 DEF vars, link, manual
  <2>2. TypeOK' /\ (view \in View)'
    BY <2>1 DEF GInv, TypeOK, View
  <2>3. LinkInv'
    BY <2>1 DEF GInv, LinkInv, alive
  <2>4. StickInv'
    BY <2>1 DEF GInv, StickInv
  <2> QED BY <2>2, <2>3, <2>4 DEF GInv
<1>2. CASE \E d \in Frames : WakeUp(d)
  BY <1>2, WakeUpKeeps, StationAssumption
<1>3. CASE \/ \E status \in Statuses : Heartbeat(status)
           \/ \E position \in Positions : Position(position)
  BY <1>3, FrameKeeps
<1>4. CASE Update
  BY <1>4, UpdateKeeps
<1>5. CASE \E target \in Targets : send_goto(target)
  BY <1>5, GotoKeeps
<1>6. CASE \E a \in Sticks : send_manual(a)
  BY <1>6, ManualKeeps
<1> QED BY <1>1, <1>2, <1>3, <1>4, <1>5, <1>6 DEF Next

LEMMA GInvariance == Spec => []GInv
  BY InitEstablishes, GInductive, PTL DEF Spec

-----------------------------------------------------------------------------
(***************************************************************************)
(* The theorems.                                                           *)
(***************************************************************************)
\* The state keeps its types; a goal that is shown lies inside the fence.
THEOREM StationTypes == Spec => []TypeOK
<1>1. GInv => TypeOK
  BY DEF GInv
<1> QED BY <1>1, GInvariance, PTL

\* Whatever arrives, and however long the frames of the loop are: between two
\* ticks the drone is shown as connected exactly while a HEARTBEAT is recent.
THEOREM ConnectionIsHonest == Spec => []ConnectedMeansHeard
<1>1. GInv => ConnectedMeansHeard
  BY DEF GInv, LinkInv, ConnectedMeansHeard, alive
<1> QED BY <1>1, GInvariance, PTL

\* The log of connection events never disagrees with the status that is shown.
THEOREM LogIsHonest == Spec => []EventsFollowStatus
<1>1. GInv => EventsFollowStatus
  <2> SUFFICES ASSUME GInv PROVE EventsFollowStatus
    OBVIOUS
  <2>1. /\ view.connected = connected /\ connected \in BOOLEAN
        /\ connected <=> log = {TRUE}
        /\ heard = {} => log = {}
    BY DEF GInv, TypeOK, LinkInv
  <2>2. view.connected = (log = {TRUE})
    BY <2>1
  <2> QED BY <2>1, <2>2 DEF EventsFollowStatus
<1> QED BY <1>1, GInvariance, PTL

\* However the operator plays with the stick: when it is let go, the axes that
\* were transmitted last are centred.
THEOREM ReleaseIsTransmitted == Spec => []ReleaseIsNeverSwallowed
<1>1. GInv => ReleaseIsNeverSwallowed
  BY DEF GInv, StickInv, ReleaseIsNeverSwallowed
<1> QED BY <1>1, GInvariance, PTL

\* No three transmissions fall into one period, however often the stick is let
\* go and deflected again.
THEOREM RateIsLimited == Spec => ManualIsRateLimited
<1> DEFINE Limited == call' = "sent" => \A t \in sinceAnte : t >= ManualPeriod
<1>1. GInv /\ [Next]_vars => [Limited]_vars
  <2> SUFFICES ASSUME GInv, Next, call' = "sent"
               PROVE  \A t \in sinceAnte : t >= ManualPeriod
    OBVIOUS
  <2>1. PICK a \in Sticks : transmitted(a)
    BY DEF Next, WakeUp, Heartbeat, Position, Update, send_goto, send_manual
  <2>2. CASE manual_active
    BY <2>2 DEF GInv, StickInv
  <2>3. CASE ~manual_active
    <3>1. \A t \in sinceManual : t \in Nat /\ t >= ManualPeriod
      BY <2>1, <2>3, StationAssumption
      DEF transmitted, silent, limited, GInv, TypeOK, optionalAge
    <3>2. \A t \in sinceAnte : t \in Nat
      BY DEF GInv, TypeOK, optionalAge
    <3>3. sinceAnte # {} => sinceManual # {}
      BY DEF GInv, StickInv
    <3> QED BY <3>1, <3>2, <3>3, StationAssumption DEF GInv, StickInv
  <2> QED BY <2>2, <2>3
<1>2. ManualIsRateLimited <=> [][Limited]_vars
  BY DEF ManualIsRateLimited
<1> QED BY <1>1, <1>2, GInvariance, PTL DEF Spec

\* A connection event is recorded exactly when the status changes, and the goal
\* of a GOTO does not survive a loss of the link.
THEOREM LossIsAnnounced == Spec => LossIsAnnouncedOnce
<1> DEFINE Announced ==
             /\ log' # log <=> view'.connected # view.connected
             /\ view.connected /\ ~view'.connected => view'.goto_target = {}
<1>1. GInv /\ [Next]_vars => [Announced]_vars
  <2> SUFFICES ASSUME GInv, Next PROVE Announced
    OBVIOUS
  <2>1. GInv'
    BY GInductive
  <2>2. CASE Update
    <3>1. /\ log' = IF alive # connected THEN {alive} ELSE log
          /\ connected' = alive
          /\ connected /\ ~alive => view'.goto_target = {}
      BY <2>2 DEF Update, GInv, View
    <3>2. /\ connected \in BOOLEAN /\ alive \in BOOLEAN
          /\ connected <=> log = {TRUE}
          /\ view.connected = connected /\ view'.connected = connected'
      BY <2>1 DEF GInv, TypeOK, LinkInv, alive
    <3> QED BY <3>1, <3>2
  <2>3. CASE ~Update
    <3>1. log' = log /\ connected' = connected
      BY <2>3 DEF Next, WakeUp, Heartbeat, Position, send_goto, send_manual, link
    <3>2. view'.connected = view.connected
      BY <2>1, <3>1 DEF GInv, LinkInv
    <3> QED BY <3>1, <3>2
  <2> QED BY <2>2, <2>3
<1>2. LossIsAnnouncedOnce <=> [][Announced]_vars
  BY DEF LossIsAnnouncedOnce
<1> QED BY <1>1, <1>2, GInvariance, PTL DEF Spec

-----------------------------------------------------------------------------
(***************************************************************************)
(* The way of telemetry.                                                   *)
(***************************************************************************)
Frame == [kind : Kinds, age : Nat]

-----------------------------------------------------------------------------
(***************************************************************************)
(* Frames of a kind in a sequence.                                         *)
(***************************************************************************)
None(frames, k) == \A i \in DOMAIN frames : frames[i].kind # k

Old(frames, k, x) ==
    {i \in DOMAIN frames : frames[i].kind = k /\ frames[i].age >= x}

\* How many frames of kind k are as old as x.
Count(frames, k, x) == Cardinality(Old(frames, k, x))

LEMMA RemoveEntries ==
  ASSUME NEW s \in Seq(Frame), NEW i \in DOMAIN s
  PROVE  /\ RemoveAt(s, i) \in Seq(Frame)
         /\ DOMAIN RemoveAt(s, i) = 1 .. Len(s) - 1
         /\ \A j \in 1 .. i - 1 : RemoveAt(s, i)[j] = s[j]
         /\ \A j \in i .. Len(s) - 1 : RemoveAt(s, i)[j] = s[j + 1]
<1> DEFINE a == SubSeq(s, 1, i - 1)
           b == SubSeq(s, i + 1, Len(s))
           r == a \o b
<1>1. i \in 1 .. Len(s) /\ Len(s) \in Nat /\ DOMAIN s = 1 .. Len(s)
  OBVIOUS
<1>2. /\ a \in Seq(Frame) /\ Len(a) = i - 1
      /\ \A j \in 1 .. i - 1 : a[j] = s[j]
  BY <1>1
<1>3. /\ b \in Seq(Frame) /\ Len(b) = Len(s) - i
      /\ \A j \in 1 .. Len(s) - i : b[j] = s[i + j]
  BY <1>1
<1> HIDE DEF a, b
<1>4. /\ r \in Seq(Frame) /\ Len(r) = Len(s) - 1
      /\ \A j \in 1 .. Len(s) - 1 :
            r[j] = IF j =< i - 1 THEN a[j] ELSE b[j - (i - 1)]
  <2>0. a \in Seq(Frame) /\ b \in Seq(Frame)
    BY <1>2, <1>3
  <2>1. /\ r \in Seq(Frame) /\ Len(r) = Len(a) + Len(b)
        /\ \A j \in 1 .. Len(a) + Len(b) :
              r[j] = IF j =< Len(a) THEN a[j] ELSE b[j - Len(a)]
    BY <2>0, ConcatProperties
  <2> HIDE DEF r
  <2>2. Len(a) + Len(b) = Len(s) - 1
    BY <1>1, <1>2, <1>3
  <2> QED BY <1>2, <2>1, <2>2
<1>5. RemoveAt(s, i) = r
  BY DEF RemoveAt, a, b
<1> HIDE DEF r
<1>6. ASSUME NEW j \in 1 .. i - 1 PROVE r[j] = s[j]
  <2>1. j \in 1 .. Len(s) - 1 /\ j =< i - 1
    BY <1>1
  <2>2. r[j] = a[j]
    BY <1>4, <2>1
  <2> QED BY <1>2, <2>2
<1>7. ASSUME NEW j \in i .. Len(s) - 1 PROVE r[j] = s[j + 1]
  <2>1. j - (i - 1) \in 1 .. Len(s) - i /\ i + (j - (i - 1)) = j + 1
    BY <1>1
  <2>2. b[j - (i - 1)] = s[i + (j - (i - 1))]
    BY <1>3, <2>1
  <2>3. r[j] = b[j - (i - 1)]
    BY <1>1, <1>4
  <2> QED BY <2>1, <2>2, <2>3
<1> QED BY <1>4, <1>5, <1>6, <1>7

\* Frames that are left after a removal were there before it.
LEMMA RemoveAmong ==
  ASSUME NEW s \in Seq(Frame), NEW i \in DOMAIN s, NEW j \in DOMAIN RemoveAt(s, i)
  PROVE  \E m \in DOMAIN s : RemoveAt(s, i)[j] = s[m]
<1> DEFINE r == RemoveAt(s, i)
<1>1. i \in 1 .. Len(s) /\ Len(s) \in Nat /\ DOMAIN s = 1 .. Len(s)
  OBVIOUS
<1>2. /\ DOMAIN r = 1 .. Len(s) - 1
      /\ \A m \in 1 .. i - 1 : r[m] = s[m]
      /\ \A m \in i .. Len(s) - 1 : r[m] = s[m + 1]
  BY RemoveEntries
<1>3. j \in 1 .. Len(s) - 1
  BY <1>2
<1> HIDE DEF r
<1>4. CASE j =< i - 1
  BY <1>1, <1>2, <1>3, <1>4 DEF r
<1>5. CASE j >= i
  <2>1. j + 1 \in DOMAIN s /\ r[j] = s[j + 1]
    BY <1>1, <1>2, <1>3, <1>5
  <2> QED BY <2>1 DEF r
<1> QED BY <1>1, <1>3, <1>4, <1>5

LEMMA AppendEntries ==
  ASSUME NEW s \in Seq(Frame), NEW f \in Frame
  PROVE  /\ Append(s, f) \in Seq(Frame)
         /\ DOMAIN Append(s, f) = 1 .. Len(s) + 1 /\ DOMAIN s = 1 .. Len(s)
         /\ Len(s) \in Nat
         /\ Append(s, f)[Len(s) + 1] = f
         /\ \A j \in DOMAIN s : Append(s, f)[j] = s[j]
  OBVIOUS

LEMMA TailEntries ==
  ASSUME NEW s \in Seq(Frame), s # <<>>
  PROVE  /\ Tail(s) \in Seq(Frame) /\ Head(s) \in Frame
         /\ 1 \in DOMAIN s /\ Head(s) = s[1]
         /\ DOMAIN Tail(s) = 1 .. Len(s) - 1 /\ DOMAIN s = 1 .. Len(s)
         /\ Len(s) \in Nat
         /\ \A j \in DOMAIN Tail(s) : j + 1 \in DOMAIN s /\ Tail(s)[j] = s[j + 1]
  OBVIOUS

LEMMA OlderEntries ==
  ASSUME NEW s \in Seq(Frame)
  PROVE  /\ older(s) \in Seq(Frame) /\ DOMAIN older(s) = DOMAIN s
         /\ \A i \in DOMAIN s : /\ s[i] \in Frame
                                /\ older(s)[i].kind = s[i].kind
                                /\ older(s)[i].age = s[i].age + 1
<1>1. Len(s) \in Nat /\ DOMAIN s = 1 .. Len(s)
  OBVIOUS
<1>2. ASSUME NEW i \in DOMAIN s
      PROVE  /\ s[i] \in Frame /\ older(s)[i] \in Frame
             /\ older(s)[i].kind = s[i].kind
             /\ older(s)[i].age = s[i].age + 1
  <2>1. s[i] \in Frame /\ older(s)[i] = [s[i] EXCEPT !.age = s[i].age + 1]
    BY <1>2 DEF older
  <2>2. s[i].age + 1 \in Nat
    BY <2>1 DEF Frame
  <2> QED BY <2>1, <2>2 DEF Frame
<1>3. older(s) = [i \in 1 .. Len(s) |-> older(s)[i]]
  BY <1>1 DEF older
<1>4. older(s) \in Seq(Frame)
  BY <1>1, <1>2, <1>3
<1> QED BY <1>2, <1>4 DEF older

LEMMA CountType ==
  ASSUME NEW s \in Seq(Frame), NEW k, NEW x \in Nat
  PROVE  IsFiniteSet(Old(s, k, x)) /\ Count(s, k, x) \in Nat
<1>1. DOMAIN s = 1 .. Len(s) /\ Len(s) \in Nat
  OBVIOUS
<1>2. IsFiniteSet(DOMAIN s)
  BY <1>1, FS_Interval
<1>3. Old(s, k, x) \in SUBSET DOMAIN s
  BY DEF Old
<1>4. IsFiniteSet(Old(s, k, x))
  BY <1>2, <1>3, FS_Subset
<1> QED BY <1>4, FS_CardinalityType DEF Count

LEMMA CountAppend ==
  ASSUME NEW s \in Seq(Frame), NEW f \in Frame, NEW k, NEW x \in Nat
  PROVE  /\ Count(Append(s, f), k, x) >= Count(s, k, x)
         /\ f.kind = k /\ f.age >= x =>
              Count(Append(s, f), k, x) = Count(s, k, x) + 1
<1> DEFINE r == Append(s, f)
           n == Len(s) + 1
<1>1. /\ DOMAIN r = 1 .. n /\ Len(s) \in Nat /\ DOMAIN s = 1 .. Len(s)
      /\ r[n] = f /\ (\A j \in 1 .. Len(s) : r[j] = s[j]) /\ r \in Seq(Frame)
  OBVIOUS
<1> HIDE DEF r
<1>2. /\ Old(s, k, x) \subseteq Old(r, k, x)
      /\ f.kind = k /\ f.age >= x => Old(r, k, x) = Old(s, k, x) \cup {n}
      /\ n \notin Old(s, k, x)
  BY <1>1 DEF Old
<1>3. /\ IsFiniteSet(Old(s, k, x)) /\ Count(s, k, x) \in Nat
      /\ IsFiniteSet(Old(r, k, x)) /\ Count(r, k, x) \in Nat
  BY <1>1, CountType
<1>4. Count(s, k, x) =< Count(r, k, x)
  BY <1>2, <1>3, FS_Subset DEF Count
<1>5. f.kind = k /\ f.age >= x => Count(r, k, x) = Count(s, k, x) + 1
  BY <1>2, <1>3, FS_AddElement DEF Count
<1> QED BY <1>3, <1>4, <1>5 DEF r

\* One frame leaves, and only the frames of its kind become fewer.
LEMMA CountRemove ==
  ASSUME NEW s \in Seq(Frame), NEW i \in DOMAIN s, NEW k, NEW x \in Nat
  PROVE  /\ Count(RemoveAt(s, i), k, x) + 1 >= Count(s, k, x)
         /\ s[i].kind # k => Count(RemoveAt(s, i), k, x) >= Count(s, k, x)
<1> DEFINE r == RemoveAt(s, i)
           A == Old(s, k, x)
           B == Old(r, k, x)
           g == [j \in A \ {i} |-> IF j < i THEN j ELSE j - 1]
<1>1. i \in 1 .. Len(s) /\ Len(s) \in Nat /\ DOMAIN s = 1 .. Len(s)
  OBVIOUS
<1>2. /\ r \in Seq(Frame) /\ DOMAIN r = 1 .. Len(s) - 1
      /\ \A j \in 1 .. i - 1 : r[j] = s[j]
      /\ \A j \in i .. Len(s) - 1 : r[j] = s[j + 1]
  BY RemoveEntries
<1>3. /\ IsFiniteSet(A) /\ Count(s, k, x) \in Nat
      /\ IsFiniteSet(B) /\ Count(r, k, x) \in Nat
  BY <1>2, CountType
<1> HIDE DEF r
<1>4. A \subseteq 1 .. Len(s)
  BY <1>1 DEF Old
<1>5. ASSUME NEW j \in A \ {i} PROVE g[j] \in B
  <2>1. j \in 1 .. Len(s) /\ s[j].kind = k /\ s[j].age >= x /\ j # i
    BY <1>1, <1>5 DEF Old
  <2>2. CASE j < i
    <3>1. g[j] = j /\ j \in DOMAIN r /\ r[j] = s[j]
      BY <1>1, <1>2, <2>1, <2>2
    <3> QED BY <2>1, <3>1 DEF Old
  <2>3. CASE j > i
    <3>1. g[j] = j - 1 /\ j - 1 \in i .. Len(s) - 1 /\ (j - 1) + 1 = j
      BY <1>1, <2>1, <2>3
    <3>2. j - 1 \in DOMAIN r /\ r[j - 1] = s[j]
      BY <1>1, <1>2, <3>1
    <3> QED BY <2>1, <3>1, <3>2 DEF Old
  <2> QED BY <1>1, <2>1, <2>2, <2>3
<1>6. \A j, m \in A \ {i} : g[j] = g[m] => j = m
  BY <1>1, <1>4
<1>7. g \in Injection(A \ {i}, B)
  BY <1>5, <1>6 DEF Injection, IsInjective
<1> HIDE DEF A, B, g
<1>8. Cardinality(A \ {i}) =< Cardinality(B)
  BY <1>3, <1>7, FS_Injection
<1>9. Cardinality(A \ {i}) = IF i \in A THEN Cardinality(A) - 1 ELSE Cardinality(A)
  BY <1>3, FS_RemoveElement
<1>10. Count(s, k, x) = Cardinality(A) /\ Count(r, k, x) = Cardinality(B)
  BY DEF Count, A, B
<1>11. s[i].kind # k => i \notin A
  BY DEF A, Old
<1>12. /\ Count(r, k, x) + 1 >= Count(s, k, x)
       /\ s[i].kind # k => Count(r, k, x) >= Count(s, k, x)
  BY <1>3, <1>8, <1>9, <1>10, <1>11
<1> QED BY <1>12 DEF r

LEMMA CountOlder ==
  ASSUME NEW s \in Seq(Frame), NEW k, NEW x \in Nat
  PROVE  /\ Count(older(s), k, x + 1) = Count(s, k, x)
         /\ Count(older(s), k, 0) = Count(s, k, 0)
<1>1. /\ DOMAIN older(s) = DOMAIN s
      /\ \A i \in DOMAIN s : /\ s[i].age \in Nat
                             /\ older(s)[i].kind = s[i].kind
                             /\ older(s)[i].age = s[i].age + 1
  BY OlderEntries DEF Frame
<1>2. Old(older(s), k, x + 1) = Old(s, k, x)
  BY <1>1 DEF Old
<1>3. Old(older(s), k, 0) = Old(s, k, 0)
  BY <1>1 DEF Old
<1> QED BY <1>2, <1>3 DEF Count

LEMMA CountNone ==
  ASSUME NEW s \in Seq(Frame), NEW k, NEW x \in Nat,
         \A i \in DOMAIN s : s[i].age =< x
  PROVE  Count(s, k, x + 1) = 0
<1>1. \A i \in DOMAIN s : s[i] \in Frame
  OBVIOUS
<1>2. Old(s, k, x + 1) = {}
  BY <1>1 DEF Old, Frame
<1> QED BY <1>2, FS_EmptySet DEF Count

LEMMA Times ==
  ASSUME NEW a \in Nat, NEW b \in Nat, NEW p \in Nat
  PROVE  /\ a * p \in Nat
         /\ (a + 1) * p = a * p + p
         /\ a =< b => a * p =< b * p
<1>1. ASSUME a =< b PROVE a * p =< b * p
  <2>1. b - a \in Nat /\ b = a + (b - a)
    BY <1>1
  <2>2. (b - a) * p \in Nat /\ b * p = a * p + (b - a) * p
    BY <2>1
  <2> QED BY <2>2
<1> QED BY <1>1

-----------------------------------------------------------------------------
(***************************************************************************)
(* Why a gap between two arrivals is no longer than LongestGap.  Let the   *)
(* last frame of a kind have arrived x ago, and let lost be the frames of  *)
(* the kind that were lost since.  The deadlines of a schedule that is     *)
(* absolute are a period apart, so those after that arrival number         *)
(* x / period or so; each was published within DroneGap, and what was      *)
(* published is lost or on the way.  This is said of all frames, and of    *)
(* those older than a.                                                     *)
(***************************************************************************)
Late(lost, due, frames, k, x) ==
    /\ \A u \in due : x + u =< (lost + Count(frames, k, 0) + 1) * TelemetryPeriod
    /\ \A a \in Nat :
          x =< a + (lost + Count(frames, k, a + 1) + 1) * TelemetryPeriod + DroneGap - 1

LEMMA Constants ==
  /\ TelemetryPeriod \in Nat /\ TelemetryPeriod > 0
  /\ DroneGap \in Nat /\ DroneGap > 0 /\ DroneGap =< TelemetryPeriod
  /\ StationGap \in Nat /\ StationGap > 0 /\ MaxDelay \in Nat /\ MaxLosses \in Nat
  /\ ConnectionTimeout \in Nat /\ Forgotten \in Nat /\ ConnectionTimeout < Forgotten
  /\ LongestGap \in Nat
<1>1. /\ TelemetryPeriod \in Nat /\ TelemetryPeriod > 0
      /\ DroneGap \in Nat /\ DroneGap > 0 /\ DroneGap =< TelemetryPeriod
      /\ StationGap \in Nat /\ StationGap > 0 /\ MaxDelay \in Nat /\ MaxLosses \in Nat
  BY LinkAssumption
<1>2. ConnectionTimeout \in Nat /\ Forgotten \in Nat /\ ConnectionTimeout < Forgotten
  BY StationAssumption
<1>3. (MaxLosses + 1) * TelemetryPeriod \in Nat
  BY <1>1, Times
<1> QED BY <1>1, <1>2, <1>3 DEF LongestGap

\* One frame more that is lost or on the way is one period more.
LEMMA Products ==
  ASSUME NEW n \in Nat, NEW m \in Nat, n =< m
  PROVE  /\ (n + 1) * TelemetryPeriod \in Nat
         /\ TelemetryPeriod =< (n + 1) * TelemetryPeriod
         /\ (n + 1) * TelemetryPeriod =< (m + 1) * TelemetryPeriod
         /\ (n + 2) * TelemetryPeriod = (n + 1) * TelemetryPeriod + TelemetryPeriod
<1>1. TelemetryPeriod \in Nat
  BY Constants
<1>2. n + 1 \in Nat /\ m + 1 \in Nat /\ n + 1 =< m + 1 /\ n + 2 = (n + 1) + 1
      /\ 1 =< n + 1
  OBVIOUS
<1>3. /\ (n + 1) * TelemetryPeriod \in Nat
      /\ (n + 1) * TelemetryPeriod =< (m + 1) * TelemetryPeriod
      /\ ((n + 1) + 1) * TelemetryPeriod = (n + 1) * TelemetryPeriod + TelemetryPeriod
  BY <1>1, <1>2, Times
<1>4. 1 * TelemetryPeriod =< (n + 1) * TelemetryPeriod
  BY <1>1, <1>2, Times
<1>5. 1 * TelemetryPeriod = TelemetryPeriod
  BY <1>1
<1> QED BY <1>2, <1>3, <1>4, <1>5

\* Nothing is late right after an arrival.
LEMMA LateAtOnce ==
  ASSUME NEW lost \in Nat, NEW due \in SUBSET Int, NEW frames \in Seq(Frame), NEW k,
         NEW x \in Int, x =< 0, \A u \in due : u =< TelemetryPeriod
  PROVE  Late(lost, due, frames, k, x)
<1> DEFINE P == TelemetryPeriod
<1>0. P \in Nat /\ DroneGap \in Nat /\ DroneGap > 0
  BY Constants
<1>1. ASSUME NEW a \in Nat
      PROVE  /\ (lost + Count(frames, k, a) + 1) * P \in Nat
             /\ P =< (lost + Count(frames, k, a) + 1) * P
  <2>1. Count(frames, k, a) \in Nat
    BY CountType
  <2>2. lost + Count(frames, k, a) \in Nat
    BY <2>1
  <2> QED BY <2>2, Products
<1>2. ASSUME NEW u \in due
      PROVE  x + u =< (lost + Count(frames, k, 0) + 1) * P
  <2> DEFINE b == (lost + Count(frames, k, 0) + 1) * P
  <2>1. b \in Nat /\ P =< b
    BY <1>1
  <2> HIDE DEF b
  <2>2. u \in Int /\ u =< P
    OBVIOUS
  <2> HIDE DEF P
  <2>3. x + u =< b
    BY <1>0, <2>1, <2>2
  <2> QED BY <2>3 DEF b
<1>3. ASSUME NEW a \in Nat
      PROVE  x =< a + (lost + Count(frames, k, a + 1) + 1) * P + DroneGap - 1
  <2> DEFINE b == (lost + Count(frames, k, a + 1) + 1) * P
  <2>1. b \in Nat
    BY <1>1
  <2> HIDE DEF b
  <2>2. x =< a + b + DroneGap - 1
    BY <1>0, <2>1
  <2> QED BY <2>2 DEF b
<1> QED BY <1>2, <1>3 DEF Late

\* It becomes no later when more is lost or on the way, at every age, ...
LEMMA LateGrows ==
  ASSUME NEW lost \in Nat, NEW more \in Nat, NEW due \in SUBSET Int,
         NEW frames \in Seq(Frame), NEW others \in Seq(Frame), NEW k, NEW x \in Int,
         NEW y \in Int, y =< x, Late(lost, due, frames, k, x),
         \A a \in Nat : lost + Count(frames, k, a) =< more + Count(others, k, a)
  PROVE  Late(more, due, others, k, y)
<1> DEFINE P == TelemetryPeriod
<1>0. P \in Nat /\ DroneGap \in Nat
  BY Constants
<1>1. ASSUME NEW a \in Nat
      PROVE  /\ (lost + Count(frames, k, a) + 1) * P \in Nat
             /\ (more + Count(others, k, a) + 1) * P \in Nat
             /\ (lost + Count(frames, k, a) + 1) * P
                   =< (more + Count(others, k, a) + 1) * P
  <2>1. Count(frames, k, a) \in Nat /\ Count(others, k, a) \in Nat
    BY CountType
  <2>2. lost + Count(frames, k, a) \in Nat /\ more + Count(others, k, a) \in Nat
    BY <2>1
  <2> QED BY <2>2, Products
<1>2. ASSUME NEW u \in due
      PROVE  y + u =< (more + Count(others, k, 0) + 1) * P
  <2> DEFINE b == (lost + Count(frames, k, 0) + 1) * P
             c == (more + Count(others, k, 0) + 1) * P
  <2>1. b \in Nat /\ c \in Nat /\ b =< c
    BY <1>1
  <2>2. x + u =< b
    BY DEF Late
  <2> HIDE DEF b, c
  <2>3. y + u =< c
    BY <2>1, <2>2
  <2> QED BY <2>3 DEF c
<1>3. ASSUME NEW a \in Nat
      PROVE  y =< a + (more + Count(others, k, a + 1) + 1) * P + DroneGap - 1
  <2> DEFINE b == (lost + Count(frames, k, a + 1) + 1) * P
             c == (more + Count(others, k, a + 1) + 1) * P
  <2>0. a + 1 \in Nat
    OBVIOUS
  <2>1. b \in Nat /\ c \in Nat /\ b =< c
    BY <1>1, <2>0
  <2>2. x =< a + b + DroneGap - 1
    BY DEF Late
  <2> HIDE DEF b, c
  <2>3. y =< a + c + DroneGap - 1
    BY <1>0, <2>1, <2>2
  <2> QED BY <2>3 DEF c
<1> QED BY <1>2, <1>3 DEF Late

\* ... and stays as late when time passes, in which no publication is overdue.
LEMMA LatePass ==
  ASSUME NEW lost \in Nat, NEW u \in Int, NEW frames \in Seq(Frame), NEW k,
         NEW x \in Int, Late(lost, {u}, frames, k, x), u + DroneGap >= 2
  PROVE  Late(lost, {u - 1}, older(frames), k, x + 1)
<1> DEFINE P == TelemetryPeriod
           s == older(frames)
<1>0. P \in Nat /\ DroneGap \in Nat
  BY Constants
<1>1. \A a \in Nat : /\ Count(frames, k, a) \in Nat
                     /\ Count(s, k, a + 1) = Count(frames, k, a)
                     /\ Count(s, k, 0) = Count(frames, k, 0)
  BY CountType, CountOlder
<1>2. \A a \in Nat : (lost + Count(frames, k, a) + 1) * P \in Nat
  <2> SUFFICES ASSUME NEW a \in Nat
               PROVE  (lost + Count(frames, k, a) + 1) * P \in Nat
    OBVIOUS
  <2>1. Count(frames, k, a) \in Nat
    BY CountType
  <2>2. lost + Count(frames, k, a) \in Nat
    BY <2>1
  <2> QED BY <2>2, Products
<1> HIDE DEF s
<1>3. (x + 1) + (u - 1) =< (lost + Count(s, k, 0) + 1) * P
  <2> DEFINE b == (lost + Count(frames, k, 0) + 1) * P
  <2>1. x + u =< b /\ b \in Nat
    BY <1>2 DEF Late
  <2>2. b = (lost + Count(s, k, 0) + 1) * P
    BY <1>1
  <2> HIDE DEF b
  <2>3. (x + 1) + (u - 1) =< b
    BY <2>1
  <2> QED BY <2>2, <2>3
<1>4. ASSUME NEW a \in Nat
      PROVE  x + 1 =< a + (lost + Count(s, k, a + 1) + 1) * P + DroneGap - 1
  <2> DEFINE b == (lost + Count(frames, k, a) + 1) * P
  <2>1. b \in Nat /\ b = (lost + Count(s, k, a + 1) + 1) * P
    BY <1>1, <1>2
  <2>2. x + 1 =< a + b + DroneGap - 1
    <3>1. CASE a = 0
      <4>1. x + u =< b
        BY <3>1 DEF Late
      <4> HIDE DEF b
      <4> QED BY <1>0, <2>1, <3>1, <4>1
    <3>2. CASE a > 0
      <4>1. a - 1 \in Nat /\ (a - 1) + 1 = a
        BY <3>2
      <4>2. x =< (a - 1) + (lost + Count(frames, k, (a - 1) + 1) + 1) * P + DroneGap - 1
        BY <4>1 DEF Late
      <4>3. x =< (a - 1) + b + DroneGap - 1
        BY <4>1, <4>2
      <4> HIDE DEF b
      <4> QED BY <1>0, <2>1, <4>3
    <3> QED BY <3>1, <3>2
  <2> QED BY <2>1, <2>2
<1>5. Late(lost, {u - 1}, s, k, x + 1)
  BY <1>3, <1>4 DEF Late
<1> QED BY <1>5 DEF s

\* A publication is one frame more, and a period more till the next.
LEMMA LatePublished ==
  ASSUME NEW lost \in Nat, NEW u \in Int, NEW frames \in Seq(Frame), NEW k \in Kinds,
         NEW x \in Int, Late(lost, {u}, frames, k, x)
  PROVE  Late(lost, {u + TelemetryPeriod}, frames \o published, k, x)
<1> DEFINE P == TelemetryPeriod
           f == [kind |-> "HEARTBEAT", age |-> 0]
           g == [kind |-> "LOCAL_POSITION_NED", age |-> 0]
           s == frames \o published
<1>0. P \in Nat /\ DroneGap \in Nat
  BY Constants
<1>1. f \in Frame /\ g \in Frame /\ f.kind # g.kind /\ (f.kind = k \/ g.kind = k)
  BY DEF Frame, Kinds
<1>2. s = Append(Append(frames, f), g) /\ Append(frames, f) \in Seq(Frame)
  BY <1>1 DEF published
<1>3. s \in Seq(Frame)
  BY <1>1, <1>2
<1>4. ASSUME NEW a \in Nat
      PROVE  /\ Count(frames, k, a) \in Nat /\ Count(s, k, a) \in Nat
             /\ Count(s, k, a) >= Count(frames, k, a)
             /\ a = 0 => Count(s, k, a) >= Count(frames, k, a) + 1
  <2> DEFINE r == Append(frames, f)
  <2>1. /\ Count(frames, k, a) \in Nat /\ Count(s, k, a) \in Nat
        /\ Count(r, k, a) \in Nat
    BY <1>2, <1>3, CountType
  <2>2. /\ Count(r, k, a) >= Count(frames, k, a)
        /\ f.kind = k /\ f.age >= a => Count(r, k, a) = Count(frames, k, a) + 1
    BY <1>1, CountAppend
  <2>3. r \in Seq(Frame) /\ s = Append(r, g)
    BY <1>2
  <2> HIDE DEF r
  <2>4. /\ Count(s, k, a) >= Count(r, k, a)
        /\ g.kind = k /\ g.age >= a => Count(s, k, a) = Count(r, k, a) + 1
    BY <1>1, <2>3, CountAppend
  <2>5. f.age = 0 /\ g.age = 0
    OBVIOUS
  <2> QED BY <1>1, <2>1, <2>2, <2>4, <2>5
<1> HIDE DEF s
<1>5. Late(lost, {u}, s, k, x)
  <2>1. \A a \in Nat : lost + Count(frames, k, a) =< lost + Count(s, k, a)
    BY <1>4
  <2>2. {u} \in SUBSET Int /\ x =< x
    OBVIOUS
  <2> QED BY <1>3, <2>1, <2>2, LateGrows
<1>6. x + (u + P) =< (lost + Count(s, k, 0) + 1) * P
  <2> DEFINE n == lost + Count(frames, k, 0)
             m == lost + Count(s, k, 0)
  <2>0. /\ Count(frames, k, 0) \in Nat /\ Count(s, k, 0) \in Nat
        /\ Count(s, k, 0) >= Count(frames, k, 0) + 1
    BY <1>4
  <2>1. n \in Nat /\ m \in Nat /\ n + 1 =< m
    BY <2>0
  <2>2. x + u =< (n + 1) * P
    BY DEF Late
  <2> HIDE DEF n, m
  <2>3. (n + 2) * P = (n + 1) * P + P /\ (n + 1) * P \in Nat
    BY <2>1, Products
  <2>4. n + 1 \in Nat /\ (n + 1) + 1 = n + 2
    BY <2>1
  <2>5. ((n + 1) + 1) * P =< (m + 1) * P
    BY <2>1, <2>4, Products
  <2>7. (m + 1) * P \in Nat
    <3>1. m =< m
      BY <2>1
    <3> QED BY <2>1, <3>1, Products
  <2>6. x + (u + P) =< (m + 1) * P
    <3> DEFINE b == (n + 1) * P
               c == (m + 1) * P
    <3>1. x + u =< b /\ b + P =< c /\ b \in Nat /\ c \in Nat
      BY <2>2, <2>3, <2>4, <2>5, <2>7
    <3> HIDE DEF b, c, P
    <3>2. x + (u + P) =< c
      BY <1>0, <3>1
    <3> QED BY <3>2 DEF c, P
  <2> QED BY <2>6 DEF m
<1>7. Late(lost, {u + P}, s, k, x)
  BY <1>5, <1>6 DEF Late
<1> QED BY <1>7 DEF s

\* With the losses bounded, and nothing on the way older than MaxDelay:
LEMMA LateEnds ==
  ASSUME NEW lost \in 0 .. MaxLosses, NEW due, NEW frames \in Seq(Frame), NEW k,
         NEW x \in Int, Late(lost, due, frames, k, x),
         \A i \in DOMAIN frames : frames[i].age =< MaxDelay
  PROVE  x =< LongestGap
<1>1. MaxDelay \in Nat /\ MaxLosses \in Nat /\ DroneGap \in Nat
  BY Constants
<1>2. Count(frames, k, MaxDelay + 1) = 0
  BY <1>1, CountNone
<1>3. lost \in Nat /\ lost =< MaxLosses /\ lost + 0 = lost
  BY <1>1
<1>4. /\ (lost + 1) * TelemetryPeriod \in Nat
      /\ (MaxLosses + 1) * TelemetryPeriod \in Nat
      /\ (lost + 1) * TelemetryPeriod =< (MaxLosses + 1) * TelemetryPeriod
  BY <1>1, <1>3, Products
<1>5. x =< MaxDelay + (lost + 0 + 1) * TelemetryPeriod + DroneGap - 1
  BY <1>1, <1>2 DEF Late
<1> DEFINE b == (lost + 1) * TelemetryPeriod
           c == (MaxLosses + 1) * TelemetryPeriod
<1>6. b \in Nat /\ c \in Nat /\ b =< c /\ x =< MaxDelay + b + DroneGap - 1
  BY <1>3, <1>4, <1>5
<1> HIDE DEF b, c
<1>7. x =< c + (DroneGap - 1) + MaxDelay
  BY <1>1, <1>6
<1> QED BY <1>7 DEF c, LongestGap

-----------------------------------------------------------------------------
(***************************************************************************)
(* The inductive invariant of the ages.  A frame is on the way no longer   *)
(* than MaxDelay, and waits for the tick of the station no longer than the *)
(* station needs to come by; what is shown of the last heartbeat is as old *)
(* as the monitor knows, but for that.                                     *)
(***************************************************************************)
waited == IF awake THEN StationGap ELSE sinceStation

LinkTypes ==
    /\ fault \in Faults
    /\ sinceTick \in 0 .. DroneGap /\ sinceStation \in 0 .. StationGap
    /\ untilDue \in SUBSET Int /\ \A u \in untilDue : untilDue = {u}
    /\ losses \in [Kinds -> 0 .. MaxLosses]
    /\ air \in Seq(Frame) /\ inbox \in Seq(Frame)
    /\ shown \in [Kinds -> SUBSET Nat]
    /\ awake => sinceStation = 0

AgeInv ==
    /\ \A i \in DOMAIN air : air[i].age =< MaxDelay
    /\ \A i \in DOMAIN inbox : inbox[i].age =< MaxDelay + waited

BeatInv ==
    /\ sinceHeartbeat = {} <=> shown["HEARTBEAT"] = {}
    /\ \A h \in sinceHeartbeat, t \in shown["HEARTBEAT"] :
          h < Forgotten => t =< h + MaxDelay + StationGap + sinceStation

AInv == LinkTypes /\ AgeInv /\ BeatInv

LEMMA CappedType ==
  ASSUME fault \in Faults, NEW k \in Kinds, NEW age \in Nat
  PROVE  capped(k, age) \in Nat /\ capped(k, age) =< age
<1>1. OldestFrame[fault][k] \in Nat
  BY LinkAssumption
<1> QED BY <1>1 DEF capped

LEMMA HeardType == GInv => /\ awake \in BOOLEAN
                           /\ sinceHeartbeat \in SUBSET Nat
                           /\ \A h \in sinceHeartbeat : sinceHeartbeat = {h}
  BY DEF GInv, TypeOK, optionalAge

LEMMA AgesInit == LinkInit => GInv /\ AInv
<1> SUFFICES ASSUME LinkInit PROVE GInv /\ AInv
  OBVIOUS
<1>1. GInv
  BY InitEstablishes DEF LinkInit
<1>2. LinkTypes
  <2>1. <<>> \in Seq(Frame) /\ awake = FALSE
    BY DEF LinkInit, Init
  <2>2. losses \in [Kinds -> 0 .. MaxLosses] /\ shown \in [Kinds -> SUBSET Nat]
    BY Constants DEF LinkInit
  <2>3. sinceTick \in 0 .. DroneGap /\ sinceStation \in 0 .. StationGap
    BY Constants DEF LinkInit
  <2> QED BY <2>1, <2>2, <2>3 DEF LinkInit, LinkTypes
<1>3. AgeInv
  BY DEF LinkInit, AgeInv
<1>4. BeatInv
  BY DEF LinkInit, Init, BeatInv, Kinds
<1> QED BY <1>1, <1>2, <1>3, <1>4 DEF AInv

LEMMA PassAges == GInv /\ AInv /\ Pass => GInv' /\ AInv'
<1> SUFFICES ASSUME GInv, AInv, Pass PROVE GInv' /\ AInv'
  OBVIOUS
<1> USE Constants
<1>1. /\ ~awake /\ ~overdue /\ untilDue' = {t - 1 : t \in untilDue}
      /\ sinceTick' = IF up THEN sinceTick + 1 ELSE 0
      /\ sinceStation' = sinceStation + 1
      /\ air' = older(air) /\ inbox' = older(inbox)
      /\ shown' = [k \in Kinds |-> {capped(k, t + 1) : t \in shown[k]}]
      /\ UNCHANGED <<up, fault, partitioned, losses, vars>>
  BY DEF Pass
<1>2. GInv'
  BY <1>1, GInductive
<1>3. awake' = awake /\ sinceHeartbeat' = sinceHeartbeat
  BY <1>1 DEF vars, link
<1>4. /\ (up => sinceTick < DroneGap) /\ sinceStation < StationGap
      /\ \A i \in DOMAIN air : air[i].age < MaxDelay
  <2>1. /\ ~(up /\ sinceTick >= DroneGap) /\ ~(sinceStation >= StationGap)
        /\ ~(\E i \in DOMAIN air : air[i].age >= MaxDelay)
    BY <1>1 DEF overdue
  <2>2. \A i \in DOMAIN air : air[i] \in Frame
    BY DEF AInv, LinkTypes
  <2> QED BY <2>1, <2>2 DEF AInv, LinkTypes, Frame
<1>5. /\ sinceTick' \in 0 .. DroneGap /\ sinceStation' \in 0 .. StationGap
  BY <1>1, <1>4 DEF AInv, LinkTypes
<1>6. untilDue' \in SUBSET Int /\ \A u \in untilDue' : untilDue' = {u}
  BY <1>1 DEF AInv, LinkTypes
<1>7. /\ air \in Seq(Frame) /\ inbox \in Seq(Frame)
      /\ air' \in Seq(Frame) /\ inbox' \in Seq(Frame)
      /\ DOMAIN air' = DOMAIN air /\ DOMAIN inbox' = DOMAIN inbox
      /\ \A i \in DOMAIN air : air[i].age \in Nat /\ air'[i].age = air[i].age + 1
      /\ \A i \in DOMAIN inbox :
            inbox[i].age \in Nat /\ inbox'[i].age = inbox[i].age + 1
  BY <1>1, OlderEntries DEF AInv, LinkTypes, Frame
<1>8. \A k \in Kinds : /\ shown[k] \in SUBSET Nat
                       /\ shown'[k] = {capped(k, t + 1) : t \in shown[k]}
                       /\ shown'[k] \in SUBSET Nat
  <2> SUFFICES ASSUME NEW k \in Kinds
               PROVE  /\ shown[k] \in SUBSET Nat
                      /\ shown'[k] = {capped(k, t + 1) : t \in shown[k]}
                      /\ shown'[k] \in SUBSET Nat
    OBVIOUS
  <2>1. /\ shown[k] \in SUBSET Nat /\ fault \in Faults
        /\ shown'[k] = {capped(k, t + 1) : t \in shown[k]}
    BY <1>1 DEF AInv, LinkTypes
  <2>2. \A t \in shown[k] : capped(k, t + 1) \in Nat
    BY <2>1, CappedType
  <2> QED BY <2>1, <2>2
<1>9. shown' \in [Kinds -> SUBSET Nat]
  BY <1>1, <1>8
<1>10. LinkTypes'
  BY <1>1, <1>3, <1>5, <1>6, <1>7, <1>9 DEF AInv, LinkTypes
<1>11. AgeInv'
  <2>1. ASSUME NEW i \in DOMAIN air' PROVE air'[i].age =< MaxDelay
    <3>1. /\ i \in DOMAIN air /\ air[i].age \in Nat /\ air[i].age < MaxDelay
          /\ air'[i].age = air[i].age + 1
      BY <1>4, <1>7, <2>1
    <3> QED BY <3>1
  <2>2. waited = sinceStation /\ waited' = sinceStation + 1 /\ sinceStation \in Nat
    BY <1>1, <1>3 DEF waited, AInv, LinkTypes
  <2>3. ASSUME NEW i \in DOMAIN inbox PROVE inbox'[i].age =< MaxDelay + waited'
    <3>1. inbox[i].age =< MaxDelay + sinceStation
      BY <2>2 DEF AInv, AgeInv
    <3> QED BY <1>7, <2>2, <3>1
  <2> QED BY <1>7, <2>1, <2>3 DEF AgeInv
<1>12. BeatInv'
  <2>0. "HEARTBEAT" \in Kinds
    BY DEF Kinds
  <2>1. sinceHeartbeat' = {} <=> shown'["HEARTBEAT"] = {}
    BY <1>3, <1>8, <2>0 DEF AInv, BeatInv
  <2>2. ASSUME NEW h \in sinceHeartbeat, NEW t \in shown'["HEARTBEAT"], h < Forgotten
        PROVE  t =< h + MaxDelay + StationGap + sinceStation'
    <3>1. PICK v \in shown["HEARTBEAT"] : t = capped("HEARTBEAT", v + 1)
      BY <1>8, <2>0
    <3>2. v \in Nat /\ v + 1 \in Nat /\ fault \in Faults
      BY <1>8, <2>0 DEF AInv, LinkTypes
    <3>3. t \in Nat /\ t =< v + 1
      BY <2>0, <3>1, <3>2, CappedType
    <3>4. v =< h + MaxDelay + StationGap + sinceStation
      BY <2>2 DEF AInv, BeatInv
    <3>5. h \in Nat /\ sinceStation \in Nat
      BY HeardType DEF AInv, LinkTypes
    <3> QED BY <1>1, <3>2, <3>3, <3>4, <3>5
  <2> QED BY <1>3, <2>1, <2>2 DEF BeatInv
<1> QED BY <1>2, <1>10, <1>11, <1>12 DEF AInv

\* Steps of the drone and of the link leave the station as it is.
LEMMA DroneAges == GInv /\ AInv /\ DroneTick => GInv' /\ AInv'
<1> SUFFICES ASSUME GInv, AInv, DroneTick PROVE GInv' /\ AInv'
  OBVIOUS
<1> USE Constants
<1>1. /\ sinceTick' = 0
      /\ UNCHANGED <<up, fault, partitioned, losses, vars, inbox, shown, sinceStation>>
  BY DEF DroneTick, station
<1>2. /\ awake' = awake /\ sinceHeartbeat' = sinceHeartbeat
  BY <1>1 DEF vars, link
<1>3. GInv'
  BY <1>1, GInductive
<1>4. PICK deadline \in IF untilDue = {} THEN {0} ELSE untilDue :
        \/ /\ untilDue' = {reschedule(deadline, 0)}
           /\ air' = air \o published
        \/ untilDue' = {deadline} /\ air' = air
  BY DEF DroneTick
<1>5. deadline \in Int
  BY DEF AInv, LinkTypes
<1>6. reschedule(deadline, 0) \in Int
  BY <1>5 DEF reschedule
<1>7. untilDue' \in SUBSET Int /\ \A u \in untilDue' : untilDue' = {u}
  BY <1>4, <1>5, <1>6
<1>8. /\ air \in Seq(Frame) /\ (\A i \in DOMAIN air : air[i].age =< MaxDelay)
  BY DEF AInv, LinkTypes, AgeInv
<1>9. air' \in Seq(Frame) /\ \A i \in DOMAIN air' : air'[i].age =< MaxDelay
  <2> DEFINE f == [kind |-> "HEARTBEAT", age |-> 0]
             g == [kind |-> "LOCAL_POSITION_NED", age |-> 0]
             r == Append(air, f)
  <2>1. f \in Frame /\ g \in Frame /\ f.age =< MaxDelay /\ g.age =< MaxDelay
    BY DEF Frame, Kinds
  <2>2. /\ r \in Seq(Frame) /\ DOMAIN r = 1 .. Len(air) + 1 /\ r[Len(air) + 1] = f
        /\ (\A j \in DOMAIN air : r[j] = air[j]) /\ DOMAIN air = 1 .. Len(air)
        /\ Len(air) \in Nat
    BY <1>8, <2>1, AppendEntries
  <2>3. air \o published = Append(r, g)
    BY <1>8, <2>1 DEF published
  <2> HIDE DEF r, f, g
  <2>4. \A j \in DOMAIN r : j = Len(air) + 1 \/ j \in DOMAIN air
    BY <2>2
  <2>5. \A j \in DOMAIN r : r[j].age =< MaxDelay
    BY <1>8, <2>1, <2>2, <2>4
  <2> DEFINE q == Append(r, g)
  <2>6. /\ q \in Seq(Frame) /\ DOMAIN q = 1 .. Len(r) + 1 /\ q[Len(r) + 1] = g
        /\ (\A j \in DOMAIN r : q[j] = r[j]) /\ DOMAIN r = 1 .. Len(r)
        /\ Len(r) \in Nat
    BY <2>1, <2>2, AppendEntries
  <2> HIDE DEF q
  <2>7. \A j \in DOMAIN q : j = Len(r) + 1 \/ j \in DOMAIN r
    BY <2>6
  <2>8. \A j \in DOMAIN q : q[j].age =< MaxDelay
    BY <2>1, <2>5, <2>6, <2>7
  <2>9. CASE air' = air \o published
    BY <2>3, <2>6, <2>8, <2>9 DEF q
  <2>10. CASE air' = air
    BY <1>8, <2>10
  <2> QED BY <1>4, <2>9, <2>10
<1>10. LinkTypes'
  BY <1>1, <1>2, <1>7, <1>9 DEF AInv, LinkTypes
<1>11. AgeInv'
  BY <1>1, <1>2, <1>9 DEF AInv, AgeInv, waited
<1>12. BeatInv'
  BY <1>1, <1>2 DEF AInv, BeatInv
<1> QED BY <1>3, <1>10, <1>11, <1>12 DEF AInv

LEMMA DeliverAges == GInv /\ AInv /\ Deliver => GInv' /\ AInv'
<1> SUFFICES ASSUME GInv, AInv, NEW i \in DOMAIN air, Arrive(i) \/ Lose(i)
             PROVE  GInv' /\ AInv'
  BY DEF Deliver
<1> USE Constants
<1>1. /\ ~awake /\ air' = RemoveAt(air, i)
      /\ UNCHANGED <<up, untilDue, sinceTick, fault, vars, shown, sinceStation>>
      /\ inbox' = inbox \/ inbox' = Append(inbox, air[i])
      /\ \/ losses' = losses
         \/ losses' = [losses EXCEPT ![air[i].kind] = 0]
         \/ /\ losses[air[i].kind] < MaxLosses
            /\ losses' = [losses EXCEPT ![air[i].kind] = losses[air[i].kind] + 1]
  BY DEF Arrive, Lose, drone, station
<1>2. awake' = awake /\ sinceHeartbeat' = sinceHeartbeat
  BY <1>1 DEF vars, link
<1>3. GInv'
  BY <1>1, GInductive
<1>4. /\ air \in Seq(Frame) /\ inbox \in Seq(Frame) /\ air[i] \in Frame
      /\ \A j \in DOMAIN air : air[j].age =< MaxDelay
  BY DEF AInv, LinkTypes, AgeInv
<1>5. /\ air' \in Seq(Frame)
      /\ \A j \in DOMAIN air' : \E m \in DOMAIN air : air'[j] = air[m]
  BY <1>1, <1>4, RemoveEntries, RemoveAmong
<1>6. waited' = sinceStation /\ waited = sinceStation /\ sinceStation \in Nat
  BY <1>1, <1>2 DEF waited, AInv, LinkTypes
<1>7. /\ inbox' \in Seq(Frame)
      /\ \A j \in DOMAIN inbox' : inbox'[j].age =< MaxDelay + sinceStation
  <2>1. \A j \in DOMAIN inbox : inbox[j].age =< MaxDelay + sinceStation
    BY <1>6 DEF AInv, AgeInv
  <2>2. CASE inbox' = inbox
    BY <1>4, <2>1, <2>2
  <2>3. CASE inbox' = Append(inbox, air[i])
    <3>1. /\ inbox' \in Seq(Frame) /\ DOMAIN inbox' = 1 .. Len(inbox) + 1
          /\ DOMAIN inbox = 1 .. Len(inbox) /\ Len(inbox) \in Nat
          /\ inbox'[Len(inbox) + 1] = air[i]
          /\ \A j \in DOMAIN inbox : inbox'[j] = inbox[j]
      BY <1>4, <2>3, AppendEntries
    <3>2. \A j \in DOMAIN inbox' : j = Len(inbox) + 1 \/ j \in DOMAIN inbox
      BY <3>1
    <3>3. air[i].age =< MaxDelay + sinceStation
      BY <1>4, <1>6 DEF Frame
    <3> QED BY <2>1, <3>1, <3>2, <3>3
  <2> QED BY <1>1, <2>2, <2>3
<1>8. losses' \in [Kinds -> 0 .. MaxLosses]
  <2>1. air[i].kind \in Kinds /\ losses \in [Kinds -> 0 .. MaxLosses]
    BY <1>4 DEF Frame, AInv, LinkTypes
  <2>2. 0 \in 0 .. MaxLosses
    OBVIOUS
  <2>3. losses[air[i].kind] < MaxLosses => losses[air[i].kind] + 1 \in 0 .. MaxLosses
    BY <2>1
  <2> QED BY <1>1, <2>1, <2>2, <2>3
<1>9. LinkTypes'
  BY <1>1, <1>2, <1>5, <1>7, <1>8 DEF AInv, LinkTypes
<1>10. AgeInv'
  BY <1>4, <1>5, <1>6, <1>7 DEF AgeInv
<1>11. BeatInv'
  BY <1>1, <1>2 DEF AInv, BeatInv
<1> QED BY <1>3, <1>9, <1>10, <1>11 DEF AInv

\* Crashes and outages make nothing older.
LEMMA OutageAges == GInv /\ AInv /\ (Partition \/ Crash \/ Restart) => GInv' /\ AInv'
<1> SUFFICES ASSUME GInv, AInv, Partition \/ Crash \/ Restart PROVE GInv' /\ AInv'
  OBVIOUS
<1>1. /\ UNCHANGED <<fault, losses, air, vars, inbox, shown, sinceStation>>
      /\ untilDue' = untilDue \/ untilDue' = {}
      /\ sinceTick' = sinceTick \/ sinceTick' = 0
  BY DEF Partition, Crash, Restart, drone, network, station
<1>2. awake' = awake /\ sinceHeartbeat' = sinceHeartbeat
  BY <1>1 DEF vars, link
<1>3. GInv'
  BY <1>1, GInductive
<1>4. LinkTypes'
  <2>1. untilDue' \in SUBSET Int /\ \A u \in untilDue' : untilDue' = {u}
    BY <1>1 DEF AInv, LinkTypes
  <2>2. sinceTick' \in 0 .. DroneGap
    BY <1>1, Constants DEF AInv, LinkTypes
  <2> QED BY <1>1, <1>2, <2>1, <2>2 DEF AInv, LinkTypes
<1>5. AgeInv' /\ BeatInv'
  BY <1>1, <1>2 DEF AInv, AgeInv, BeatInv, waited
<1> QED BY <1>3, <1>4, <1>5 DEF AInv

LEMMA TickAges == GInv /\ AInv /\ StationTick => GInv' /\ AInv'
<1> SUFFICES ASSUME GInv, AInv, StationTick PROVE GInv' /\ AInv'
  OBVIOUS
<1> USE Constants
<1>1. /\ WakeUp(sinceStation) /\ ~awake /\ awake' /\ sinceStation' = 0
      /\ sinceHeartbeat' = aged(sinceHeartbeat, sinceStation)
      /\ UNCHANGED <<inbox, shown, up, untilDue, sinceTick, fault, partitioned,
                     losses, air>>
  BY DEF StationTick, WakeUp, drone, network
<1>2. sinceStation \in Nat /\ sinceStation =< StationGap
  BY DEF AInv, LinkTypes
<1>3. GInv'
  BY <1>1, <1>2, WakeUpKeeps
<1>4. LinkTypes'
  BY <1>1 DEF AInv, LinkTypes
<1>5. AgeInv'
  <2>1. waited = sinceStation /\ waited' = StationGap
    BY <1>1 DEF waited
  <2>2. ASSUME NEW i \in DOMAIN inbox PROVE inbox[i].age =< MaxDelay + StationGap
    <3>1. inbox[i] \in Frame /\ inbox[i].age =< MaxDelay + sinceStation
      BY <2>1 DEF AInv, LinkTypes, AgeInv
    <3> QED BY <1>2, <3>1 DEF Frame
  <2> QED BY <1>1, <2>1, <2>2 DEF AInv, AgeInv
<1>6. BeatInv'
  <2>1. sinceHeartbeat' = {} <=> sinceHeartbeat = {}
    BY <1>1, <1>2, AgedType DEF GInv, TypeOK
  <2>2. ASSUME NEW h \in sinceHeartbeat', NEW t \in shown["HEARTBEAT"], h < Forgotten
        PROVE  t =< h + MaxDelay + StationGap + 0
    <3>1. PICK o \in sinceHeartbeat :
             h = IF o + sinceStation > Forgotten THEN Forgotten ELSE o + sinceStation
      BY <1>1 DEF aged
    <3>2. o \in Nat
      BY HeardType
    <3>3. h = o + sinceStation /\ o < Forgotten
      BY <1>2, <2>2, <3>1, <3>2
    <3>4. t =< o + MaxDelay + StationGap + sinceStation /\ t \in Nat
      BY <3>3 DEF AInv, BeatInv, LinkTypes, Kinds
    <3> QED BY <1>2, <3>2, <3>3, <3>4
  <2> QED BY <1>1, <2>1, <2>2 DEF AInv, BeatInv
<1> QED BY <1>3, <1>4, <1>5, <1>6 DEF AInv

\* What a frame does to the station.
LEMMA HandleEffect ==
  ASSUME GInv, AInv, Handle
  PROVE  /\ awake /\ awake' = awake /\ inbox # <<>> /\ inbox' = Tail(inbox)
         /\ Head(inbox) \in Frame /\ Head(inbox) = inbox[1] /\ 1 \in DOMAIN inbox
         /\ shown' = [shown EXCEPT ![Head(inbox).kind] =
                         {capped(Head(inbox).kind, Head(inbox).age)}]
         /\ sinceHeartbeat' = IF Head(inbox).kind = "HEARTBEAT" THEN {0}
                                                                ELSE sinceHeartbeat
         /\ UNCHANGED <<sinceStation, up, untilDue, sinceTick, fault, partitioned,
                        losses, air>>
         /\ GInv'
<1>1. \/ Head(inbox).kind = "HEARTBEAT" /\ \E status \in Statuses : Heartbeat(status)
      \/ /\ Head(inbox).kind = "LOCAL_POSITION_NED"
         /\ \E position \in Positions : Position(position)
  BY DEF Handle
<1>2. GInv'
  BY <1>1, FrameKeeps
<1>3. awake /\ awake' = awake
  BY <1>1 DEF Heartbeat, Position
<1>4. sinceHeartbeat' = IF Head(inbox).kind = "HEARTBEAT" THEN {0} ELSE sinceHeartbeat
  BY <1>1 DEF Heartbeat, Position
<1>5. inbox \in Seq(Frame) /\ inbox # <<>>
  BY DEF AInv, LinkTypes, Handle
<1>6. Head(inbox) \in Frame /\ Head(inbox) = inbox[1] /\ 1 \in DOMAIN inbox
  BY <1>5, TailEntries
<1> QED BY <1>2, <1>3, <1>4, <1>5, <1>6 DEF Handle, drone, network

LEMMA HandleAges == GInv /\ AInv /\ Handle => GInv' /\ AInv'
<1> SUFFICES ASSUME GInv, AInv, Handle PROVE GInv' /\ AInv'
  OBVIOUS
<1> USE Constants
<1> DEFINE f == Head(inbox)
           c == capped(f.kind, f.age)
<1>1. /\ awake /\ awake' = awake /\ inbox # <<>> /\ inbox' = Tail(inbox)
      /\ f \in Frame /\ f = inbox[1] /\ 1 \in DOMAIN inbox
      /\ shown' = [shown EXCEPT ![f.kind] = {c}]
      /\ sinceHeartbeat' = IF f.kind = "HEARTBEAT" THEN {0} ELSE sinceHeartbeat
      /\ UNCHANGED <<sinceStation, up, untilDue, sinceTick, fault, partitioned,
                     losses, air>>
      /\ GInv'
  BY HandleEffect
<1>2. /\ f.kind \in Kinds /\ f.age \in Nat /\ f.age =< MaxDelay + StationGap
  BY <1>1 DEF Frame, AInv, AgeInv, waited
<1>3. c \in Nat /\ c =< MaxDelay + StationGap
  <2>1. fault \in Faults
    BY DEF AInv, LinkTypes
  <2>2. c \in Nat /\ c =< f.age
    BY <1>2, <2>1, CappedType
  <2> HIDE DEF c, f
  <2> QED BY <1>2, <2>2
<1> HIDE DEF c, f
<1>4. /\ inbox \in Seq(Frame) /\ inbox' \in Seq(Frame)
      /\ \A j \in DOMAIN inbox' : j + 1 \in DOMAIN inbox /\ inbox'[j] = inbox[j + 1]
  <2>1. inbox \in Seq(Frame) /\ inbox # <<>>
    BY <1>1 DEF AInv, LinkTypes
  <2> QED BY <1>1, <2>1, TailEntries
<1>5. shown' \in [Kinds -> SUBSET Nat]
  BY <1>1, <1>2, <1>3 DEF AInv, LinkTypes
<1>6. LinkTypes'
  BY <1>1, <1>4, <1>5 DEF AInv, LinkTypes
<1>7. AgeInv'
  BY <1>1, <1>4 DEF AInv, AgeInv, waited
<1>8. BeatInv'
  <2>1. shown \in [Kinds -> SUBSET Nat] /\ sinceStation = 0 /\ "HEARTBEAT" \in Kinds
    BY <1>1 DEF AInv, LinkTypes, Kinds
  <2>2. CASE f.kind = "HEARTBEAT"
    <3>1. shown'["HEARTBEAT"] = {c} /\ sinceHeartbeat' = {0}
      BY <1>1, <2>1, <2>2
    <3>2. c =< 0 + MaxDelay + StationGap + sinceStation'
      BY <1>1, <1>3, <2>1
    <3> QED BY <3>1, <3>2 DEF BeatInv
  <2>3. CASE f.kind # "HEARTBEAT"
    <3>1. /\ shown'["HEARTBEAT"] = shown["HEARTBEAT"]
          /\ sinceHeartbeat' = sinceHeartbeat /\ sinceStation' = sinceStation
      BY <1>1, <2>1, <2>3
    <3> QED BY <3>1 DEF AInv, BeatInv
  <2> QED BY <2>2, <2>3
<1> QED BY <1>1, <1>6, <1>7, <1>8 DEF AInv

LEMMA EndTickAges == GInv /\ AInv /\ EndTick => GInv' /\ AInv'
<1> SUFFICES ASSUME GInv, AInv, EndTick PROVE GInv' /\ AInv'
  OBVIOUS
<1>1. /\ Update /\ inbox = <<>> /\ ~awake'
      /\ sinceHeartbeat' = sinceHeartbeat
      /\ UNCHANGED <<inbox, shown, sinceStation, up, untilDue, sinceTick, fault,
                     partitioned, losses, air>>
  BY DEF EndTick, Update, drone, network
<1>2. GInv'
  BY <1>1, UpdateKeeps
<1>3. LinkTypes'
  BY <1>1 DEF AInv, LinkTypes
<1>4. AgeInv' /\ BeatInv'
  BY <1>1 DEF AInv, AgeInv, BeatInv
<1> QED BY <1>2, <1>3, <1>4 DEF AInv

LEMMA AgesInductive == GInv /\ AInv /\ [LinkNext]_linkVars => GInv' /\ AInv'
<1> SUFFICES ASSUME GInv, AInv, [LinkNext]_linkVars PROVE GInv' /\ AInv'
  OBVIOUS
<1>1. CASE UNCHANGED linkVars
  <2>1. /\ UNCHANGED <<fault, losses, air, vars, inbox, shown, sinceStation,
                       untilDue, sinceTick>>
        /\ awake' = awake /\ sinceHeartbeat' = sinceHeartbeat
    BY <1>1 DEF linkVars, drone, network, station, vars, link
  <2>2. GInv'
    BY <2>1, GInductive
  <2> QED BY <2>1, <2>2 DEF AInv, LinkTypes, AgeInv, BeatInv, waited
<1> QED
  BY <1>1, PassAges, DroneAges, DeliverAges, OutageAges, TickAges, HandleAges,
     EndTickAges DEF LinkNext, Station

LEMMA AgesInvariance == LinkSpec => [](GInv /\ AInv)
  BY AgesInit, AgesInductive, PTL DEF LinkSpec

-----------------------------------------------------------------------------
(***************************************************************************)
(* The inductive invariant of a link that loses single frames.  The        *)
(* schedule is armed before anything is shown, and never late by a period; *)
(* no arrival is longer ago than its gap allows; and what is shown, while  *)
(* its successor waits for the station, is not much older.                 *)
(***************************************************************************)
ScheduleInv ==
    fault = "losses" =>
        /\ up /\ ~partitioned
        /\ untilDue = {} => /\ DOMAIN air = {} /\ DOMAIN inbox = {}
                            /\ \A k \in Kinds : shown[k] = {}
        /\ \A u \in untilDue : u =< TelemetryPeriod /\ u + sinceTick >= 1

Newest(i) == \A j \in DOMAIN inbox : j > i => inbox[j].kind # inbox[i].kind

\* The last arrival of a kind is x ago or longer, as a frame in the inbox tells by
\* its age, or, if there is none, what is shown, or what the monitor knows.
Elapsed(k, x) ==
    \/ \E i \in DOMAIN inbox :
          inbox[i].kind = k /\ Newest(i) /\ x = inbox[i].age - MaxDelay
    \/ None(inbox, k) /\ \E t \in shown[k] : x = t - MaxDelay
    \/ /\ None(inbox, k) /\ k = "HEARTBEAT"
       /\ \E h \in sinceHeartbeat : x = h + sinceStation

ArrivalInv ==
    fault = "losses" =>
        \A k \in Kinds, x \in Int :
            Elapsed(k, x) => Late(losses[k], untilDue, air, k, x)

ShownInv ==
    fault = "losses" =>
        \A k \in Kinds : \A t \in shown[k] : t =< MaxDelay + LongestGap + waited

LInv == ScheduleInv /\ ArrivalInv /\ ShownInv

LEMMA LossesInit == LinkInit => LInv
<1> SUFFICES ASSUME LinkInit PROVE LInv
  OBVIOUS
<1>1. /\ up /\ ~partitioned /\ untilDue = {} /\ air = <<>> /\ inbox = <<>>
      /\ shown = [k \in Kinds |-> {}] /\ sinceHeartbeat = {}
  BY DEF LinkInit, Init
<1>2. DOMAIN air = {} /\ DOMAIN inbox = {}
  BY <1>1
<1>3. \A k \in Kinds : shown[k] = {}
  BY <1>1
<1>4. \A k \in Kinds, x \in Int : ~Elapsed(k, x)
  BY <1>1, <1>2, <1>3 DEF Elapsed
<1>5. ScheduleInv
  BY <1>1, <1>2, <1>3 DEF ScheduleInv
<1> QED BY <1>3, <1>4, <1>5 DEF LInv, ArrivalInv, ShownInv

LEMMA LossesTypes ==
  ASSUME AInv, NEW k \in Kinds
  PROVE  /\ losses[k] \in Nat /\ losses[k] \in 0 .. MaxLosses
         /\ untilDue \in SUBSET Int /\ air \in Seq(Frame)
  BY Constants DEF AInv, LinkTypes

\* Before the first publication nothing has arrived.
LEMMA NothingElapsed ==
  ASSUME AInv, ScheduleInv, fault = "losses", untilDue = {}, NEW k \in Kinds, NEW x
  PROVE  ~Elapsed(k, x)
<1>1. DOMAIN inbox = {} /\ shown[k] = {} /\ shown["HEARTBEAT"] = {}
  BY DEF ScheduleInv, Kinds
<1>2. sinceHeartbeat = {}
  BY <1>1 DEF AInv, BeatInv
<1> QED BY <1>1, <1>2 DEF Elapsed

LEMMA LateLess ==
  ASSUME AInv, NEW k \in Kinds, NEW x \in Int, NEW y \in Int, x =< y,
         Late(losses[k], untilDue, air, k, y)
  PROVE  Late(losses[k], untilDue, air, k, x)
<1>1. /\ losses[k] \in Nat /\ untilDue \in SUBSET Int /\ air \in Seq(Frame)
  BY LossesTypes
<1>2. \A a \in Nat : losses[k] + Count(air, k, a) =< losses[k] + Count(air, k, a)
  BY <1>1, CountType
<1> QED BY <1>1, <1>2, LateGrows

LEMMA ElapsedBound ==
  ASSUME AInv, LInv, fault = "losses", NEW k \in Kinds, NEW x \in Int, Elapsed(k, x)
  PROVE  x =< LongestGap
<1>1. /\ losses[k] \in 0 .. MaxLosses /\ air \in Seq(Frame)
      /\ \A i \in DOMAIN air : air[i].age =< MaxDelay
  BY LossesTypes DEF AInv, AgeInv
<1>2. Late(losses[k], untilDue, air, k, x)
  BY DEF LInv, ArrivalInv
<1> QED BY <1>1, <1>2, LateEnds

LEMMA PassElapsed ==
  ASSUME GInv, AInv, Pass, NEW k \in Kinds, NEW x \in Int, Elapsed(k, x)'
  PROVE  \E y \in Int : Elapsed(k, y) /\ x =< y + 1
<1>1. /\ sinceStation' = sinceStation + 1 /\ inbox' = older(inbox)
      /\ shown' = [m \in Kinds |-> {capped(m, t + 1) : t \in shown[m]}]
      /\ sinceHeartbeat' = sinceHeartbeat
  BY DEF Pass, vars, link
<1>2. /\ MaxDelay \in Nat /\ sinceStation \in Nat /\ fault \in Faults
      /\ inbox \in Seq(Frame) /\ shown[k] \in SUBSET Nat
  BY Constants DEF AInv, LinkTypes
<1>3. /\ DOMAIN inbox' = DOMAIN inbox
      /\ \A i \in DOMAIN inbox : /\ inbox[i].age \in Nat
                                 /\ inbox'[i].kind = inbox[i].kind
                                 /\ inbox'[i].age = inbox[i].age + 1
  BY <1>1, <1>2, OlderEntries DEF Frame
<1>4. None(inbox', k) => None(inbox, k)
  BY <1>3 DEF None
<1>5. ASSUME NEW i \in DOMAIN inbox', inbox'[i].kind = k, Newest(i)',
             x = inbox'[i].age - MaxDelay
      PROVE  \E y \in Int : Elapsed(k, y) /\ x =< y + 1
  <2>1. i \in DOMAIN inbox /\ inbox[i].kind = k /\ Newest(i)
    BY <1>3, <1>5 DEF Newest
  <2>2. /\ inbox[i].age - MaxDelay \in Int
        /\ x =< (inbox[i].age - MaxDelay) + 1
    <3>1. inbox[i].age \in Nat /\ inbox'[i].age = inbox[i].age + 1
      BY <1>3, <2>1
    <3> QED BY <1>2, <1>5, <3>1
  <2>3. Elapsed(k, inbox[i].age - MaxDelay)
    BY <2>1 DEF Elapsed
  <2> QED BY <2>2, <2>3
<1>6. ASSUME None(inbox', k), NEW t \in shown'[k], x = t - MaxDelay
      PROVE  \E y \in Int : Elapsed(k, y) /\ x =< y + 1
  <2>1. PICK v \in shown[k] : t = capped(k, v + 1)
    BY <1>1, <1>6
  <2>2. v \in Nat /\ t \in Nat /\ t =< v + 1
    BY <1>2, <2>1, CappedType
  <2>3. Elapsed(k, v - MaxDelay)
    BY <1>4, <1>6 DEF Elapsed
  <2>4. v - MaxDelay \in Int /\ x =< (v - MaxDelay) + 1
    BY <1>2, <1>6, <2>2
  <2> QED BY <2>3, <2>4
<1>7. ASSUME None(inbox', k), k = "HEARTBEAT", NEW h \in sinceHeartbeat',
             x = h + sinceStation'
      PROVE  \E y \in Int : Elapsed(k, y) /\ x =< y + 1
  <2>1. Elapsed(k, h + sinceStation)
    BY <1>1, <1>4, <1>7 DEF Elapsed
  <2>2. h \in Nat
    BY <1>1, HeardType
  <2>3. h + sinceStation \in Int /\ x =< (h + sinceStation) + 1
    BY <1>1, <1>2, <1>7, <2>2
  <2> QED BY <2>1, <2>3
<1> QED BY <1>5, <1>6, <1>7 DEF Elapsed

LEMMA PassLosses ==
  ASSUME GInv, AInv, LInv, AInv', Pass
  PROVE  LInv'
<1> USE Constants
<1>1. fault' = fault
  BY DEF Pass
<1> SUFFICES ASSUME fault = "losses" PROVE LInv'
  BY <1>1 DEF LInv, ScheduleInv, ArrivalInv, ShownInv
<1>2. /\ up /\ ~partitioned /\ ~awake
      /\ untilDue = {} => /\ DOMAIN air = {} /\ DOMAIN inbox = {}
                          /\ \A k \in Kinds : shown[k] = {}
      /\ \A u \in untilDue : u =< TelemetryPeriod /\ u + sinceTick >= 1
  BY DEF LInv, ScheduleInv, Pass
<1>3. /\ sinceTick < DroneGap /\ sinceTick' = sinceTick + 1
      /\ sinceTick \in Nat
  <2>1. ~(up /\ sinceTick >= DroneGap)
    BY DEF Pass, overdue
  <2> QED BY <1>2, <2>1 DEF Pass, AInv, LinkTypes
<1>4. /\ UNCHANGED <<up, partitioned, losses, awake>>
      /\ untilDue' = {t - 1 : t \in untilDue}
      /\ air' = older(air) /\ inbox' = older(inbox)
      /\ shown' = [k \in Kinds |-> {capped(k, t + 1) : t \in shown[k]}]
      /\ sinceStation' = sinceStation + 1
  BY DEF Pass, vars
<1>5. ScheduleInv'
  <2>1. DOMAIN air' = DOMAIN air /\ DOMAIN inbox' = DOMAIN inbox
    BY <1>4, OlderEntries DEF AInv, LinkTypes
  <2>2. untilDue' = {} => untilDue = {}
    BY <1>4
  <2>3. \A k \in Kinds : shown[k] = {} => shown'[k] = {}
    BY <1>4
  <2>4. ASSUME NEW v \in untilDue'
        PROVE  v =< TelemetryPeriod /\ v + sinceTick' >= 1
    <3>1. PICK u \in untilDue : v = u - 1
      BY <1>4
    <3>2. u \in Int /\ u =< TelemetryPeriod /\ u + sinceTick >= 1
      BY <1>2 DEF AInv, LinkTypes
    <3> QED BY <1>3, <3>1, <3>2
  <2> QED BY <1>2, <1>4, <2>1, <2>2, <2>3, <2>4 DEF ScheduleInv
<1>6. ASSUME NEW k \in Kinds, NEW x \in Int, Elapsed(k, x)'
      PROVE  Late(losses'[k], untilDue', air', k, x)
  <2>1. PICK y \in Int : Elapsed(k, y) /\ x =< y + 1
    BY <1>6, PassElapsed
  <2>2. untilDue # {}
    BY <2>1, NothingElapsed DEF LInv
  <2>3. PICK u \in untilDue : untilDue = {u} /\ u \in Int
    BY <2>2 DEF AInv, LinkTypes
  <2>4. u + DroneGap >= 2
    <3>1. u + sinceTick >= 1
      BY <1>2
    <3> QED BY <1>3, <2>3, <3>1
  <2>5. Late(losses[k], {u}, air, k, y)
    BY <2>1, <2>3 DEF LInv, ArrivalInv
  <2>6. losses[k] \in Nat /\ air \in Seq(Frame)
    BY LossesTypes
  <2>7. Late(losses[k], {u - 1}, older(air), k, y + 1)
    BY <2>3, <2>4, <2>5, <2>6, LatePass
  <2>8. untilDue' = {u - 1}
    BY <1>4, <2>3
  <2>9. Late(losses'[k], untilDue', air', k, y + 1)
    BY <1>4, <2>7, <2>8
  <2>10. y + 1 \in Int
    OBVIOUS
  <2> QED
    <3>1. /\ losses'[k] \in Nat /\ untilDue' \in SUBSET Int /\ air' \in Seq(Frame)
      BY DEF AInv, LinkTypes
    <3>2. \A a \in Nat : losses'[k] + Count(air', k, a) =< losses'[k] + Count(air', k, a)
      BY <3>1, CountType
    <3> QED BY <2>1, <2>9, <2>10, <3>1, <3>2, LateGrows
<1>7. ASSUME NEW k \in Kinds, NEW t \in shown'[k]
      PROVE  t =< MaxDelay + LongestGap + waited'
  <2>1. PICK v \in shown[k] : t = capped(k, v + 1)
    BY <1>4, <1>7
  <2>2. v \in Nat /\ fault \in Faults /\ sinceStation \in Nat
    BY DEF AInv, LinkTypes
  <2>3. v + 1 \in Nat
    BY <2>2
  <2>4. t \in Nat /\ t =< v + 1
    BY <2>1, <2>2, <2>3, CappedType
  <2>5. waited = sinceStation /\ waited' = sinceStation + 1
    BY <1>2, <1>4 DEF waited
  <2>6. v =< MaxDelay + LongestGap + waited
    BY DEF LInv, ShownInv
  <2> QED BY <2>2, <2>4, <2>5, <2>6
<1> QED BY <1>5, <1>6, <1>7 DEF LInv, ArrivalInv, ShownInv

LEMMA DroneLosses ==
  ASSUME GInv, AInv, LInv, DroneTick
  PROVE  LInv'
<1> USE Constants
<1>1. /\ UNCHANGED <<up, fault, partitioned, losses, vars, inbox, shown, sinceStation>>
      /\ awake' = awake /\ sinceHeartbeat' = sinceHeartbeat /\ sinceTick' = 0
  BY DEF DroneTick, station, vars, link
<1> SUFFICES ASSUME fault = "losses" PROVE LInv'
  BY <1>1 DEF LInv, ScheduleInv, ArrivalInv, ShownInv
<1>2. /\ up /\ ~partitioned
      /\ \A u \in untilDue : u =< TelemetryPeriod /\ u + sinceTick >= 1
  BY DEF LInv, ScheduleInv
<1>3. \A k, x : Elapsed(k, x)' <=> Elapsed(k, x)
  BY <1>1 DEF Elapsed, Newest, None
<1>4. ShownInv'
  BY <1>1 DEF LInv, ShownInv, waited
<1>5. PICK deadline \in IF untilDue = {} THEN {0} ELSE untilDue :
        \/ /\ isDue(deadline, 0)
           /\ untilDue' = {reschedule(deadline, 0)}
           /\ air' = air \o published
        \/ ~isDue(deadline, 0) /\ untilDue' = {deadline} /\ air' = air
  BY DEF DroneTick
<1>6. /\ deadline \in Int /\ deadline =< TelemetryPeriod
      /\ deadline + TelemetryPeriod >= 1
      /\ untilDue = {} => deadline = 0
      /\ untilDue # {} => untilDue = {deadline}
  <2>1. CASE untilDue = {}
    BY <1>5, <2>1
  <2>2. CASE untilDue # {}
    <3>1. deadline \in untilDue /\ untilDue = {deadline} /\ deadline \in Int
      BY <1>5, <2>2 DEF AInv, LinkTypes
    <3>2. sinceTick \in Nat /\ sinceTick =< DroneGap
      BY DEF AInv, LinkTypes
    <3>3. deadline =< TelemetryPeriod /\ deadline + sinceTick >= 1
      BY <1>2, <3>1
    <3> QED BY <2>2, <3>1, <3>2, <3>3
  <2> QED BY <2>1, <2>2
<1>7. CASE /\ isDue(deadline, 0) /\ untilDue' = {reschedule(deadline, 0)}
           /\ air' = air \o published
  <2>1. reschedule(deadline, 0) = deadline + TelemetryPeriod /\ deadline =< 0
    BY <1>6, <1>7 DEF reschedule, isDue
  <2>2. ScheduleInv'
    BY <1>1, <1>2, <1>6, <1>7, <2>1 DEF ScheduleInv
  <2>3. ASSUME NEW k \in Kinds, NEW x \in Int, Elapsed(k, x)
        PROVE  Late(losses'[k], untilDue', air', k, x)
    <3>1. untilDue = {deadline}
      BY <1>6, <2>3, NothingElapsed DEF LInv
    <3>2. Late(losses[k], {deadline}, air, k, x)
      BY <2>3, <3>1 DEF LInv, ArrivalInv
    <3>3. losses[k] \in Nat /\ air \in Seq(Frame)
      BY LossesTypes
    <3>4. Late(losses[k], {deadline + TelemetryPeriod}, air \o published, k, x)
      BY <1>6, <3>2, <3>3, LatePublished
    <3> QED BY <1>1, <1>7, <2>1, <3>4
  <2> QED BY <1>3, <1>4, <2>2, <2>3 DEF LInv, ArrivalInv
<1>8. CASE ~isDue(deadline, 0) /\ untilDue' = {deadline} /\ air' = air
  <2>1. deadline > 0
    BY <1>6, <1>8 DEF isDue
  <2>2. untilDue' = untilDue /\ untilDue # {}
    BY <1>6, <1>8, <2>1
  <2>3. ScheduleInv'
    BY <1>1, <1>2, <1>6, <1>8, <2>1, <2>2 DEF ScheduleInv
  <2> QED BY <1>1, <1>3, <1>4, <1>8, <2>2, <2>3 DEF LInv, ArrivalInv
<1> QED BY <1>5, <1>7, <1>8

\* The frame that leaves the way leaves a trace: it arrived, or it counts as lost.
LEMMA LateRemove ==
  ASSUME AInv, NEW i \in DOMAIN air, NEW k \in Kinds, NEW x \in Int, NEW more \in Nat,
         Late(losses[k], untilDue, air, k, x),
         IF air[i].kind = k THEN more = losses[k] + 1 ELSE more = losses[k]
  PROVE  Late(more, untilDue, RemoveAt(air, i), k, x)
<1>1. losses[k] \in Nat /\ untilDue \in SUBSET Int /\ air \in Seq(Frame)
  BY LossesTypes
<1>2. RemoveAt(air, i) \in Seq(Frame)
  BY <1>1, RemoveEntries
<1>3. ASSUME NEW a \in Nat
      PROVE  losses[k] + Count(air, k, a) =< more + Count(RemoveAt(air, i), k, a)
  <2>1. Count(air, k, a) \in Nat /\ Count(RemoveAt(air, i), k, a) \in Nat
    BY <1>1, <1>2, CountType
  <2>2. /\ Count(RemoveAt(air, i), k, a) + 1 >= Count(air, k, a)
        /\ air[i].kind # k => Count(RemoveAt(air, i), k, a) >= Count(air, k, a)
    BY <1>1, CountRemove
  <2> QED BY <1>1, <2>1, <2>2
<1>4. x =< x
  OBVIOUS
<1> QED BY <1>1, <1>2, <1>3, <1>4, LateGrows

LEMMA LoseLosses ==
  ASSUME GInv, AInv, LInv, NEW i \in DOMAIN air, Lose(i)
  PROVE  LInv'
<1>1. /\ air' = RemoveAt(air, i)
      /\ UNCHANGED <<up, untilDue, sinceTick, fault, partitioned, vars, inbox, shown,
                     sinceStation>>
      /\ awake' = awake /\ sinceHeartbeat' = sinceHeartbeat
  BY DEF Lose, drone, station, vars, link
<1> SUFFICES ASSUME fault = "losses" PROVE LInv'
  BY <1>1 DEF LInv, ScheduleInv, ArrivalInv, ShownInv
<1>2. losses' = [losses EXCEPT ![air[i].kind] = losses[air[i].kind] + 1]
  BY DEF Lose, LInv, ScheduleInv
<1>3. untilDue # {}
  BY DEF LInv, ScheduleInv
<1>4. ScheduleInv'
  BY <1>1, <1>3 DEF LInv, ScheduleInv
<1>5. \A k, x : Elapsed(k, x)' <=> Elapsed(k, x)
  BY <1>1 DEF Elapsed, Newest, None
<1>6. ShownInv'
  BY <1>1 DEF LInv, ShownInv, waited
<1>7. ASSUME NEW k \in Kinds, NEW x \in Int, Elapsed(k, x)
      PROVE  Late(losses'[k], untilDue', air', k, x)
  <2>1. Late(losses[k], untilDue, air, k, x)
    BY <1>7 DEF LInv, ArrivalInv
  <2>2. losses[k] \in Nat
    BY LossesTypes
  <2>3. /\ losses'[k] \in Nat
        /\ IF air[i].kind = k THEN losses'[k] = losses[k] + 1
                              ELSE losses'[k] = losses[k]
    BY <1>2, <2>2 DEF AInv, LinkTypes
  <2> QED BY <1>1, <2>1, <2>3, LateRemove
<1> QED BY <1>4, <1>5, <1>6, <1>7 DEF LInv, ArrivalInv

LEMMA ArriveLosses ==
  ASSUME GInv, AInv, LInv, AInv', NEW i \in DOMAIN air, Arrive(i)
  PROVE  LInv'
<1> DEFINE f == air[i]
           n == Len(inbox) + 1
<1>1. /\ air' = RemoveAt(air, i) /\ inbox' = Append(inbox, f)
      /\ losses' = [losses EXCEPT ![f.kind] = 0]
      /\ UNCHANGED <<up, untilDue, sinceTick, fault, partitioned, vars, shown,
                     sinceStation>>
      /\ awake' = awake /\ sinceHeartbeat' = sinceHeartbeat
  BY DEF Arrive, drone, vars, link
<1> SUFFICES ASSUME fault = "losses" PROVE LInv'
  BY <1>1 DEF LInv, ScheduleInv, ArrivalInv, ShownInv
<1>2. untilDue # {}
  BY DEF LInv, ScheduleInv
<1>3. ScheduleInv'
  BY <1>1, <1>2 DEF LInv, ScheduleInv
<1>4. ShownInv'
  BY <1>1 DEF LInv, ShownInv, waited
<1>5. /\ air \in Seq(Frame) /\ inbox \in Seq(Frame) /\ f \in Frame /\ f.age =< MaxDelay
      /\ f.age \in Nat
  <2>1. air \in Seq(Frame) /\ inbox \in Seq(Frame) /\ f.age =< MaxDelay
    BY DEF AInv, LinkTypes, AgeInv
  <2>2. f \in Frame
    BY <2>1
  <2> QED BY <2>1, <2>2 DEF Frame
<1>6. /\ DOMAIN inbox' = 1 .. n /\ DOMAIN inbox = 1 .. Len(inbox) /\ Len(inbox) \in Nat
      /\ inbox'[n] = f /\ n \in DOMAIN inbox'
      /\ \A j \in DOMAIN inbox : inbox'[j] = inbox[j] /\ j \in DOMAIN inbox' /\ j < n
      /\ \A j \in DOMAIN inbox' : j = n \/ j \in DOMAIN inbox
  BY <1>1, <1>5, AppendEntries
<1> HIDE DEF f, n
<1>7. ASSUME NEW k \in Kinds, NEW x \in Int, Elapsed(k, x)'
      PROVE  Late(losses'[k], untilDue', air', k, x)
  <2>1. CASE f.kind = k
    <3>1. ~None(inbox', k)
      BY <1>6, <2>1 DEF None
    <3>2. PICK j \in DOMAIN inbox' : /\ inbox'[j].kind = k /\ Newest(j)'
                                     /\ x = inbox'[j].age - MaxDelay
      BY <1>7, <3>1 DEF Elapsed
    <3>3. j = n
      BY <1>6, <2>1, <3>2 DEF Newest
    <3>4. x =< 0
      BY <1>5, <1>6, <3>2, <3>3, Constants
    <3>5. \A u \in untilDue' : u =< TelemetryPeriod
      BY <1>1 DEF LInv, ScheduleInv
    <3>6. losses'[k] \in Nat /\ untilDue' \in SUBSET Int /\ air' \in Seq(Frame)
      BY DEF AInv, LinkTypes
    <3> QED BY <3>4, <3>5, <3>6, LateAtOnce
  <2>2. CASE f.kind # k
    <3>1. None(inbox', k) => None(inbox, k)
      BY <1>6 DEF None
    <3>2. ASSUME NEW j \in DOMAIN inbox', inbox'[j].kind = k, Newest(j)',
                 x = inbox'[j].age - MaxDelay
          PROVE  Elapsed(k, x)
      <4>1. j \in DOMAIN inbox /\ inbox'[j] = inbox[j]
        BY <1>6, <2>2, <3>2
      <4>2. Newest(j)
        BY <1>6, <3>2, <4>1 DEF Newest
      <4> QED BY <3>2, <4>1, <4>2 DEF Elapsed
    <3>3. Elapsed(k, x)
      BY <1>1, <1>7, <3>1, <3>2 DEF Elapsed
    <3>4. Late(losses[k], untilDue, air, k, x)
      BY <3>3 DEF LInv, ArrivalInv
    <3>5. losses[k] \in Nat
      BY LossesTypes
    <3>6. losses'[k] = losses[k]
      BY <1>1, <2>2 DEF AInv, LinkTypes
    <3> QED BY <1>1, <2>2, <3>4, <3>5, <3>6, LateRemove DEF f
  <2> QED BY <2>1, <2>2
<1> QED BY <1>3, <1>4, <1>7 DEF LInv, ArrivalInv

\* Under losses, the drone does not crash and the link is not down.
LEMMA OutageLosses ==
  ASSUME LInv, Partition \/ Crash \/ Restart
  PROVE  LInv'
<1>1. (fault' = fault /\ fault # "losses") \/ Restart
  BY DEF Partition, Crash, network
<1>2. CASE fault' = fault /\ fault # "losses"
  BY <1>2 DEF LInv, ScheduleInv, ArrivalInv, ShownInv
<1>3. CASE Restart
  <2>1. fault' = fault /\ ~up
    BY <1>3 DEF Restart, network
  <2>2. fault # "losses"
    BY <2>1 DEF LInv, ScheduleInv
  <2> QED BY <2>1, <2>2 DEF LInv, ScheduleInv, ArrivalInv, ShownInv
<1> QED BY <1>1, <1>2, <1>3

LEMMA TickLosses ==
  ASSUME GInv, AInv, LInv, StationTick
  PROVE  LInv'
<1> USE Constants
<1>1. /\ ~awake /\ awake' /\ sinceStation' = 0
      /\ sinceHeartbeat' = aged(sinceHeartbeat, sinceStation)
      /\ UNCHANGED <<inbox, shown, up, untilDue, sinceTick, fault, partitioned,
                     losses, air>>
  BY DEF StationTick, WakeUp, drone, network
<1> SUFFICES ASSUME fault = "losses" PROVE LInv'
  BY <1>1 DEF LInv, ScheduleInv, ArrivalInv, ShownInv
<1>2. sinceStation \in Nat /\ sinceStation =< StationGap
  BY DEF AInv, LinkTypes
<1>3. ScheduleInv'
  BY <1>1 DEF LInv, ScheduleInv
<1>4. ShownInv'
  <2>1. waited = sinceStation /\ waited' = StationGap
    BY <1>1 DEF waited
  <2>2. ASSUME NEW k \in Kinds, NEW t \in shown[k]
        PROVE  t =< MaxDelay + LongestGap + StationGap
    <3>1. t \in Nat /\ t =< MaxDelay + LongestGap + sinceStation
      BY <2>1 DEF LInv, ShownInv, AInv, LinkTypes
    <3> QED BY <1>2, <3>1
  <2> QED BY <1>1, <2>1, <2>2 DEF ShownInv
<1>5. ASSUME NEW k \in Kinds, NEW x \in Int, Elapsed(k, x)'
      PROVE  \E y \in Int : Elapsed(k, y) /\ x =< y
  <2>1. ASSUME None(inbox, k), k = "HEARTBEAT", NEW h \in sinceHeartbeat', x = h + 0
        PROVE  \E y \in Int : Elapsed(k, y) /\ x =< y
    <3>1. PICK o \in sinceHeartbeat :
             h = IF o + sinceStation > Forgotten THEN Forgotten ELSE o + sinceStation
      BY <1>1, <2>1 DEF aged
    <3>2. o \in Nat
      BY HeardType
    <3>3. o + sinceStation \in Int /\ x =< o + sinceStation
      BY <1>2, <2>1, <3>1, <3>2
    <3>4. Elapsed(k, o + sinceStation)
      BY <2>1 DEF Elapsed
    <3> QED BY <3>3, <3>4
  <2>2. Elapsed(k, x) \/ /\ None(inbox, k) /\ k = "HEARTBEAT"
                         /\ \E h \in sinceHeartbeat' : x = h + 0
    BY <1>1, <1>5 DEF Elapsed, Newest, None
  <2>3. x =< x
    OBVIOUS
  <2> QED BY <2>1, <2>2, <2>3
<1>6. ASSUME NEW k \in Kinds, NEW x \in Int, Elapsed(k, x)'
      PROVE  Late(losses'[k], untilDue', air', k, x)
  <2>1. PICK y \in Int : Elapsed(k, y) /\ x =< y
    BY <1>5, <1>6
  <2>2. Late(losses[k], untilDue, air, k, y)
    BY <2>1 DEF LInv, ArrivalInv
  <2> QED BY <1>1, <2>1, <2>2, LateLess
<1> QED BY <1>3, <1>4, <1>6 DEF LInv, ArrivalInv

LEMMA HandleLosses ==
  ASSUME GInv, AInv, LInv, Handle
  PROVE  LInv'
<1> USE Constants
<1> DEFINE f == Head(inbox)
           c == capped(f.kind, f.age)
<1>1. /\ awake /\ awake' = awake /\ inbox # <<>> /\ inbox' = Tail(inbox)
      /\ f \in Frame /\ f = inbox[1] /\ 1 \in DOMAIN inbox
      /\ shown' = [shown EXCEPT ![f.kind] = {c}]
      /\ sinceHeartbeat' = IF f.kind = "HEARTBEAT" THEN {0} ELSE sinceHeartbeat
      /\ UNCHANGED <<sinceStation, up, untilDue, sinceTick, fault, partitioned,
                     losses, air>>
  BY HandleEffect
<1> SUFFICES ASSUME fault = "losses" PROVE LInv'
  BY <1>1 DEF LInv, ScheduleInv, ArrivalInv, ShownInv
<1>2. /\ f.kind \in Kinds /\ f.age \in Nat /\ f.age =< MaxDelay + StationGap
      /\ waited = StationGap /\ waited' = StationGap /\ sinceStation = 0
      /\ shown \in [Kinds -> SUBSET Nat]
  BY <1>1 DEF Frame, AInv, LinkTypes, AgeInv, waited
<1>3. c \in Nat /\ c =< f.age
  <2>1. fault \in Faults
    BY DEF AInv, LinkTypes
  <2> QED BY <1>2, <2>1, CappedType
<1>4. /\ DOMAIN inbox = 1 .. Len(inbox) /\ Len(inbox) \in Nat
      /\ DOMAIN inbox' = 1 .. Len(inbox) - 1
      /\ \A j \in DOMAIN inbox' : j + 1 \in DOMAIN inbox /\ inbox'[j] = inbox[j + 1]
      /\ \A j \in DOMAIN inbox : j = 1 \/ (j - 1 \in DOMAIN inbox' /\ (j - 1) + 1 = j)
  <2>1. inbox \in Seq(Frame) /\ inbox # <<>>
    BY <1>1 DEF AInv, LinkTypes
  <2>2. /\ DOMAIN inbox = 1 .. Len(inbox) /\ Len(inbox) \in Nat
        /\ DOMAIN inbox' = 1 .. Len(inbox) - 1
        /\ \A j \in DOMAIN inbox' : j + 1 \in DOMAIN inbox /\ inbox'[j] = inbox[j + 1]
    BY <1>1, <2>1, TailEntries
  <2> QED BY <2>2
<1> HIDE DEF c, f
<1>5. ScheduleInv'
  <2>1. untilDue # {}
    BY <1>1 DEF LInv, ScheduleInv
  <2> QED BY <1>1, <2>1 DEF LInv, ScheduleInv
<1>6. ShownInv'
  <2>1. ASSUME NEW k \in Kinds, NEW t \in shown'[k]
        PROVE  t =< MaxDelay + LongestGap + StationGap
    <3>1. CASE f.kind = k
      <4>1. t = c
        BY <1>1, <1>2, <2>1, <3>1
      <4> QED BY <1>2, <1>3, <4>1
    <3>2. CASE f.kind # k
      <4>1. t \in shown[k]
        BY <1>1, <1>2, <2>1, <3>2
      <4> QED BY <1>2, <4>1 DEF LInv, ShownInv
    <3> QED BY <3>1, <3>2
  <2> QED BY <1>2, <2>1 DEF ShownInv
<1>7. ASSUME NEW j \in DOMAIN inbox', Newest(j)'
      PROVE  Newest(j + 1)
  <2>0. j \in Nat
    BY <1>4
  <2> SUFFICES ASSUME NEW m \in DOMAIN inbox, m > j + 1
               PROVE  inbox[m].kind # inbox[j + 1].kind
    BY DEF Newest
  <2>1. m # 1 /\ m \in Nat
    BY <1>4, <2>0
  <2>2. m - 1 \in DOMAIN inbox' /\ (m - 1) + 1 = m /\ m - 1 > j
    BY <1>4, <2>0, <2>1
  <2>3. inbox'[m - 1] = inbox[m] /\ inbox'[j] = inbox[j + 1]
    BY <1>4, <2>2
  <2> QED BY <1>7, <2>2, <2>3 DEF Newest
<1>8. ASSUME NEW k \in Kinds, NEW x \in Int, Elapsed(k, x)'
      PROVE  x =< 0 \/ (\E y \in Int : Elapsed(k, y) /\ x =< y)
  <2>1. ASSUME NEW j \in DOMAIN inbox', inbox'[j].kind = k, Newest(j)',
               x = inbox'[j].age - MaxDelay
        PROVE  Elapsed(k, x) /\ x =< x
    <3>1. j + 1 \in DOMAIN inbox /\ inbox[j + 1] = inbox'[j] /\ Newest(j + 1)
      BY <1>4, <1>7, <2>1
    <3> QED BY <2>1, <3>1 DEF Elapsed
  <2>2. ASSUME None(inbox', k), f.kind # k
        PROVE  None(inbox, k)
    <3> SUFFICES ASSUME NEW j \in DOMAIN inbox PROVE inbox[j].kind # k
      BY DEF None
    <3>1. CASE j = 1
      BY <1>1, <2>2, <3>1
    <3>2. CASE j # 1
      <4>1. j - 1 \in DOMAIN inbox' /\ (j - 1) + 1 = j
        BY <1>4, <3>2
      <4>2. inbox'[j - 1] = inbox[j]
        BY <1>4, <4>1
      <4> QED BY <2>2, <4>1, <4>2 DEF None
    <3> QED BY <3>1, <3>2
  <2>3. ASSUME None(inbox', k), f.kind # k
        PROVE  Elapsed(k, x) /\ x =< x
    <3>1. shown'[k] = shown[k]
      BY <1>1, <1>2, <2>3
    <3>2. k = "HEARTBEAT" => sinceHeartbeat' = sinceHeartbeat
      BY <1>1, <2>3
    <3>3. ~\E j \in DOMAIN inbox' : inbox'[j].kind = k
      BY <2>3 DEF None
    <3> QED BY <1>1, <1>8, <2>2, <2>3, <3>1, <3>2, <3>3 DEF Elapsed
  <2>4. ASSUME None(inbox', k), f.kind = k
        PROVE  \/ x =< 0
               \/ Elapsed(k, f.age - MaxDelay) /\ x =< f.age - MaxDelay
    <3>1. Newest(1)
      <4> SUFFICES ASSUME NEW j \in DOMAIN inbox, j > 1
                   PROVE  inbox[j].kind # inbox[1].kind
        BY DEF Newest
      <4>1. j - 1 \in DOMAIN inbox' /\ (j - 1) + 1 = j
        BY <1>4
      <4>2. inbox'[j - 1] = inbox[j]
        BY <1>4, <4>1
      <4> QED BY <1>1, <2>4, <4>1, <4>2 DEF None
    <3>2. Elapsed(k, f.age - MaxDelay)
      BY <1>1, <2>4, <3>1 DEF Elapsed
    <3>3. shown'[k] = {c}
      BY <1>1, <1>2, <2>4
    <3>4. k = "HEARTBEAT" => sinceHeartbeat' = {0} /\ sinceStation' = 0
      BY <1>1, <1>2, <2>4
    <3>5. ~\E j \in DOMAIN inbox' : inbox'[j].kind = k
      BY <2>4 DEF None
    <3>6. x = c - MaxDelay \/ x = 0 + 0
      BY <1>8, <3>3, <3>4, <3>5 DEF Elapsed
    <3> QED BY <1>2, <1>3, <3>2, <3>6
  <2>5. f.age - MaxDelay \in Int
    BY <1>2
  <2> QED BY <1>8, <2>1, <2>3, <2>4, <2>5 DEF Elapsed
<1>9. ASSUME NEW k \in Kinds, NEW x \in Int, Elapsed(k, x)'
      PROVE  Late(losses[k], untilDue, air, k, x)
  <2>1. CASE x =< 0
    <3>1. \A u \in untilDue : u =< TelemetryPeriod
      BY DEF LInv, ScheduleInv
    <3>2. losses[k] \in Nat /\ untilDue \in SUBSET Int /\ air \in Seq(Frame)
      BY LossesTypes
    <3> QED BY <2>1, <3>1, <3>2, LateAtOnce
  <2>2. ASSUME NEW y \in Int, Elapsed(k, y), x =< y
        PROVE  Late(losses[k], untilDue, air, k, x)
    <3>1. Late(losses[k], untilDue, air, k, y)
      BY <2>2 DEF LInv, ArrivalInv
    <3> QED BY <2>2, <3>1, LateLess
  <2> QED BY <1>8, <1>9, <2>1, <2>2
<1> QED BY <1>1, <1>5, <1>6, <1>9 DEF LInv, ArrivalInv

LEMMA EndTickLosses ==
  ASSUME GInv, AInv, LInv, EndTick
  PROVE  LInv'
<1> USE Constants
<1>1. /\ awake /\ ~awake' /\ inbox = <<>>
      /\ sinceHeartbeat' = sinceHeartbeat
      /\ UNCHANGED <<inbox, shown, sinceStation, up, untilDue, sinceTick, fault,
                     partitioned, losses, air>>
  BY DEF EndTick, Update, drone, network
<1> SUFFICES ASSUME fault = "losses" PROVE LInv'
  BY <1>1 DEF LInv, ScheduleInv, ArrivalInv, ShownInv
<1>2. ScheduleInv'
  BY <1>1 DEF LInv, ScheduleInv
<1>3. \A k, x : Elapsed(k, x)' <=> Elapsed(k, x)
  BY <1>1 DEF Elapsed, Newest, None
<1>4. ArrivalInv'
  BY <1>1, <1>3 DEF LInv, ArrivalInv
<1>5. ShownInv'
  <2>1. waited' = sinceStation /\ sinceStation = 0
    BY <1>1 DEF waited, AInv, LinkTypes
  <2>2. ASSUME NEW k \in Kinds, NEW t \in shown[k]
        PROVE  t =< MaxDelay + LongestGap + waited'
    <3>1. t \in Nat
      BY DEF AInv, LinkTypes
    <3>2. None(inbox, k)
      BY <1>1 DEF None
    <3>3. t - MaxDelay \in Int /\ Elapsed(k, t - MaxDelay)
      BY <3>1, <3>2 DEF Elapsed
    <3>4. t - MaxDelay =< LongestGap
      BY <3>3, ElapsedBound
    <3> QED BY <2>1, <3>1, <3>4
  <2> QED BY <1>1, <2>2 DEF ShownInv
<1> QED BY <1>2, <1>4, <1>5 DEF LInv

LEMMA LossesInductive ==
  ASSUME GInv, AInv, LInv, [LinkNext]_linkVars
  PROVE  GInv' /\ AInv' /\ LInv'
<1>1. GInv' /\ AInv'
  BY AgesInductive
<1>2. CASE UNCHANGED linkVars
  <2>1. /\ UNCHANGED <<up, partitioned, fault, losses, air, inbox, shown, sinceStation,
                       untilDue, sinceTick>>
        /\ awake' = awake /\ sinceHeartbeat' = sinceHeartbeat
    BY <1>2 DEF linkVars, drone, network, station, vars, link
  <2>2. \A k, x : Elapsed(k, x)' <=> Elapsed(k, x)
    BY <2>1 DEF Elapsed, Newest, None
  <2>3. ScheduleInv' /\ ArrivalInv' /\ ShownInv'
    BY <2>1, <2>2 DEF LInv, ScheduleInv, ArrivalInv, ShownInv, waited
  <2> QED BY <1>1, <2>3 DEF LInv
<1>3. CASE Deliver
  BY <1>1, <1>3, LoseLosses, ArriveLosses DEF Deliver
<1> QED
  BY <1>1, <1>2, <1>3, PassLosses, DroneLosses, OutageLosses, TickLosses,
     HandleLosses, EndTickLosses DEF LinkNext, Station

LEMMA LossesInvariance == LinkSpec => [](GInv /\ AInv /\ LInv)
<1>1. LinkInit => GInv /\ AInv /\ LInv
  BY AgesInit, LossesInit
<1>2. GInv /\ AInv /\ LInv /\ [LinkNext]_linkVars => (GInv /\ AInv /\ LInv)'
  BY LossesInductive
<1> QED BY <1>1, <1>2, PTL DEF LinkSpec

-----------------------------------------------------------------------------
(***************************************************************************)
(* The theorems.                                                           *)
(***************************************************************************)
\* Through crashes, outages, losses and reordering: between two ticks, the station
\* shows the drone as connected only if the status that is shown was published not
\* long ago (ConnectionMonitor::update and MavlinkTelemetryReceiver::handle).
THEOREM ConnectedDroneWasThere == LinkSpec => []ConnectedMeansPublished
<1>1. GInv /\ AInv => ConnectedMeansPublished
  <2> SUFFICES ASSUME GInv, AInv, ~awake, view.connected
               PROVE  \E t \in shown["HEARTBEAT"] :
                         t < ConnectionTimeout + MaxDelay + 2 * StationGap
    BY DEF ConnectedMeansPublished
  <2> USE Constants
  <2>1. PICK h \in sinceHeartbeat : h < ConnectionTimeout
    BY DEF GInv, LinkInv, alive
  <2>2. PICK t \in shown["HEARTBEAT"] : TRUE
    BY <2>1 DEF AInv, BeatInv
  <2>3. h \in Nat /\ t \in Nat /\ sinceStation \in Nat /\ sinceStation =< StationGap
    BY HeardType DEF AInv, LinkTypes, Kinds
  <2>4. t =< h + MaxDelay + StationGap + sinceStation
    BY <2>1, <2>3 DEF AInv, BeatInv
  <2>5. t < ConnectionTimeout + MaxDelay + 2 * StationGap
    BY <2>1, <2>3, <2>4
  <2> QED BY <2>5
<1> QED BY <1>1, AgesInvariance, PTL

\* Over a link that loses, delays and reorders single frames, neither half of the
\* snapshot is older than the link makes it.
THEOREM SnapshotStaysRecent == LinkSpec => []SnapshotIsRecent
<1>1. GInv /\ AInv /\ LInv => SnapshotIsRecent
  <2> SUFFICES ASSUME GInv, AInv, LInv, fault = "losses", NEW k \in Kinds,
                      NEW t \in shown[k]
               PROVE  t =< MaxDelay + LongestGap + StationGap
    BY DEF SnapshotIsRecent
  <2> USE Constants
  <2>1. t \in Nat /\ sinceStation \in Nat /\ sinceStation =< StationGap
    BY DEF AInv, LinkTypes
  <2>2. t =< MaxDelay + LongestGap + waited
    BY DEF LInv, ShownInv
  <2>3. waited = StationGap \/ waited = sinceStation
    BY DEF waited
  <2> QED BY <2>1, <2>2, <2>3
<1> QED BY <1>1, LossesInvariance, PTL

\* Over such a link a drone that runs is not taken for lost, if the timeout has
\* room for the losses: the absolute schedule keeps late ticks from adding up.
THEOREM StatusDoesNotFlap == LinkSpec => SurvivesLosses
<1> DEFINE Stays == fault = "losses" /\ LongestGap < ConnectionTimeout /\ view.connected
                      => view'.connected
<1>1. GInv /\ AInv /\ LInv /\ [LinkNext]_linkVars => [Stays]_linkVars
  <2> SUFFICES ASSUME GInv, AInv, LInv, LinkNext, fault = "losses",
                      LongestGap < ConnectionTimeout, view.connected
               PROVE  view'.connected
    OBVIOUS
  <2> USE Constants
  <2>1. GInv' /\ connected /\ view'.connected = connected'
    BY AgesInductive DEF GInv, LinkInv
  <2>2. CASE EndTick
    <3>1. /\ inbox = <<>> /\ connected' = alive /\ awake
      BY <2>2 DEF EndTick, Update
    <3>2. sinceHeartbeat # {}
      <4>1. connected <=> log = {TRUE}
        BY DEF GInv, LinkInv
      <4>2. log # {}
        BY <2>1, <4>1
      <4> QED BY <4>2 DEF GInv, LinkInv
    <3>3. PICK h \in sinceHeartbeat : TRUE
      BY <3>2
    <3>4. h \in Nat /\ sinceStation = 0
      BY <3>1, HeardType DEF AInv, LinkTypes
    <3>5. None(inbox, "HEARTBEAT") /\ "HEARTBEAT" \in Kinds
      BY <3>1 DEF None, Kinds
    <3>6. Elapsed("HEARTBEAT", h + sinceStation) /\ h + sinceStation \in Int
      BY <3>4, <3>5 DEF Elapsed
    <3>7. h + sinceStation =< LongestGap
      BY <3>5, <3>6, ElapsedBound
    <3>8. h < ConnectionTimeout
      BY <3>4, <3>7
    <3> QED BY <2>1, <3>1, <3>8 DEF alive
  <2>3. CASE ~EndTick
    <3>1. connected' = connected
      BY <2>3 DEF LinkNext, Pass, DroneTick, Station, StationTick, WakeUp, Handle,
                  Heartbeat, Position, Deliver, Arrive, Lose, Partition, Crash,
                  Restart, station, vars, link
    <3> QED BY <2>1, <3>1
  <2> QED BY <2>2, <2>3
<1>2. SurvivesLosses <=> [][Stays]_linkVars
  BY DEF SurvivesLosses
<1> QED BY <1>1, <1>2, LossesInvariance, PTL DEF LinkSpec
=============================================================================
