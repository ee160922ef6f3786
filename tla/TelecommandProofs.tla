-------------------------- MODULE TelecommandProofs --------------------------
(***************************************************************************)
(* Proofs about the way of commands, for every link: however long frames   *)
(* take, however many it loses or repeats, and whatever the periods are.   *)
(***************************************************************************)
EXTENDS Telecommand, FlightControllerProofs, SequenceTheorems

-----------------------------------------------------------------------------
(***************************************************************************)
(* Sequences of frames.                                                    *)
(***************************************************************************)
Orders == {"Arm", "Disarm", "Land", "Goto", "Manual"}

Frame == [order : Orders, v : Vec3, age : Int]

None(frames, order) == \A i \in DOMAIN frames : frames[i].order # order

\* Every frame of the one sequence is in the other.
Among(r, s) == \A j \in DOMAIN r : \E k \in DOMAIN s : r[j] = s[k]

\* The frames that are left when one is taken out, and their order.
LEMMA RemoveEntries ==
  ASSUME NEW s \in Seq(Frame), NEW i \in DOMAIN s
  PROVE  /\ RemoveAt(s, i) \in Seq(Frame)
         /\ DOMAIN RemoveAt(s, i) = 1 .. Len(s) - 1
         /\ \A j \in 1 .. i - 1 : RemoveAt(s, i)[j] = s[j]
         /\ \A j \in i .. Len(s) - 1 : RemoveAt(s, i)[j] = s[j + 1]
<1> DEFINE a == SubSeq(s, 1, i - 1)
           b == SubSeq(s, i + 1, Len(s))
           r == a \o b
<1>1. i \in 1 .. Len(s) /\ Len(s) \in Nat /\ DOMAIN s = 1 .. Len(s)
  OBVIOUS
<1>2. /\ a \in Seq(Frame) /\ Len(a) = i - 1
      /\ \A j \in 1 .. i - 1 : a[j] = s[j]
  BY <1>1
<1>3. /\ b \in Seq(Frame) /\ Len(b) = Len(s) - i
      /\ \A j \in 1 .. Len(s) - i : b[j] = s[i + j]
  BY <1>1
<1> HIDE DEF a, b
<1>4. /\ r \in Seq(Frame) /\ DOMAIN r = 1 .. Len(s) - 1
      /\ \A j \in 1 .. i - 1 : r[j] = s[j]
      /\ \A j \in i .. Len(s) - 1 : r[j] = s[j + 1]
  <2>0. a \in Seq(Frame) /\ b \in Seq(Frame)
    BY <1>2, <1>3
  <2>1. /\ r \in Seq(Frame) /\ Len(r) = Len(a) + Len(b)
        /\ \A j \in 1 .. Len(a) + Len(b) :
              r[j] = IF j =< Len(a) THEN a[j] ELSE b[j - Len(a)]
    BY <2>0, ConcatProperties
  <2> HIDE DEF r
  <2>2. \A j \in 1 .. i - 1 : r[j] = a[j]
    BY <1>1, <1>2, <1>3, <2>1
  <2>3. \A j \in i .. Len(s) - 1 : r[j] = b[j - (i - 1)]
    BY <1>1, <1>2, <1>3, <2>1
  <2>4. ASSUME NEW j \in i .. Len(s) - 1 PROVE r[j] = s[j + 1]
    <3>1. j - (i - 1) \in 1 .. Len(s) - i /\ i + (j - (i - 1)) = j + 1
      BY <1>1
    <3>2. b[j - (i - 1)] = s[i + (j - (i - 1))]
      BY <1>3, <3>1
    <3> QED BY <2>3, <3>1, <3>2
  <2>5. DOMAIN r = 1 .. Len(s) - 1
    BY <1>1, <1>2, <1>3, <2>1
  <2> QED BY <1>2, <2>1, <2>2, <2>4, <2>5
<1>5. RemoveAt(s, i) = r
  BY DEF RemoveAt, a, b
<1> HIDE DEF r
<1> QED BY <1>4, <1>5

LEMMA RemoveType ==
  ASSUME NEW s \in Seq(Frame), NEW i \in DOMAIN s, NEW order
  PROVE  /\ RemoveAt(s, i) \in Seq(Frame) /\ Among(RemoveAt(s, i), s)
         /\ None(s, order) => None(RemoveAt(s, i), order)
<1> DEFINE r == RemoveAt(s, i)
<1>1. i \in 1 .. Len(s) /\ Len(s) \in Nat /\ DOMAIN s = 1 .. Len(s)
  OBVIOUS
<1>2. /\ r \in Seq(Frame) /\ DOMAIN r = 1 .. Len(s) - 1
      /\ \A j \in 1 .. i - 1 : r[j] = s[j]
      /\ \A j \in i .. Len(s) - 1 : r[j] = s[j + 1]
  BY RemoveEntries
<1> HIDE DEF r
<1>3. ASSUME NEW j \in DOMAIN r PROVE \E k \in DOMAIN s : r[j] = s[k]
  <2>1. CASE j =< i - 1
    BY <1>1, <1>2, <2>1
  <2>2. CASE j >= i
    <3>1. j + 1 \in DOMAIN s /\ j \in i .. Len(s) - 1
      BY <1>1, <1>2, <2>2
    <3> QED BY <1>2, <3>1
  <2> QED BY <1>1, <1>2, <2>1, <2>2
<1> QED BY <1>2, <1>3 DEF None, Among, r

LEMMA AppendType ==
  ASSUME NEW s \in Seq(Frame), NEW f \in Frame, NEW order
  PROVE  /\ Append(s, f) \in Seq(Frame)
         /\ \A j \in DOMAIN Append(s, f) :
               \/ Append(s, f)[j] = f
               \/ \E k \in DOMAIN s : Append(s, f)[j] = s[k]
         /\ None(s, order) /\ f.order # order => None(Append(s, f), order)
<1> DEFINE r == Append(s, f)
<1>1. /\ r \in Seq(Frame) /\ DOMAIN r = 1 .. Len(s) + 1 /\ Len(s) \in Nat
      /\ DOMAIN s = 1 .. Len(s)
      /\ r[Len(s) + 1] = f /\ \A j \in 1 .. Len(s) : r[j] = s[j]
  OBVIOUS
<1> HIDE DEF r
<1>2. ASSUME None(s, order), f.order # order PROVE None(r, order)
  BY <1>1, <1>2 DEF None
<1>3. \A j \in DOMAIN r : j = Len(s) + 1 \/ j \in 1 .. Len(s)
  BY <1>1
<1>4. \A j \in DOMAIN r : r[j] = f \/ \E k \in DOMAIN s : r[j] = s[k]
  BY <1>1, <1>3
<1> QED BY <1>1, <1>2, <1>4 DEF r

LEMMA TailType ==
  ASSUME NEW s \in Seq(Frame), s # <<>>, NEW order
  PROVE  /\ Tail(s) \in Seq(Frame) /\ Head(s) \in Frame
         /\ Among(Tail(s), s) /\ \E k \in DOMAIN s : Head(s) = s[k]
         /\ None(s, order) => None(Tail(s), order) /\ Head(s).order # order
<1> DEFINE r == Tail(s)
<1>1. /\ r \in Seq(Frame) /\ Head(s) = s[1] /\ Head(s) \in Frame
      /\ 1 \in DOMAIN s /\ DOMAIN r = 1 .. Len(s) - 1
      /\ \A j \in DOMAIN r : r[j] = s[j + 1] /\ j + 1 \in DOMAIN s
  OBVIOUS
<1> HIDE DEF r
<1>2. ASSUME None(s, order) PROVE None(r, order) /\ Head(s).order # order
  BY <1>1, <1>2 DEF None
<1>3. Among(r, s) /\ \E k \in DOMAIN s : Head(s) = s[k]
  BY <1>1 DEF Among
<1> QED BY <1>1, <1>2, <1>3 DEF r

LEMMA OlderType ==
  ASSUME NEW s \in Seq(Frame), NEW order,
         NEW r, r = [i \in DOMAIN s |-> [s[i] EXCEPT !.age = @ + 1]]
  PROVE  /\ r \in Seq(Frame)
         /\ None(s, order) => None(r, order)
<1>1. /\ Len(s) \in Nat /\ DOMAIN s = 1 .. Len(s)
      /\ \A i \in DOMAIN s : s[i] \in Frame
  OBVIOUS
<1>2. \A f \in Frame : /\ [f EXCEPT !.age = @ + 1] \in Frame
                       /\ [f EXCEPT !.age = @ + 1].order = f.order
  BY DEF Frame
<1>3. /\ DOMAIN r = 1 .. Len(s)
      /\ \A i \in 1 .. Len(s) : r[i] \in Frame /\ r[i].order = s[i].order
  BY <1>1, <1>2
<1>4. r = [i \in 1 .. Len(s) |-> r[i]]
  BY <1>1
<1>5. r \in Seq(Frame)
  BY <1>1, <1>3, <1>4
<1> QED BY <1>1, <1>3, <1>5 DEF None

-----------------------------------------------------------------------------
(***************************************************************************)
(* The inductive invariant.  LandingIsFinal alone is not inductive: an ARM *)
(* that still is on its way would end it, so while the landing is final    *)
(* there is none, and none can appear because a copy needs an original.    *)
(***************************************************************************)
LinkInv ==
    /\ IInv
    /\ sinceTick \in Nat
    /\ uplink \in Seq(Frame)
    /\ inbox \in Seq(Frame)

LandingInv ==
    landing => /\ state.mode \in {"Land", "Disarmed"}
               /\ None(uplink, "Arm")
               /\ None(inbox, "Arm")

LEMMA OrderedType ==
  ASSUME NEW order \in Orders, NEW v \in Vec3
  PROVE  ordered(order, v) \in Frame /\ ordered(order, v).order = order
  BY ClampType DEF ordered, Frame

LEMMA QuietTypes ==
  ASSUME LinkInv, UNCHANGED vars, sinceTick' \in Nat,
         uplink' \in Seq(Frame), inbox' \in Seq(Frame)
  PROVE  LinkInv'
  BY IInvStutters DEF LinkInv

LEMMA PassKeeps == LinkInv /\ LandingInv /\ Pass => LinkInv' /\ LandingInv'
<1> SUFFICES ASSUME LinkInv, LandingInv, Pass PROVE LinkInv' /\ LandingInv'
  OBVIOUS
<1>1. /\ uplink' \in Seq(Frame)
      /\ None(uplink, "Arm") => None(uplink', "Arm")
  BY OlderType DEF LinkInv, Pass
<1>2. UNCHANGED <<vars, inbox, landing>> /\ sinceTick' \in Nat
  BY DEF Pass, LinkInv
<1>3. LinkInv'
  BY <1>1, <1>2, QuietTypes DEF LinkInv
<1> QED BY <1>1, <1>2, <1>3 DEF LandingInv, vars

LEMMA ClickKeeps ==
  ASSUME LinkInv, LandingInv, NEW order \in Orders, NEW v \in Vec3,
         Click(order, v)
  PROVE  LinkInv' /\ LandingInv'
<1>1. /\ uplink' = Append(uplink, ordered(order, v))
      /\ landing' = (landing /\ order # "Arm")
      /\ UNCHANGED <<vars, sinceTick, inbox>>
  BY DEF Click
<1>2. /\ uplink' \in Seq(Frame)
      /\ None(uplink, "Arm") /\ order # "Arm" => None(uplink', "Arm")
  BY <1>1, OrderedType, AppendType DEF LinkInv
<1>3. LinkInv'
  BY <1>1, <1>2, QuietTypes DEF LinkInv
<1> QED BY <1>1, <1>2, <1>3 DEF LandingInv, vars

LEMMA StickKeeps ==
  ASSUME LinkInv, LandingInv, NEW a \in Vec3, Stick(a)
  PROVE  LinkInv' /\ LandingInv'
<1>1. /\ \/ uplink' = Append(uplink, ordered("Manual", a))
         \/ uplink' = uplink
      /\ UNCHANGED <<vars, sinceTick, inbox, landing>>
  BY DEF Stick
<1>2. /\ uplink' \in Seq(Frame)
      /\ None(uplink, "Arm") => None(uplink', "Arm")
  <2>1. ordered("Manual", a) \in Frame /\ ordered("Manual", a).order # "Arm"
    BY OrderedType DEF Orders
  <2> QED BY <1>1, <2>1, AppendType DEF LinkInv
<1>3. LinkInv'
  BY <1>1, <1>2, QuietTypes DEF LinkInv
<1> QED BY <1>1, <1>2, <1>3 DEF LandingInv, vars

\* What the link does with a frame: it arrives, is lost, or is repeated.
LEMMA TransitKeeps ==
  ASSUME LinkInv, LandingInv, NEW i \in DOMAIN uplink,
         Arrive(i) \/ Lose(i) \/ Repeat(i)
  PROVE  LinkInv' /\ LandingInv'
<1>1. uplink \in Seq(Frame) /\ inbox \in Seq(Frame) /\ sinceTick \in Nat
  BY DEF LinkInv
<1>2. uplink[i] \in Frame /\ (None(uplink, "Arm") => uplink[i].order # "Arm")
  <2>1. \A j \in DOMAIN uplink : uplink[j] \in Frame
    BY <1>1
  <2> QED BY <2>1 DEF None
<1>3. /\ RemoveAt(uplink, i) \in Seq(Frame)
      /\ None(uplink, "Arm") => None(RemoveAt(uplink, i), "Arm")
  BY <1>1, RemoveType
<1>4. CASE Arrive(i)
  <2> DEFINE f == [uplink[i] EXCEPT !.age = 0]
  <2>1. f \in Frame /\ f.order = uplink[i].order
    BY <1>2 DEF Frame
  <2>2. /\ inbox' = Append(inbox, f) /\ uplink' = RemoveAt(uplink, i)
        /\ UNCHANGED <<vars, sinceTick, landing>>
    BY <1>4 DEF Arrive, operator
  <2> HIDE DEF f
  <2>3. /\ inbox' \in Seq(Frame)
        /\ None(inbox, "Arm") /\ uplink[i].order # "Arm" => None(inbox', "Arm")
    BY <1>1, <2>1, <2>2, AppendType
  <2>4. LinkInv'
    BY <1>1, <1>3, <2>2, <2>3, QuietTypes
  <2> QED BY <1>2, <1>3, <2>2, <2>3, <2>4 DEF LandingInv, vars
<1>5. CASE Lose(i)
  <2>1. /\ uplink' = RemoveAt(uplink, i)
        /\ UNCHANGED <<vars, sinceTick, inbox, landing>>
    BY <1>5 DEF Lose, operator
  <2>2. LinkInv'
    BY <1>1, <1>3, <2>1, QuietTypes
  <2> QED BY <1>3, <2>1, <2>2 DEF LandingInv, vars
<1>6. CASE Repeat(i)
  <2>1. /\ uplink' = Append(uplink, uplink[i])
        /\ UNCHANGED <<vars, sinceTick, inbox, landing>>
    BY <1>6 DEF Repeat, operator
  <2>2. /\ uplink' \in Seq(Frame)
        /\ None(uplink, "Arm") => None(uplink', "Arm")
    BY <1>1, <1>2, <2>1, AppendType
  <2>3. LinkInv'
    BY <1>1, <2>1, <2>2, QuietTypes
  <2> QED BY <2>1, <2>2, <2>3 DEF LandingInv, vars
<1> QED BY <1>4, <1>5, <1>6

\* What the receiver does with the frame at the head of its queue.  No order but
\* an ARM ends a landing, and LAND and DISARM begin one, or leave the drone
\* disarmed, in every mode.
LEMMA ExecuteEffect ==
  ASSUME IInv, NEW f \in Frame, Execute(f)
  PROVE  /\ IInv'
         /\ /\ state.mode \in {"Land", "Disarmed"}
            /\ f.order # "Arm"
            => state'.mode \in {"Land", "Disarmed"}
         /\ f.order \in {"Land", "Disarm"} => state'.mode \in {"Land", "Disarmed"}
<1>1. f.order \in Orders /\ f.v \in Vec3
  BY DEF Frame
<1>2. state \in FlightState
  BY DEF IInv, Sound
<1>3. ASSUME NEW event \in {"Arm", "Disarm", "Land", "Goto"}, NEW v \in Vec3,
             Command(event, v)
      PROVE  /\ IInv'
             /\ Outcome(state, event, apply(state, event, v))
             /\ state' = apply(state, event, v).state
  BY <1>2, <1>3, CommandInductive, CommandOutcome DEF Command, dispatch
<1>4. CASE f.order = "Arm"
  <2>1. Command("Arm", Zero)
    BY <1>4 DEF Execute, Arm
  <2> QED BY <1>3, <1>4, <2>1, ZeroType
<1>5. CASE f.order = "Disarm"
  <2>1. Command("Disarm", Zero)
    BY <1>5 DEF Execute, Disarm
  <2> QED BY <1>3, <1>5, <2>1, ZeroType DEF Outcome
<1>6. CASE f.order = "Land"
  <2>1. Command("Land", Zero)
    BY <1>6 DEF Execute, Land
  <2> QED BY <1>3, <1>6, <2>1, ZeroType DEF Outcome
<1>7. CASE f.order = "Goto"
  <2>1. Command("Goto", f.v)
    BY <1>7 DEF Execute, Goto
  <2> QED BY <1>1, <1>3, <1>7, <2>1 DEF Outcome, kPilotable
<1>8. CASE f.order = "Manual"
  <2>1. ManualInput(f.v)
    BY <1>8 DEF Execute
  <2>2. IInv'
    BY <1>1, <2>1, ManualInputInductive
  <2> DEFINE axes == clamped_axes(f.v)
  <2>3. axes \in Vec3 /\ manual_event(axes) \in {"ManualActive", "ManualCentred"}
    BY <1>1, AxesType DEF manual_event
  <2>4. state' = apply(state, manual_event(axes), axes).state
    BY <2>1 DEF ManualInput, Command, dispatch
  <2> HIDE DEF axes
  <2>5. state.mode \in {"Land", "Disarmed"} => state' = state
    BY <1>2, <2>3, <2>4, SticksRejected DEF kPilotable
  <2> QED BY <1>8, <2>2, <2>5
<1> QED BY <1>1, <1>4, <1>5, <1>6, <1>7, <1>8 DEF Orders

LEMMA HandleKeeps ==
  ASSUME LinkInv, LandingInv, Handle
  PROVE  LinkInv' /\ LandingInv'
<1> DEFINE f == Head(inbox)
<1>1. /\ inbox # <<>> /\ inbox' = Tail(inbox) /\ Execute(f)
      /\ uplink' = uplink /\ sinceTick' = sinceTick
      /\ landing' = (\/ landing
                     \/ f.order \in {"Land", "Disarm"} /\ ~inTransit({"Arm"}))
  BY DEF Handle
<1>2. /\ inbox' \in Seq(Frame) /\ f \in Frame
      /\ None(inbox, "Arm") => None(inbox', "Arm") /\ f.order # "Arm"
  BY <1>1, TailType DEF LinkInv
<1> HIDE DEF f
<1>3. /\ IInv'
      /\ /\ state.mode \in {"Land", "Disarmed"}
         /\ f.order # "Arm"
         => state'.mode \in {"Land", "Disarmed"}
      /\ f.order \in {"Land", "Disarm"} => state'.mode \in {"Land", "Disarmed"}
  BY <1>1, <1>2, ExecuteEffect DEF LinkInv
<1>4. ~inTransit({"Arm"}) => None(uplink, "Arm") /\ None(inbox, "Arm")
  BY DEF inTransit, None
<1>5. LinkInv'
  BY <1>1, <1>2, <1>3 DEF LinkInv
<1>6. ASSUME landing'
      PROVE  /\ state'.mode \in {"Land", "Disarmed"}
             /\ None(uplink', "Arm") /\ None(inbox', "Arm")
  BY <1>1, <1>2, <1>3, <1>4, <1>6 DEF LandingInv
<1> QED BY <1>5, <1>6 DEF LandingInv

LEMMA TeleInductive ==
  LinkInv /\ LandingInv /\ [TeleNext]_teleVars => LinkInv' /\ LandingInv'
<1> SUFFICES ASSUME LinkInv, LandingInv, [TeleNext]_teleVars
             PROVE  LinkInv' /\ LandingInv'
  OBVIOUS
<1>1. CASE Pass
  BY <1>1, PassKeeps
<1>2. CASE DroneTick
  <2>1. /\ WakeUp(sinceTick) /\ sinceTick' \in Nat
        /\ UNCHANGED <<uplink, inbox, landing>>
    BY <1>2 DEF DroneTick, link, operator
  <2>2. IInv' /\ state' = aged(state, sinceTick)
    BY <2>1, WakeUpInductive DEF LinkInv, WakeUp
  <2>3. state'.mode = state.mode
    BY <2>2, AgedSound DEF LinkInv, IInv
  <2> QED BY <2>1, <2>2, <2>3 DEF LinkInv, LandingInv
<1>3. CASE Handle
  BY <1>3, HandleKeeps
<1>4. CASE EndTick
  <2>1. Step /\ UNCHANGED <<sinceTick, uplink, inbox, landing>>
    BY <1>4 DEF EndTick, link, operator
  <2>2. LinkInv'
    BY <2>1, StepInductive DEF LinkInv
  <2>3. state.mode \in {"Land", "Disarmed"} => state'.mode \in {"Land", "Disarmed"}
    BY <2>1, StepModes DEF LinkInv
  <2> QED BY <2>1, <2>2, <2>3 DEF LandingInv
<1>5. CASE \E i \in DOMAIN uplink : Arrive(i) \/ Lose(i) \/ Repeat(i)
  BY <1>5, TransitKeeps
<1>6. CASE OpenFrame
  <2>1. UNCHANGED <<vars, sinceTick, uplink, inbox, landing>>
    BY <1>6 DEF OpenFrame, link, operator
  <2>2. LinkInv'
    BY <2>1, QuietTypes DEF LinkInv
  <2> QED BY <2>1, <2>2 DEF LandingInv, vars
<1>7. CASE \E a \in Sticks : Stick(a)
  BY <1>7, StickKeeps, InputAssumption
<1>8. CASE Operator
  <2>1. \E order \in Orders, v \in Vec3 : Click(order, v)
    BY <1>8, ZeroType, LinkAssumption, InputAssumption DEF Operator, Orders
  <2> QED BY <2>1, ClickKeeps
<1>9. CASE UNCHANGED teleVars
  <2>1. UNCHANGED <<vars, sinceTick, uplink, inbox, landing>>
    BY <1>9 DEF teleVars, link, operator
  <2>2. LinkInv'
    BY <2>1, QuietTypes DEF LinkInv
  <2> QED BY <2>1, <2>2 DEF LandingInv, vars
<1> QED
  BY <1>1, <1>2, <1>3, <1>4, <1>5, <1>6, <1>7, <1>8, <1>9
  DEF TeleNext, DroneStep, Deliver, StationStep

LEMMA TeleInvariance == TeleSpec => [](LinkInv /\ LandingInv)
<1>1. TeleInit => LinkInv /\ LandingInv
  BY InitSound
  DEF TeleInit, LinkInv, LandingInv, None, Init, InitialFlightState
<1> QED BY <1>1, TeleInductive, PTL DEF TeleSpec

-----------------------------------------------------------------------------
(***************************************************************************)
(* A dead man's handle across the link.  DeadMansHandle is not inductive:  *)
(* that the drone flies by hand for a while only follows from the age of   *)
(* the stick that it obeys, and that one's from the ages of the frames on  *)
(* the way and in the queue.                                               *)
(***************************************************************************)
Deflected(f) == f.order = "Manual" /\ f.v # Zero

Within(times, limit) == \E t \in times : t =< limit

\* The longest time that a frame in the queue waits for the drone's tick: the
\* tick that hands it over has set the clock back already.
waited == IF awake THEN DroneGap ELSE sinceTick

\* The longest time since the tick in which the stick was heard that is obeyed.
obeyed ==
    IF state.sinceInput > ManualTimeout THEN ManualTimeout + DroneGap
                                        ELSE state.sinceInput + sinceTick

ClockInv ==
    /\ open \in BOOLEAN /\ awake \in BOOLEAN
    /\ sinceTick \in 0 .. DroneGap /\ (awake => sinceTick = 0)
    /\ sinceStation \in 0 .. StationGap /\ (open => sinceStation = 0)
    /\ sinceDeflected \subseteq Nat
    /\ held \subseteq Nat
    /\ \A i \in DOMAIN uplink : uplink[i].age \in 0 .. MaxDelay

HandleInv ==
    /\ \A i \in DOMAIN uplink :
          Deflected(uplink[i]) => Within(sinceDeflected, uplink[i].age)
    /\ \A i \in DOMAIN inbox :
          Deflected(inbox[i]) => Within(sinceDeflected, MaxDelay + waited)
    /\ state.mode = "Manual" => Within(sinceDeflected, MaxDelay + DroneGap + obeyed)

LEMMA Weaker ==
  ASSUME NEW times, times \subseteq Nat, NEW a \in Int, NEW b \in Int, a =< b,
         Within(times, a)
  PROVE  Within(times, b)
  BY DEF Within

\* A unit of time: the history forgets nothing that the bounds still need.
LEMMA PassHandle ==
  ASSUME LinkInv, ClockInv, HandleInv, Pass
  PROVE  ClockInv' /\ HandleInv'
<1> USE LinkAssumption, FlightConfigAssumption
<1> DEFINE Later == {t + 1 : t \in {t \in sinceDeflected : t < DeadMansTime}}
           older == [i \in DOMAIN uplink |-> [uplink[i] EXCEPT !.age = @ + 1]]
<1>1. /\ ~awake /\ ~open
      /\ sinceTick \in Nat /\ sinceTick < DroneGap
      /\ sinceStation \in Nat /\ sinceStation < StationGap
      /\ \A i \in DOMAIN uplink : uplink[i].age \in Nat /\ uplink[i].age < MaxDelay
  BY DEF Pass, quiet, overdue, ClockInv
<1>2. /\ sinceTick' = sinceTick + 1 /\ sinceStation' = sinceStation + 1
      /\ uplink' = older /\ sinceDeflected' = Later
      /\ held' = {IF t > LongestSilence + DroneGap THEN t ELSE t + 1 : t \in held}
      /\ UNCHANGED <<state, awake, open, inbox>>
  BY DEF Pass, vars
<1>3. \A i \in DOMAIN uplink : uplink[i] \in Frame
  BY DEF LinkInv
<1>4. /\ DOMAIN uplink' = DOMAIN uplink
      /\ \A i \in DOMAIN uplink :
            /\ uplink'[i].age = uplink[i].age + 1
            /\ uplink'[i].order = uplink[i].order
            /\ uplink'[i].v = uplink[i].v
  BY <1>2, <1>3 DEF Frame
<1> HIDE DEF older
<1>5. sinceDeflected \subseteq Nat /\ held \subseteq Nat /\ DeadMansTime \in Nat
  BY DEF ClockInv, DeadMansTime
<1>6. ASSUME NEW b \in Int, b < DeadMansTime, Within(sinceDeflected, b)
      PROVE  Within(sinceDeflected', b + 1)
  <2>1. PICK t \in sinceDeflected : t =< b
    BY <1>6 DEF Within
  <2>2. t + 1 \in sinceDeflected' /\ t + 1 =< b + 1
    BY <1>2, <1>5, <1>6, <2>1
  <2> QED BY <2>2 DEF Within
<1>7. sinceDeflected' \subseteq Nat /\ held' \subseteq Nat
  BY <1>2, <1>5
<1>8. ClockInv'
  BY <1>1, <1>2, <1>4, <1>7 DEF ClockInv
<1>9. ASSUME NEW i \in DOMAIN uplink', Deflected(uplink'[i])
      PROVE  Within(sinceDeflected', uplink'[i].age)
  <2>1. Deflected(uplink[i]) /\ uplink[i].age < DeadMansTime /\ i \in DOMAIN uplink
    BY <1>1, <1>4, <1>9 DEF Deflected, DeadMansTime
  <2>2. Within(sinceDeflected, uplink[i].age) /\ uplink[i].age \in Int
    BY <1>1, <2>1 DEF HandleInv
  <2> QED BY <1>4, <1>6, <2>1, <2>2
<1>10. ASSUME NEW i \in DOMAIN inbox', Deflected(inbox'[i])
       PROVE  Within(sinceDeflected', MaxDelay + waited')
  <2>1. Within(sinceDeflected, MaxDelay + sinceTick)
    BY <1>1, <1>2, <1>10 DEF HandleInv, waited
  <2>2. Within(sinceDeflected', MaxDelay + sinceTick + 1)
    BY <1>1, <1>6, <2>1 DEF DeadMansTime
  <2> QED BY <1>1, <1>2, <2>2 DEF waited
<1>11. ASSUME state'.mode = "Manual"
       PROVE  Within(sinceDeflected', MaxDelay + DroneGap + obeyed')
  <2>1. state.sinceInput \in Nat /\ state.sinceInput =< ManualTimeout
    BY <1>1, <1>2, <1>11
    DEF LinkInv, IInv, Sound, FlightState, ManualOnlyWithFreshInput
  <2>2. Within(sinceDeflected, MaxDelay + DroneGap + state.sinceInput + sinceTick)
    BY <1>1, <1>2, <1>11, <2>1 DEF HandleInv, obeyed
  <2>3. Within(sinceDeflected',
               MaxDelay + DroneGap + state.sinceInput + sinceTick + 1)
    BY <1>1, <1>6, <2>1, <2>2 DEF DeadMansTime
  <2>4. obeyed' = state.sinceInput + sinceTick + 1
    BY <1>1, <1>2, <2>1 DEF obeyed
  <2> QED BY <1>1, <2>1, <2>3, <2>4
<1> QED BY <1>8, <1>9, <1>10, <1>11 DEF HandleInv

\* A click is no stick; a stick that is deflected starts the history anew.
LEMMA SendHandle ==
  ASSUME LinkInv, ClockInv, HandleInv,
         \/ \E order \in Orders \ {"Manual"}, v \in Vec3 : Click(order, v)
         \/ \E a \in Vec3 : Stick(a)
  PROVE  ClockInv' /\ HandleInv'
<1> USE LinkAssumption
<1>1. /\ UNCHANGED <<state, awake, sinceTick, sinceStation, inbox>>
      /\ open' \in BOOLEAN /\ (open' => open)
      /\ held' \in {held, {}, {0}}
      /\ sinceDeflected' \in {sinceDeflected, {0}}
  BY DEF Click, Stick, vars, gcs, ClockInv
<1>2. \/ uplink' = uplink
      \/ \E f \in Frame : /\ f.age = 0 /\ uplink' = Append(uplink, f)
                          /\ Deflected(f) => sinceDeflected' = {0}
  <2>1. CASE \E order \in Orders \ {"Manual"}, v \in Vec3 : Click(order, v)
    <3>1. PICK order \in Orders \ {"Manual"}, v \in Vec3 : Click(order, v)
      BY <2>1
    <3>2. /\ ordered(order, v) \in Frame /\ ordered(order, v).order # "Manual"
          /\ ordered(order, v).age = 0
          /\ uplink' = Append(uplink, ordered(order, v))
      BY <3>1, OrderedType DEF Click, ordered
    <3> QED BY <3>2 DEF Deflected
  <2>2. CASE \E a \in Vec3 : Stick(a)
    <3>1. PICK a \in Vec3 : Stick(a)
      BY <2>2
    <3>2. /\ ordered("Manual", a) \in Frame
          /\ ordered("Manual", a).age = 0 /\ ordered("Manual", a).v = a
      BY OrderedType DEF ordered, Orders
    <3>3. /\ \/ uplink' = Append(uplink, ordered("Manual", a))
             \/ uplink' = uplink
          /\ a # Zero => sinceDeflected' = {0}
      BY <3>1 DEF Stick
    <3> QED BY <3>2, <3>3 DEF Deflected
  <2> QED BY <2>1, <2>2
<1>3. ASSUME NEW b \in Nat, Within(sinceDeflected, b) \/ sinceDeflected' = {0}
      PROVE  Within(sinceDeflected', b)
  BY <1>1, <1>3 DEF Within
<1>4. \A i \in DOMAIN uplink :
         /\ uplink[i].age \in 0 .. MaxDelay
         /\ Deflected(uplink[i]) => Within(sinceDeflected, uplink[i].age)
  BY DEF ClockInv, HandleInv
<1>5. ASSUME NEW j \in DOMAIN uplink'
      PROVE  /\ uplink'[j].age \in 0 .. MaxDelay
             /\ Deflected(uplink'[j]) => Within(sinceDeflected', uplink'[j].age)
  <2>1. CASE \E k \in DOMAIN uplink : uplink'[j] = uplink[k]
    BY <1>3, <1>4, <2>1
  <2>2. CASE /\ uplink'[j].age = 0
             /\ Deflected(uplink'[j]) => sinceDeflected' = {0}
    BY <1>3, <2>2
  <2>3. CASE uplink' = uplink
    BY <2>1, <2>3
  <2>4. ASSUME NEW f \in Frame, f.age = 0, uplink' = Append(uplink, f),
               Deflected(f) => sinceDeflected' = {0}
        PROVE  \/ \E k \in DOMAIN uplink : uplink'[j] = uplink[k]
               \/ /\ uplink'[j].age = 0
                  /\ Deflected(uplink'[j]) => sinceDeflected' = {0}
    <3>1. uplink'[j] = f \/ \E k \in DOMAIN uplink : uplink'[j] = uplink[k]
      BY <2>4, AppendType DEF LinkInv
    <3> QED BY <2>4, <3>1
  <2> QED BY <1>2, <2>1, <2>2, <2>3, <2>4
<1>6. ClockInv'
  BY <1>1, <1>5 DEF ClockInv
<1>7. MaxDelay + waited \in Nat /\ (state.mode = "Manual" => MaxDelay + DroneGap + obeyed \in Nat)
  BY FlightConfigAssumption
  DEF waited, obeyed, LinkInv, IInv, Sound, FlightState
<1>8. waited' = waited /\ obeyed' = obeyed
  BY <1>1 DEF waited, obeyed
<1>9. \A i \in DOMAIN inbox' :
         Deflected(inbox'[i]) => Within(sinceDeflected', MaxDelay + waited')
  BY <1>1, <1>3, <1>7, <1>8 DEF HandleInv
<1>10. state'.mode = "Manual" =>
          Within(sinceDeflected', MaxDelay + DroneGap + obeyed')
  BY <1>1, <1>3, <1>7, <1>8 DEF HandleInv
<1> QED BY <1>5, <1>6, <1>9, <1>10 DEF HandleInv

\* A frame keeps its age until it arrives, and a copy has that of its original.
LEMMA TransitHandle ==
  ASSUME LinkInv, ClockInv, HandleInv, NEW i \in DOMAIN uplink,
         Arrive(i) \/ Lose(i) \/ Repeat(i)
  PROVE  ClockInv' /\ HandleInv'
<1> USE LinkAssumption
<1>1. /\ UNCHANGED <<state, awake, sinceTick, open, sinceStation,
                     sinceDeflected, held>>
      /\ ~awake
      /\ \/ uplink' = RemoveAt(uplink, i) \/ uplink' = Append(uplink, uplink[i])
      /\ \/ inbox' = inbox \/ inbox' = Append(inbox, [uplink[i] EXCEPT !.age = 0])
  BY DEF Arrive, Lose, Repeat, vars, gcs, operator, quiet
<1>2. uplink \in Seq(Frame) /\ inbox \in Seq(Frame) /\ uplink[i] \in Frame
  BY DEF LinkInv
<1> DEFINE f == [uplink[i] EXCEPT !.age = 0]
<1>3. f \in Frame /\ f.order = uplink[i].order /\ f.v = uplink[i].v
  <2>1. uplink[i] = [order |-> uplink[i].order, v |-> uplink[i].v,
                     age |-> uplink[i].age]
    BY <1>2 DEF Frame
  <2>2. f = [order |-> uplink[i].order, v |-> uplink[i].v, age |-> 0]
    BY <2>1
  <2> HIDE DEF f
  <2> QED BY <1>2, <2>2 DEF Frame
<1> HIDE DEF f
<1>4. Among(uplink', uplink)
  <2>1. CASE uplink' = RemoveAt(uplink, i)
    BY <1>2, <2>1, RemoveType
  <2>2. CASE uplink' = Append(uplink, uplink[i])
    BY <1>2, <2>2, AppendType DEF Among
  <2> QED BY <1>1, <2>1, <2>2
<1>5. \A j \in DOMAIN inbox' :
         \/ inbox'[j] = f
         \/ \E k \in DOMAIN inbox : inbox'[j] = inbox[k]
  <2>1. CASE inbox' = inbox
    BY <2>1
  <2>2. CASE inbox' = Append(inbox, f)
    BY <1>2, <1>3, <2>2, AppendType
  <2> QED BY <1>1, <2>1, <2>2 DEF f
<1>6. waited' = waited /\ obeyed' = obeyed /\ waited = sinceTick
  BY <1>1 DEF waited, obeyed
<1>7. ClockInv'
  BY <1>1, <1>4 DEF ClockInv, Among
<1>8. \A j \in DOMAIN uplink' :
         Deflected(uplink'[j]) => Within(sinceDeflected', uplink'[j].age)
  BY <1>1, <1>4 DEF HandleInv, Among
<1>9. Deflected(f) => Within(sinceDeflected, MaxDelay + waited)
  <2>1. Deflected(f) => Within(sinceDeflected, uplink[i].age)
    BY <1>3 DEF Deflected, HandleInv
  <2>2. /\ uplink[i].age \in 0 .. MaxDelay /\ sinceTick \in Nat
        /\ sinceDeflected \subseteq Nat
    BY DEF ClockInv
  <2> QED BY <1>6, <2>1, <2>2, Weaker
<1>10. \A j \in DOMAIN inbox' :
          Deflected(inbox'[j]) => Within(sinceDeflected', MaxDelay + waited')
  BY <1>1, <1>5, <1>6, <1>9 DEF HandleInv
<1> QED BY <1>1, <1>6, <1>7, <1>8, <1>10 DEF HandleInv

\* What the receiver makes of a frame: manual flight goes on, or begins with a
\* deflected stick.
LEMMA ExecuteManual ==
  ASSUME IInv, NEW f \in Frame, Execute(f), state'.mode = "Manual"
  PROVE  /\ \/ state.mode = "Manual" /\ state'.sinceInput = state.sinceInput
            \/ Deflected(f) /\ state'.sinceInput = 0
         /\ UNCHANGED <<awake, fence_engaged, recorded, dt>>
<1>1. f.order \in Orders /\ f.v \in Vec3 /\ state \in FlightState
  BY DEF Frame, IInv, Sound
<1>2. ASSUME NEW event, NEW v \in Vec3, Command(event, v)
      PROVE  /\ \/ state.mode = "Manual" /\ state'.sinceInput = state.sinceInput
                \/ event = "ManualActive" /\ state'.sinceInput = 0
             /\ UNCHANGED <<awake, fence_engaged, recorded, dt>>
  <2>1. /\ state' = apply(state, event, v).state
        /\ UNCHANGED <<awake, fence_engaged, recorded, dt>>
    BY <1>2 DEF Command, dispatch
  <2>2. TableEffect(state, event, v, apply(state, event, v).state)
    BY <1>1, ApplyEffect
  <2> QED BY <1>1, <2>1, <2>2, ManualEffect
<1>3. CASE f.order # "Manual"
  <2>1. \E event \in {"Arm", "Disarm", "Land", "Goto"}, v \in Vec3 :
           Command(event, v)
    BY <1>1, <1>3, ZeroType DEF Execute, Arm, Disarm, Land, Goto
  <2> QED BY <1>2, <2>1
<1>4. CASE f.order = "Manual"
  <2> DEFINE axes == clamped_axes(f.v)
  <2>1. axes \in Vec3
    BY <1>1, AxesType
  <2>2. Command(manual_event(axes), axes)
    BY <1>4 DEF Execute, ManualInput
  <2>3. f.v = Zero => axes = Zero
    <3>1. clamp(0, -FullStick, FullStick) = 0
      BY FlightConfigAssumption DEF clamp
    <3>2. 0 * 0 + 0 * 0 =< FullStick * FullStick
      BY FlightConfigAssumption
    <3> QED
      BY <3>1, <3>2, ZeroType, FlightConfigAssumption
      DEF clamped_axes, clamp_to_unit_ball, normSquared, Zero
  <2> HIDE DEF axes
  <2>4. manual_event(axes) = "ManualActive" => axes # Zero
    BY DEF manual_event
  <2> QED BY <1>2, <1>4, <2>1, <2>2, <2>3, <2>4 DEF Deflected
<1> QED BY <1>3, <1>4

\* The drone's tick: a frame that waited for it is handed over, and the stick
\* that is obeyed is no older than the timeout and the gap when the tick begins,
\* and than the timeout when it ends.
LEMMA TickHandle ==
  ASSUME LinkInv, ClockInv, HandleInv, DroneTick
  PROVE  ClockInv' /\ HandleInv'
<1> USE LinkAssumption, FlightConfigAssumption
<1>1. /\ ~awake /\ awake' = TRUE /\ sinceTick' = 0
      /\ state' = aged(state, sinceTick)
      /\ UNCHANGED <<open, sinceStation, uplink, inbox, sinceDeflected, held>>
  BY DEF DroneTick, WakeUp, quiet, link, gcs, operator
<1>2. /\ sinceTick \in 0 .. DroneGap /\ sinceDeflected \subseteq Nat
      /\ state \in FlightState
      /\ state.mode = "Manual" => state.sinceInput \in 0 .. ManualTimeout
  BY <1>1 DEF ClockInv, LinkInv, IInv, Sound, FlightState,
              ManualOnlyWithFreshInput
<1>3. ClockInv'
  BY <1>1 DEF ClockInv
<1>4. ASSUME NEW i \in DOMAIN inbox', Deflected(inbox'[i])
      PROVE  Within(sinceDeflected', MaxDelay + waited')
  <2>1. Within(sinceDeflected, MaxDelay + sinceTick)
    BY <1>1, <1>4 DEF HandleInv, waited
  <2>2. waited' = DroneGap /\ sinceTick =< DroneGap /\ sinceTick \in Nat
    BY <1>1, <1>2 DEF waited
  <2>3. PICK t \in sinceDeflected : t =< MaxDelay + sinceTick
    BY <2>1 DEF Within
  <2>4. t =< MaxDelay + waited'
    BY <1>2, <2>2, <2>3
  <2> QED BY <1>1, <2>4 DEF Within
<1>5. ASSUME state'.mode = "Manual"
      PROVE  Within(sinceDeflected', MaxDelay + DroneGap + obeyed')
  <2>1. /\ state'.mode = state.mode
        /\ state'.sinceInput = IF state.sinceInput + sinceTick > Expired
                               THEN Expired ELSE state.sinceInput + sinceTick
    BY <1>1, <1>2 DEF aged, FlightState
  <2>2. obeyed \in Nat /\ obeyed' \in Nat /\ obeyed =< obeyed'
    BY <1>1, <1>2, <1>5, <2>1 DEF obeyed, Expired
  <2>3. Within(sinceDeflected, MaxDelay + DroneGap + obeyed)
    BY <1>5, <2>1 DEF HandleInv
  <2>4. Within(sinceDeflected, MaxDelay + DroneGap + obeyed')
    <3> DEFINE o == obeyed
               p == obeyed'
    <3>1. o \in Nat /\ p \in Nat /\ o =< p
      BY <2>2
    <3>2. Within(sinceDeflected, MaxDelay + DroneGap + o)
      BY <2>3
    <3> HIDE DEF o, p
    <3>3. Within(sinceDeflected, MaxDelay + DroneGap + p)
      BY <1>2, <3>1, <3>2 DEF Within
    <3> QED BY <3>3 DEF p
  <2> QED BY <1>1, <2>4
<1>6. \A i \in DOMAIN uplink' :
         Deflected(uplink'[i]) => Within(sinceDeflected', uplink'[i].age)
  BY <1>1 DEF HandleInv
<1> QED BY <1>3, <1>4, <1>5, <1>6 DEF HandleInv

LEMMA HandedHandle ==
  ASSUME LinkInv, ClockInv, HandleInv, Handle, awake
  PROVE  ClockInv' /\ HandleInv'
<1> USE LinkAssumption, FlightConfigAssumption
<1>1. /\ inbox # <<>> /\ inbox' = Tail(inbox) /\ Execute(Head(inbox))
      /\ UNCHANGED <<sinceTick, open, sinceStation, uplink, sinceDeflected, held>>
  BY DEF Handle, gcs
<1>2. awake' = awake
  BY <1>1 DEF Execute, Arm, Disarm, Land, Goto, ManualInput, Command
<1>3. /\ Head(inbox) \in Frame /\ Among(inbox', inbox)
      /\ \E k \in DOMAIN inbox : Head(inbox) = inbox[k]
  BY <1>1, TailType DEF LinkInv
<1>4. Deflected(Head(inbox)) => Within(sinceDeflected, MaxDelay + DroneGap)
  BY <1>3 DEF HandleInv, waited
<1>5. \A i \in DOMAIN inbox' :
         Deflected(inbox'[i]) => Within(sinceDeflected', MaxDelay + waited')
  BY <1>1, <1>2, <1>3 DEF HandleInv, waited, Among
<1>6. ASSUME state'.mode = "Manual"
      PROVE  Within(sinceDeflected', MaxDelay + DroneGap + obeyed')
  <2>1. \/ state.mode = "Manual" /\ state'.sinceInput = state.sinceInput
        \/ Deflected(Head(inbox)) /\ state'.sinceInput = 0
    BY <1>1, <1>3, <1>6, ExecuteManual DEF LinkInv
  <2>2. CASE state.mode = "Manual" /\ state'.sinceInput = state.sinceInput
    BY <1>1, <2>2 DEF HandleInv, obeyed
  <2>3. CASE Deflected(Head(inbox)) /\ state'.sinceInput = 0
    <3>1. obeyed' = 0
      BY <1>1, <2>3 DEF obeyed, ClockInv
    <3> QED BY <1>1, <1>4, <2>3, <3>1
  <2> QED BY <2>1, <2>2, <2>3
<1>7. ClockInv'
  BY <1>1, <1>2 DEF ClockInv
<1> QED BY <1>1, <1>5, <1>6, <1>7 DEF HandleInv

\* The step of a tick ends a manual flight that nobody holds, and keeps the
\* instant of the last input of any other.
LEMMA StepManualFlight ==
  ASSUME IInv, Step
  PROVE  /\ state'.mode = "Manual" =>
              /\ state.mode = "Manual" /\ state.sinceInput =< ManualTimeout
              /\ state'.sinceInput = state.sinceInput
         /\ state.mode = "Manual" /\ state.sinceInput =< ManualTimeout =>
              state'.mode = "Manual"
<1> DEFINE timed == feed(state, transition, timeout_event(state))
           moved == integrate(timed.state, dt)
           done == feed(moved.state, timed.transition,
                        completion_event(moved.state))
<1>1. state' = done.state /\ Sound(state) /\ dt \in Nat /\ state \in FlightState
  BY DEF Step, IInv, Sound
<1>2. CASE state.mode # "Manual"
  BY <1>2, StepModes
<1>3. CASE state.mode = "Manual" /\ state.sinceInput > ManualTimeout
  <2>1. timed.state.mode = "Hold"
    <3>1. timeout_event(state) = {"ManualTimeout"}
      BY <1>3 DEF timeout_event
    <3>2. timed.state = apply(state, "ManualTimeout", Zero).state
      BY <3>1 DEF feed, dispatch, the
    <3> QED BY <1>1, <1>3, <3>2, TimeoutHolds
  <2>2. Sound(timed.state)
    BY FeedSound, DerivedEvents DEF IInv
  <2> HIDE DEF timed
  <2>3. Sound(moved.state) /\ moved.state.mode = "Hold"
    BY <1>1, <2>1, <2>2, IntegrateSound
  <2> HIDE DEF moved
  <2>4. done.state = moved.state
    BY <2>3, CompletionEffect DEF Completion
  <2> QED BY <1>1, <1>3, <2>3, <2>4, FlightConfigAssumption
           DEF FlightState, Expired
<1>4. CASE state.mode = "Manual" /\ ~(state.sinceInput > ManualTimeout)
  <2>1. timed.state = state
    BY <1>4 DEF timeout_event, feed
  <2> HIDE DEF timed
  <2>2. /\ Sound(moved.state) /\ moved.state.mode = "Manual"
        /\ moved.state.sinceInput = state.sinceInput
    BY <1>1, <1>4, <2>1, IntegrateSound
  <2> HIDE DEF moved
  <2>3. done.state = moved.state
    BY <2>2, CompletionEffect DEF Completion
  <2> QED BY <1>1, <1>4, <2>2, <2>3, FlightConfigAssumption
           DEF FlightState, Expired
<1> QED BY <1>2, <1>3, <1>4

LEMMA EndTickHandle ==
  ASSUME LinkInv, ClockInv, HandleInv, EndTick
  PROVE  ClockInv' /\ HandleInv'
<1> USE LinkAssumption, FlightConfigAssumption
<1>1. /\ Step /\ awake' = FALSE /\ inbox = <<>>
      /\ UNCHANGED <<sinceTick, open, sinceStation, uplink, inbox,
                     sinceDeflected, held>>
  BY DEF EndTick, Step, link, gcs, operator
<1>2. ClockInv'
  BY <1>1 DEF ClockInv
<1>3. ASSUME state'.mode = "Manual"
      PROVE  Within(sinceDeflected', MaxDelay + DroneGap + obeyed')
  <2>1. state.mode = "Manual" /\ state'.sinceInput = state.sinceInput
    BY <1>1, <1>3, StepManualFlight DEF LinkInv
  <2> QED BY <1>1, <2>1 DEF HandleInv, obeyed
<1> QED BY <1>1, <1>2, <1>3 DEF HandleInv

LEMMA HandleInductive ==
  ASSUME LinkInv, ClockInv, HandleInv, [TeleNext]_teleVars
  PROVE  ClockInv' /\ HandleInv'
<1>1. CASE Pass
  BY <1>1, PassHandle
<1>2. CASE DroneTick
  BY <1>2, TickHandle
<1>3. CASE Handle
  <2>1. awake
    BY <1>3 DEF Handle, Execute, Arm, Disarm, Land, Goto, ManualInput, Command
  <2> QED BY <1>3, <2>1, HandedHandle
<1>4. CASE EndTick
  BY <1>4, EndTickHandle
<1>5. CASE \E i \in DOMAIN uplink : Arrive(i) \/ Lose(i) \/ Repeat(i)
  BY <1>5, TransitHandle
<1>6. CASE OpenFrame
  <2>1. /\ open' = TRUE /\ sinceStation' = 0
        /\ UNCHANGED <<state, awake, sinceTick, uplink, inbox, sinceDeflected,
                       held>>
    BY <1>6 DEF OpenFrame, vars, link, operator
  <2> QED BY <2>1, LinkAssumption DEF ClockInv, HandleInv, waited, obeyed
<1>7. CASE \E a \in Sticks : Stick(a)
  BY <1>7, SendHandle, InputAssumption
<1>8. CASE Operator
  <2>1. \E order \in Orders \ {"Manual"}, v \in Vec3 : Click(order, v)
    BY <1>8, ZeroType, LinkAssumption, InputAssumption DEF Operator, Orders
  <2> QED BY <2>1, SendHandle
<1>9. CASE UNCHANGED teleVars
  <2>1. UNCHANGED <<state, awake, open, sinceStation, sinceTick, uplink, inbox,
                    sinceDeflected, held>>
    BY <1>9 DEF teleVars, vars, link, gcs, operator
  <2> QED BY <2>1 DEF ClockInv, HandleInv, waited, obeyed
<1> QED
  BY <1>1, <1>2, <1>3, <1>4, <1>5, <1>6, <1>7, <1>8, <1>9
  DEF TeleNext, DroneStep, Deliver, StationStep

LEMMA HandleInvariance == TeleSpec => [](LinkInv /\ ClockInv /\ HandleInv)
<1>1. TeleInit => ClockInv /\ HandleInv
  <2> SUFFICES ASSUME TeleInit PROVE ClockInv /\ HandleInv
    OBVIOUS
  <2>1. /\ DOMAIN uplink = {} /\ DOMAIN inbox = {}
        /\ state.mode = "Disarmed" /\ awake = FALSE /\ open = FALSE
        /\ sinceTick = 0 /\ sinceStation = 0
        /\ sinceDeflected = {} /\ held = {}
    BY DEF TeleInit, Init, InitialFlightState
  <2>2. ClockInv
    <3>1. DroneGap \in Nat /\ StationGap \in Nat
      BY LinkAssumption
    <3>2. sinceTick \in 0 .. DroneGap /\ sinceStation \in 0 .. StationGap
      BY <2>1, <3>1
    <3> QED BY <2>1, <3>2 DEF ClockInv
  <2>3. HandleInv
    BY <2>1 DEF HandleInv
  <2> QED BY <2>2, <2>3
<1> QED BY <1>1, TeleInvariance, HandleInductive, PTL DEF TeleSpec

-----------------------------------------------------------------------------
(***************************************************************************)
(* A stick that is held.  HeldStickFlies says that the timeout does not    *)
(* fire, and so that not too much time passes without a stick: at least    *)
(* one is sent every Period, each that was sent is on its way unless it    *)
(* arrived or was lost, and it is lost no more than MaxLosses times in a   *)
(* row.  The invariant counts the sticks on the way that are older than x, *)
(* for every x.                                                            *)
(***************************************************************************)
Period == ManualPeriod + StationGap - 1

OlderSticks(frames, x) ==
    {i \in DOMAIN frames : frames[i].order = "Manual" /\ frames[i].age >= x}

Count(frames, x) == Cardinality(OlderSticks(frames, x))

LEMMA CountType ==
  ASSUME NEW s \in Seq(Frame), NEW x \in Nat
  PROVE  IsFiniteSet(OlderSticks(s, x)) /\ Count(s, x) \in Nat
<1>1. DOMAIN s = 1 .. Len(s) /\ Len(s) \in Nat
  OBVIOUS
<1>2. IsFiniteSet(DOMAIN s)
  BY <1>1, FS_Interval
<1>3. OlderSticks(s, x) \in SUBSET DOMAIN s
  BY DEF OlderSticks
<1>4. IsFiniteSet(OlderSticks(s, x))
  BY <1>2, <1>3, FS_Subset
<1> QED BY <1>4, FS_CardinalityType DEF Count

LEMMA CountAppend ==
  ASSUME NEW s \in Seq(Frame), NEW f \in Frame, NEW x \in Nat
  PROVE  /\ Count(Append(s, f), x) >= Count(s, x)
         /\ f.order = "Manual" /\ f.age >= x =>
              Count(Append(s, f), x) = Count(s, x) + 1
<1> DEFINE r == Append(s, f)
           n == Len(s) + 1
<1>1. /\ DOMAIN r = 1 .. n /\ Len(s) \in Nat /\ DOMAIN s = 1 .. Len(s)
      /\ r[n] = f /\ (\A j \in 1 .. Len(s) : r[j] = s[j]) /\ r \in Seq(Frame)
  OBVIOUS
<1> HIDE DEF r
<1>2. /\ OlderSticks(s, x) \subseteq OlderSticks(r, x)
      /\ f.order = "Manual" /\ f.age >= x =>
            OlderSticks(r, x) = OlderSticks(s, x) \cup {n}
      /\ n \notin OlderSticks(s, x)
  BY <1>1 DEF OlderSticks
<1>3. /\ IsFiniteSet(OlderSticks(s, x)) /\ Count(s, x) \in Nat
      /\ IsFiniteSet(OlderSticks(r, x)) /\ Count(r, x) \in Nat
  BY <1>1, CountType
<1>4. Count(s, x) =< Count(r, x)
  BY <1>2, <1>3, FS_Subset DEF Count
<1>5. f.order = "Manual" /\ f.age >= x => Count(r, x) = Count(s, x) + 1
  BY <1>2, <1>3, FS_AddElement DEF Count
<1>6. Count(r, x) >= Count(s, x)
  BY <1>3, <1>4
<1> QED BY <1>5, <1>6 DEF r

LEMMA CountRemove ==
  ASSUME NEW s \in Seq(Frame), NEW k \in DOMAIN s, NEW x \in Nat
  PROVE  /\ Count(RemoveAt(s, k), x) + 1 >= Count(s, x)
         /\ s[k].order # "Manual" => Count(RemoveAt(s, k), x) >= Count(s, x)
<1> DEFINE r == RemoveAt(s, k)
           A == OlderSticks(s, x)
           B == OlderSticks(r, x)
           g == [j \in A \ {k} |-> IF j < k THEN j ELSE j - 1]
<1>1. k \in 1 .. Len(s) /\ Len(s) \in Nat /\ DOMAIN s = 1 .. Len(s)
  OBVIOUS
<1>2. /\ r \in Seq(Frame) /\ DOMAIN r = 1 .. Len(s) - 1
      /\ \A j \in 1 .. k - 1 : r[j] = s[j]
      /\ \A j \in k .. Len(s) - 1 : r[j] = s[j + 1]
  BY RemoveEntries
<1>3. /\ IsFiniteSet(A) /\ Count(s, x) \in Nat
      /\ IsFiniteSet(B) /\ Count(r, x) \in Nat
  BY <1>2, CountType
<1> HIDE DEF r
<1>4. A \subseteq 1 .. Len(s)
  BY <1>1 DEF OlderSticks
<1>5. ASSUME NEW j \in A \ {k} PROVE g[j] \in B
  <2>1. j \in 1 .. Len(s) /\ s[j].order = "Manual" /\ s[j].age >= x /\ j # k
    BY <1>1, <1>5 DEF OlderSticks
  <2>2. CASE j < k
    <3>1. g[j] = j /\ j \in DOMAIN r /\ r[j] = s[j]
      BY <1>1, <1>2, <2>1, <2>2
    <3> QED BY <2>1, <3>1 DEF OlderSticks
  <2>3. CASE j > k
    <3>1. g[j] = j - 1 /\ j - 1 \in k .. Len(s) - 1 /\ (j - 1) + 1 = j
      BY <1>1, <2>1, <2>3
    <3>2. j - 1 \in DOMAIN r /\ r[j - 1] = s[j]
      BY <1>1, <1>2, <3>1
    <3> QED BY <2>1, <3>1, <3>2 DEF OlderSticks
  <2> QED BY <1>1, <2>1, <2>2, <2>3
<1>6. \A i, j \in A \ {k} : g[i] = g[j] => i = j
  BY <1>1, <1>4
<1>7. g \in Injection(A \ {k}, B)
  BY <1>5, <1>6 DEF Injection, IsInjective
<1> HIDE DEF A, B, g
<1>8. Cardinality(A \ {k}) =< Cardinality(B)
  BY <1>3, <1>7, FS_Injection
<1>9. Cardinality(A \ {k}) = IF k \in A THEN Cardinality(A) - 1 ELSE Cardinality(A)
  BY <1>3, FS_RemoveElement
<1>10. Count(s, x) = Cardinality(A) /\ Count(r, x) = Cardinality(B)
  BY DEF Count, A, B
<1>11. s[k].order # "Manual" => k \notin A
  BY DEF A, OlderSticks
<1>12. /\ Count(r, x) + 1 >= Count(s, x)
       /\ s[k].order # "Manual" => Count(r, x) >= Count(s, x)
  BY <1>3, <1>8, <1>9, <1>10, <1>11
<1> QED BY <1>12 DEF r

LEMMA Times ==
  ASSUME NEW a \in Nat, NEW b \in Nat, NEW p \in Nat
  PROVE  /\ a * p \in Nat
         /\ (a + 1) * p = a * p + p
         /\ a =< b => a * p =< b * p
<1>1. ASSUME a =< b PROVE a * p =< b * p
  <2>1. b - a \in Nat /\ b = a + (b - a)
    BY <1>1
  <2>2. (b - a) * p \in Nat /\ b * p = a * p + (b - a) * p
    BY <2>1
  <2> QED BY <2>2
<1> QED BY <1>1

LEMMA PeriodType == Period \in Nat \ {0}
  BY LinkAssumption DEF Period

\* In a time w without an answer that matters, every Period that has passed has
\* left a stick that is still on its way, or one of the lost ones.  The last was
\* sent the given time ago.
Chain(lost, frames, last, w) ==
    /\ w - last =< (lost + Count(frames, 0)) * Period
    /\ \A x \in Nat : last < x /\ x =< w =>
          w - x < (lost + Count(frames, x) + 1) * Period

LEMMA ChainZero ==
  ASSUME NEW lost \in Nat, NEW s \in Seq(Frame), NEW last \in Nat
  PROVE  Chain(lost, s, last, 0)
<1>1. Count(s, 0) \in Nat
  BY CountType
<1>2. (lost + Count(s, 0)) * Period \in Nat
  <2>1. lost + Count(s, 0) \in Nat
    BY <1>1
  <2> QED BY <2>1, PeriodType, Times
<1>3. 0 - last =< (lost + Count(s, 0)) * Period
  BY <1>2
<1>4. \A x \in Nat : ~(last < x /\ x =< 0)
  OBVIOUS
<1> QED BY <1>3, <1>4 DEF Chain

\* More sticks on the way, or more lost ones, break no chain.
LEMMA ChainGrows ==
  ASSUME NEW lost \in Nat, NEW s \in Seq(Frame), NEW last \in Nat, NEW w \in Nat,
         NEW more \in Nat, NEW r \in Seq(Frame),
         Chain(lost, s, last, w),
         \A x \in Nat : lost + Count(s, x) =< more + Count(r, x)
  PROVE  Chain(more, r, last, w)
<1>1. ASSUME NEW x \in Nat
      PROVE  /\ (lost + Count(s, x)) * Period \in Nat
             /\ (more + Count(r, x)) * Period \in Nat
             /\ (lost + Count(s, x)) * Period =< (more + Count(r, x)) * Period
             /\ (lost + Count(s, x) + 1) * Period \in Nat
             /\ (more + Count(r, x) + 1) * Period \in Nat
             /\ (lost + Count(s, x) + 1) * Period =< (more + Count(r, x) + 1) * Period
  <2> DEFINE a == lost + Count(s, x)
             b == more + Count(r, x)
  <2>0. Count(s, x) \in Nat /\ Count(r, x) \in Nat
    BY CountType
  <2>1. a \in Nat /\ b \in Nat /\ a =< b /\ Period \in Nat
    BY <2>0, PeriodType
  <2> HIDE DEF a, b
  <2>2. /\ a * Period \in Nat /\ b * Period \in Nat /\ a * Period =< b * Period
        /\ (a + 1) * Period \in Nat /\ (b + 1) * Period \in Nat
        /\ (a + 1) * Period =< (b + 1) * Period
    <3>1. a + 1 \in Nat /\ b + 1 \in Nat /\ a + 1 =< b + 1
      BY <2>1
    <3> QED BY <2>1, <3>1, Times
  <2> QED BY <2>2 DEF a, b
<1>2. w - last =< (more + Count(r, 0)) * Period
  <2> DEFINE a == (lost + Count(s, 0)) * Period
             b == (more + Count(r, 0)) * Period
  <2>1. w - last =< a
    BY DEF Chain
  <2>2. a \in Nat /\ b \in Nat /\ a =< b
    BY <1>1
  <2> HIDE DEF a, b
  <2>3. w - last =< b
    BY <2>1, <2>2
  <2> QED BY <2>3 DEF b
<1>3. ASSUME NEW x \in Nat, last < x, x =< w
      PROVE  w - x < (more + Count(r, x) + 1) * Period
  <2> DEFINE a == (lost + Count(s, x) + 1) * Period
             b == (more + Count(r, x) + 1) * Period
  <2>1. w - x < a
    BY <1>3 DEF Chain
  <2>2. a \in Nat /\ b \in Nat /\ a =< b
    BY <1>1
  <2> HIDE DEF a, b
  <2>3. w - x < b
    BY <2>1, <2>2
  <2> QED BY <2>3 DEF b
<1> QED BY <1>2, <1>3 DEF Chain

LEMMA ChainAppend ==
  ASSUME NEW lost \in Nat, NEW s \in Seq(Frame), NEW last \in Nat, NEW w \in Nat,
         NEW f \in Frame, Chain(lost, s, last, w)
  PROVE  Chain(lost, Append(s, f), last, w)
<1>1. Append(s, f) \in Seq(Frame)
  OBVIOUS
<1>2. ASSUME NEW x \in Nat
      PROVE  lost + Count(s, x) =< lost + Count(Append(s, f), x)
  <2>1. Count(s, x) \in Nat /\ Count(Append(s, f), x) \in Nat
    BY <1>1, CountType
  <2>2. Count(Append(s, f), x) >= Count(s, x)
    BY CountAppend
  <2> QED BY <2>1, <2>2
<1> QED BY <1>1, <1>2, ChainGrows

LEMMA ChainRemove ==
  ASSUME NEW lost \in Nat, NEW s \in Seq(Frame), NEW last \in Nat, NEW w \in Nat,
         NEW k \in DOMAIN s, Chain(lost, s, last, w)
  PROVE  /\ Chain(lost + 1, RemoveAt(s, k), last, w)
         /\ s[k].order # "Manual" => Chain(lost, RemoveAt(s, k), last, w)
<1>1. RemoveAt(s, k) \in Seq(Frame)
  BY RemoveEntries
<1>2. ASSUME NEW x \in Nat
      PROVE  /\ lost + Count(s, x) =< lost + 1 + Count(RemoveAt(s, k), x)
             /\ s[k].order # "Manual" =>
                  lost + Count(s, x) =< lost + Count(RemoveAt(s, k), x)
  <2>1. Count(s, x) \in Nat /\ Count(RemoveAt(s, k), x) \in Nat
    BY <1>1, CountType
  <2>2. /\ Count(RemoveAt(s, k), x) + 1 >= Count(s, x)
        /\ s[k].order # "Manual" => Count(RemoveAt(s, k), x) >= Count(s, x)
    BY CountRemove
  <2> QED BY <2>1, <2>2
<1>3. Chain(lost + 1, RemoveAt(s, k), last, w)
  <2>1. lost + 1 \in Nat
    OBVIOUS
  <2> QED BY <1>1, <1>2, <2>1, ChainGrows
<1>4. ASSUME s[k].order # "Manual"
      PROVE  Chain(lost, RemoveAt(s, k), last, w)
  BY <1>1, <1>2, <1>4, ChainGrows
<1> QED BY <1>3, <1>4

\* A stick that is sent in time goes on with the chain.
LEMMA ChainSend ==
  ASSUME NEW lost \in Nat, NEW s \in Seq(Frame), NEW last \in Nat, NEW w \in Nat,
         Chain(lost, s, last, w), last =< Period,
         \A i \in DOMAIN s : s[i].age \in Nat /\
                             (s[i].order = "Manual" => last =< s[i].age),
         NEW f \in Frame, f.order = "Manual", f.age = 0
  PROVE  Chain(lost, Append(s, f), 0, w)
<1> DEFINE r == Append(s, f)
           n == lost + Count(s, 0)
<1>1. r \in Seq(Frame)
  OBVIOUS
<1>2. /\ n \in Nat /\ n * Period \in Nat /\ (n + 1) * Period = n * Period + Period
      /\ Period \in Nat \ {0}
  <2>1. Count(s, 0) \in Nat
    BY CountType
  <2>2. n \in Nat
    BY <2>1
  <2> HIDE DEF n
  <2> QED BY <2>2, PeriodType, Times
<1>3. w - last =< n * Period
  BY DEF Chain
<1>4. lost + Count(r, 0) = n + 1
  <2>1. Count(s, 0) \in Nat
    BY CountType
  <2>2. Count(r, 0) = Count(s, 0) + 1
    <3>1. f.age >= 0
      OBVIOUS
    <3> QED BY <3>1, CountAppend
  <2> HIDE DEF r
  <2> QED BY <2>1, <2>2
<1>5. w - 0 =< (lost + Count(r, 0)) * Period
  <2> HIDE DEF n, r
  <2>1. w =< n * Period + Period
    BY <1>2, <1>3
  <2> QED BY <1>2, <1>4, <2>1
<1>6. ASSUME NEW x \in Nat, 0 < x, x =< w
      PROVE  w - x < (lost + Count(r, x) + 1) * Period
  <2>1. Count(r, x) >= Count(s, x) /\ Count(r, x) \in Nat /\ Count(s, x) \in Nat
    BY <1>1, CountAppend, CountType
  <2>2. CASE x =< last
    <3>1. OlderSticks(s, x) = OlderSticks(s, 0)
      BY <2>2 DEF OlderSticks
    <3>2. Count(s, x) = Count(s, 0)
      BY <3>1 DEF Count
    <3>3. w - x < n * Period + Period
      <4> HIDE DEF n
      <4> QED BY <1>2, <1>3, <1>6, <2>2
    <3> DEFINE k == lost + Count(r, x)
    <3>4. k \in Nat /\ n =< k
      BY <2>1, <3>2
    <3> HIDE DEF n, k
    <3>5. (n + 1) * Period =< (k + 1) * Period /\ (k + 1) * Period \in Nat
      <4>1. n + 1 \in Nat /\ k + 1 \in Nat /\ n + 1 =< k + 1
        BY <1>2, <3>4
      <4> QED BY <1>2, <4>1, Times
    <3>6. w - x < (k + 1) * Period
      BY <1>2, <3>3, <3>5
    <3> QED BY <3>6 DEF k
  <2>3. CASE last < x
    <3>1. w - x < (lost + Count(s, x) + 1) * Period
      BY <1>6, <2>3 DEF Chain
    <3> DEFINE j == lost + Count(s, x)
               k == lost + Count(r, x)
    <3>2. j \in Nat /\ k \in Nat /\ j =< k
      BY <2>1
    <3>3. w - x < (j + 1) * Period
      BY <3>1
    <3> HIDE DEF j, k
    <3>4. (j + 1) * Period =< (k + 1) * Period /\ (k + 1) * Period \in Nat
          /\ (j + 1) * Period \in Nat
      <4>1. j + 1 \in Nat /\ k + 1 \in Nat /\ j + 1 =< k + 1
        BY <3>2
      <4> QED BY <1>2, <4>1, Times
    <3>5. w - x < (k + 1) * Period
      BY <3>3, <3>4
    <3> QED BY <3>5 DEF k
  <2> QED BY <2>2, <2>3
<1>7. Chain(lost, r, 0, w)
  BY <1>5, <1>6 DEF Chain
<1> QED BY <1>7

\* A unit of time: everything is older by one.
LEMMA ChainPass ==
  ASSUME NEW lost \in Nat, NEW s \in Seq(Frame), NEW last \in Nat, NEW w \in Nat,
         Chain(lost, s, last, w),
         NEW r \in Seq(Frame), DOMAIN r = DOMAIN s,
         \A i \in DOMAIN s : /\ s[i].age \in Nat /\ r[i].age = s[i].age + 1
                             /\ r[i].order = s[i].order
  PROVE  Chain(lost, r, last + 1, w + 1)
<1>1. Count(r, 0) = Count(s, 0)
  <2>1. OlderSticks(r, 0) = OlderSticks(s, 0)
    BY DEF OlderSticks
  <2> QED BY <2>1 DEF Count
<1>2. ASSUME NEW x \in Nat PROVE Count(r, x + 1) = Count(s, x)
  <2>1. OlderSticks(r, x + 1) = OlderSticks(s, x)
    BY DEF OlderSticks
  <2> QED BY <2>1 DEF Count
<1>3. (w + 1) - (last + 1) =< (lost + Count(r, 0)) * Period
  <2>1. w - last =< (lost + Count(s, 0)) * Period /\ (w + 1) - (last + 1) = w - last
    BY DEF Chain
  <2> QED BY <1>1, <2>1
<1>4. ASSUME NEW x \in Nat, last + 1 < x, x =< w + 1
      PROVE  (w + 1) - x < (lost + Count(r, x) + 1) * Period
  <2>1. x - 1 \in Nat /\ last < x - 1 /\ x - 1 =< w /\ (x - 1) + 1 = x
        /\ (w + 1) - x = w - (x - 1)
    BY <1>4
  <2>2. w - (x - 1) < (lost + Count(s, x - 1) + 1) * Period
    BY <2>1 DEF Chain
  <2>3. Count(r, x) = Count(s, x - 1)
    BY <1>2, <2>1
  <2> QED BY <2>1, <2>2, <2>3
<1> QED BY <1>3, <1>4 DEF Chain

\* No frame is on its way for longer than MaxDelay, so the silence is bounded.
LEMMA ChainEnds ==
  ASSUME NEW lost \in 0 .. MaxLosses, NEW s \in Seq(Frame), NEW last \in Nat,
         NEW w \in Nat, Chain(lost, s, last, w), last =< Period,
         \A i \in DOMAIN s : s[i].age \in 0 .. MaxDelay /\
                             (s[i].order = "Manual" => last =< s[i].age)
  PROVE  w =< LongestSilence
<1> DEFINE x == MaxDelay + 1
           p == Period
<1>1. MaxDelay \in Nat /\ MaxLosses \in Nat /\ lost \in Nat /\ lost =< MaxLosses
      /\ p \in Nat \ {0} /\ x \in Nat
  BY LinkAssumption, PeriodType
<1>2. LongestSilence = (MaxLosses + 1) * p + MaxDelay
  BY DEF LongestSilence, Period
<1>3. /\ (lost + 1) * p = lost * p + p /\ lost * p \in Nat
      /\ (MaxLosses + 1) * p = MaxLosses * p + p /\ MaxLosses * p \in Nat
      /\ lost * p =< MaxLosses * p
  BY <1>1, Times
<1>4. Count(s, x) = 0
  <2>1. OlderSticks(s, x) = {}
    BY <1>1 DEF OlderSticks
  <2> QED BY <2>1, FS_EmptySet DEF Count
<1> HIDE DEF p
<1> DEFINE lp == lost * p
           mp == MaxLosses * p
<1>5. /\ lp \in Nat /\ mp \in Nat /\ lp =< mp /\ p \in Nat \ {0}
      /\ LongestSilence = mp + p + MaxDelay
  BY <1>1, <1>2, <1>3
<1>6. CASE w < x
  <2> HIDE DEF lp, mp
  <2> QED BY <1>1, <1>5, <1>6
<1>7. CASE x =< w /\ last < x
  <2>1. w - x < (lost + 0 + 1) * p
    BY <1>1, <1>4, <1>7 DEF Chain, p
  <2>2. lost + 0 + 1 = lost + 1
    BY <1>1
  <2>3. w - x < lp + p
    BY <1>3, <2>1, <2>2
  <2> HIDE DEF lp, mp
  <2> QED BY <1>1, <1>5, <2>3
<1>8. CASE x =< w /\ x =< last
  <2>1. OlderSticks(s, 0) = {}
    BY <1>1, <1>8 DEF OlderSticks
  <2>2. Count(s, 0) = 0
    BY <2>1, FS_EmptySet DEF Count
  <2>3. w - last =< (lost + 0) * p /\ lost + 0 = lost
    BY <1>1, <2>2 DEF Chain, p
  <2>4. w - last =< lp
    BY <2>3
  <2>5. last =< p
    BY DEF p
  <2> HIDE DEF lp, mp
  <2> QED BY <1>1, <1>5, <2>4, <2>5
<1> QED BY <1>1, <1>6, <1>7, <1>8

-----------------------------------------------------------------------------
(***************************************************************************)
(* The invariant of a stick that is held.                                  *)
(***************************************************************************)
\* An order that ends a manual flight, or the stick released.
Foreign(f) == f.order # "Arm" /\ ~Deflected(f)

\* The station sends in time, and no stick on its way is younger than the one
\* that it remembers.
StationInv ==
    /\ losses \in [{"stick", "click"} -> 0 .. MaxLosses]
    /\ sinceManual \subseteq Nat /\ \A m, n \in sinceManual : m = n
    /\ \A m \in sinceManual :
          /\ held # {} => /\ m + sinceStation =< Period
                          /\ ~open => m < ManualPeriod
          /\ \A i \in DOMAIN uplink :
                uplink[i].order = "Manual" => m + sinceStation =< uplink[i].age
    /\ held # {} => sinceManual # {}

\* What was ordered before the operator took the stick is that old at least.
ForeignInv ==
    /\ \A i \in DOMAIN uplink :
          Foreign(uplink[i]) => \A t \in held : t =< uplink[i].age
    /\ \A i \in DOMAIN inbox :
          Foreign(inbox[i]) => \A t \in held : t =< MaxDelay + waited
    /\ \A i \in DOMAIN uplink :
          uplink[i].order = "Manual" => uplink[i].v \in Sticks
    /\ \A i \in DOMAIN inbox :
          inbox[i].order = "Manual" => inbox[i].v \in Sticks

\* No stick was heard for the last w of the time that the operator holds it.
Silent(w) ==
    /\ state.mode = "Manual" /\ None(inbox, "Manual")
    /\ \E t \in held : w =< t
    /\ w =< state.sinceInput + sinceTick

SilenceInv ==
    \A w \in Nat, m \in sinceManual :
        Silent(w) => Chain(losses["stick"], uplink, m + sinceStation, w)

HeldInv == StationInv /\ ForeignInv /\ SilenceInv

\* What a frame does to a manual flight: a stick sets the clock back, and an ARM
\* or a stick that is deflected after its clamp lets it go on.
LEMMA ExecuteInFlight ==
  ASSUME IInv, NEW f \in Frame, Execute(f), state.mode = "Manual"
  PROVE  /\ f.order = "Manual" /\ state'.mode = "Manual" => state'.sinceInput = 0
         /\ f.order = "Manual" /\ clamped_axes(f.v) # Zero => state'.mode = "Manual"
         /\ f.order = "Arm" => state'.mode = "Manual"
<1>1. f.v \in Vec3 /\ state \in FlightState /\ state.mode \in kPilotable
  BY DEF Frame, IInv, Sound, kPilotable
<1>2. CASE f.order = "Arm"
  <2>1. state' = apply(state, "Arm", Zero).state
    BY <1>2 DEF Execute, Arm, Command, dispatch
  <2>2. Outcome(state, "Arm", apply(state, "Arm", Zero))
    BY <1>1, CommandOutcome, ZeroType
  <2>3. state'.mode = "Manual"
    BY <2>1, <2>2 DEF Outcome
  <2> QED BY <1>2, <2>3
<1>3. CASE f.order = "Manual"
  <2> DEFINE axes == clamped_axes(f.v)
  <2>1. axes \in Vec3
    BY <1>1, AxesType
  <2>2. state' = apply(state, manual_event(axes), axes).state
    BY <1>3 DEF Execute, ManualInput, Command, dispatch
  <2> HIDE DEF axes
  <2>3. CASE axes = Zero
    <3>1. manual_event(axes) = "ManualCentred"
      BY <2>3 DEF manual_event
    <3>2. state'.mode = "Hold"
      BY <1>1, <2>1, <2>2, <3>1, SticksAccepted
    <3> QED BY <1>3, <2>3, <3>2 DEF axes
  <2>4. CASE axes # Zero
    <3>1. manual_event(axes) = "ManualActive"
      BY <2>4 DEF manual_event
    <3>2. state'.mode = "Manual" /\ state'.sinceInput = 0
      BY <1>1, <2>1, <2>2, <3>1, SticksAccepted
    <3> QED BY <1>3, <3>2
  <2> QED BY <2>3, <2>4
<1> QED BY <1>2, <1>3

-----------------------------------------------------------------------------
LEMMA HeldTypes ==
  ASSUME LinkInv, ClockInv, StationInv
  PROVE  /\ losses["stick"] \in Nat /\ losses["stick"] =< MaxLosses
         /\ uplink \in Seq(Frame) /\ inbox \in Seq(Frame)
         /\ \A m \in sinceManual : m + sinceStation \in Nat
         /\ state.sinceInput \in Nat /\ sinceTick \in Nat
         /\ ManualPeriod \in Nat \ {0} /\ StationGap \in Nat \ {0}
         /\ MaxDelay \in Nat /\ DroneGap \in Nat \ {0} /\ MaxLosses \in Nat
<1>1. /\ ManualPeriod \in Nat \ {0} /\ StationGap \in Nat \ {0}
      /\ MaxDelay \in Nat /\ DroneGap \in Nat \ {0} /\ MaxLosses \in Nat
  BY LinkAssumption
<1>2. losses["stick"] \in Nat /\ losses["stick"] =< MaxLosses
  BY <1>1 DEF StationInv
<1>3. \A m \in sinceManual : m + sinceStation \in Nat
  BY <1>1 DEF StationInv, ClockInv
<1>4. state.sinceInput \in Nat /\ sinceTick \in Nat
  BY <1>1, FlightConfigAssumption DEF LinkInv, IInv, Sound, FlightState, ClockInv
<1> QED BY <1>1, <1>2, <1>3, <1>4 DEF LinkInv

LEMMA PassHeld ==
  ASSUME LinkInv, ClockInv, HeldInv, Pass
  PROVE  HeldInv'
<1> DEFINE older == [i \in DOMAIN uplink |-> [uplink[i] EXCEPT !.age = @ + 1]]
<1>0. StationInv /\ ForeignInv /\ SilenceInv
  BY DEF HeldInv
<1>1. /\ ~awake /\ ~open
      /\ sinceTick \in Nat /\ sinceStation \in Nat /\ sinceStation < StationGap
      /\ \A i \in DOMAIN uplink : uplink[i].age \in Nat
      /\ held \subseteq Nat
  BY LinkAssumption DEF Pass, quiet, overdue, ClockInv
<1>2. /\ sinceTick' = sinceTick + 1 /\ sinceStation' = sinceStation + 1
      /\ uplink' = older
      /\ held' = {IF t > LongestSilence + DroneGap THEN t ELSE t + 1 : t \in held}
      /\ UNCHANGED <<state, awake, open, inbox, losses, sinceManual>>
  BY DEF Pass, vars
<1>3. /\ DOMAIN uplink' = DOMAIN uplink
      /\ \A i \in DOMAIN uplink :
            /\ uplink'[i].age = uplink[i].age + 1
            /\ uplink'[i].order = uplink[i].order
            /\ uplink'[i].v = uplink[i].v
  <2>1. \A i \in DOMAIN uplink : uplink[i] \in Frame
    BY DEF LinkInv
  <2> QED BY <1>2, <2>1 DEF Frame
<1>4. uplink' \in Seq(Frame)
  BY <1>2, OlderType DEF LinkInv
<1> HIDE DEF older
<1>5. \A t \in held' : t \in Nat /\ \E u \in held : t =< u + 1
  BY <1>1, <1>2
<1>6. StationInv'
  <2>1. ASSUME NEW m \in sinceManual'
        PROVE  /\ held' # {} => /\ m + sinceStation' =< Period
                                /\ ~open' => m < ManualPeriod
               /\ \A i \in DOMAIN uplink' : uplink'[i].order = "Manual" =>
                     m + sinceStation' =< uplink'[i].age
    <3>1. m \in Nat /\ m \in sinceManual
      BY <1>0, <1>2 DEF StationInv
    <3>2. held' # {} => m < ManualPeriod
      BY <1>0, <1>1, <1>2, <3>1 DEF StationInv
    <3>3. held' # {} => m + sinceStation' =< Period
      BY <1>0, <1>1, <1>2, <3>1, <3>2, HeldTypes DEF Period
    <3>4. \A i \in DOMAIN uplink' : uplink'[i].order = "Manual" =>
             m + sinceStation' =< uplink'[i].age
      BY <1>0, <1>1, <1>2, <1>3, <3>1 DEF StationInv
    <3> QED BY <3>2, <3>3, <3>4
  <2>2. held' # {} => sinceManual' # {}
    BY <1>0, <1>2 DEF StationInv
  <2> QED BY <1>0, <1>2, <2>1, <2>2 DEF StationInv
<1>7. ForeignInv'
  <2>1. ASSUME NEW i \in DOMAIN uplink', Foreign(uplink'[i]), NEW t \in held'
        PROVE  t =< uplink'[i].age
    <3>1. Foreign(uplink[i])
      BY <1>3, <2>1 DEF Foreign, Deflected
    <3> QED BY <1>0, <1>1, <1>3, <1>5, <2>1, <3>1 DEF ForeignInv
  <2>2. ASSUME NEW i \in DOMAIN inbox', Foreign(inbox'[i]), NEW t \in held'
        PROVE  t =< MaxDelay + waited'
    <3>1. PICK u \in held : t =< u + 1
      BY <1>5
    <3>2. u =< MaxDelay + sinceTick
      BY <1>0, <1>1, <1>2, <2>2 DEF ForeignInv, waited
    <3>3. waited' = sinceTick + 1
      BY <1>1, <1>2 DEF waited
    <3>4. t =< MaxDelay + (sinceTick + 1)
      BY <1>0, <1>1, <1>5, <3>1, <3>2, HeldTypes
    <3> QED BY <3>3, <3>4
  <2> QED BY <1>0, <1>2, <1>3, <2>1, <2>2 DEF ForeignInv
<1>8. ASSUME NEW w \in Nat, NEW m \in sinceManual', Silent(w)'
      PROVE  Chain(losses'["stick"], uplink', m + sinceStation', w)
  <2>1. /\ losses["stick"] \in Nat /\ m + sinceStation \in Nat /\ m \in sinceManual
        /\ m \in Nat
    BY <1>0, <1>2, HeldTypes DEF StationInv
  <2>2. m + sinceStation' = (m + sinceStation) + 1
    BY <1>1, <1>2, <2>1
  <2>3. CASE w = 0
    BY <1>2, <1>4, <2>1, <2>2, <2>3, ChainZero
  <2>4. CASE w # 0
    <3>1. w - 1 \in Nat /\ (w - 1) + 1 = w
      BY <2>4
    <3>2. Silent(w - 1)
      <4>1. /\ state.mode = "Manual" /\ None(inbox, "Manual")
            /\ \E t \in held' : w =< t
            /\ w =< state.sinceInput + (sinceTick + 1)
        BY <1>2, <1>8 DEF Silent
      <4>2. \E u \in held : w - 1 =< u
        BY <1>1, <1>5, <4>1
      <4>3. w - 1 =< state.sinceInput + sinceTick
        BY <1>0, <1>1, <4>1, HeldTypes
      <4> QED BY <4>1, <4>2, <4>3 DEF Silent
    <3>3. Chain(losses["stick"], uplink, m + sinceStation, w - 1)
      BY <1>0, <2>1, <3>1, <3>2 DEF SilenceInv
    <3>4. uplink \in Seq(Frame)
      BY <1>0, HeldTypes
    <3>5. Chain(losses["stick"], uplink', (m + sinceStation) + 1, (w - 1) + 1)
      BY <1>1, <1>3, <1>4, <2>1, <3>1, <3>3, <3>4, ChainPass
    <3> QED BY <1>2, <2>2, <3>1, <3>5
  <2> QED BY <2>3, <2>4
<1>9. SilenceInv'
  BY <1>8 DEF SilenceInv
<1> QED BY <1>6, <1>7, <1>9 DEF HeldInv

\* A click but ARM gives up the stick, and an ARM is no stick.
LEMMA ClickHeld ==
  ASSUME LinkInv, ClockInv, HeldInv, NEW order \in Orders \ {"Manual"},
         NEW v \in Vec3, Click(order, v)
  PROVE  HeldInv'
<1> DEFINE f == ordered(order, v)
<1>0. StationInv /\ ForeignInv /\ SilenceInv
  BY DEF HeldInv
<1>1. /\ uplink' = Append(uplink, f)
      /\ held' = IF order = "Arm" THEN held ELSE {}
      /\ UNCHANGED <<state, awake, open, sinceTick, sinceStation, inbox, losses,
                     sinceManual>>
  BY DEF Click, vars, gcs
<1>2. f \in Frame /\ f.order = order
  BY OrderedType
<1> HIDE DEF f
<1>3. /\ uplink' \in Seq(Frame)
      /\ \A j \in DOMAIN uplink' : \/ uplink'[j] = f
                                   \/ \E k \in DOMAIN uplink : uplink'[j] = uplink[k]
  BY <1>1, <1>2, AppendType DEF LinkInv
<1>4. StationInv'
  <2>1. ASSUME NEW m \in sinceManual', NEW j \in DOMAIN uplink',
               uplink'[j].order = "Manual"
        PROVE  m + sinceStation' =< uplink'[j].age
    BY <1>0, <1>1, <1>2, <1>3, <2>1 DEF StationInv
  <2>2. \A m \in sinceManual' : held' # {} => /\ m + sinceStation' =< Period
                                              /\ ~open' => m < ManualPeriod
    BY <1>0, <1>1 DEF StationInv
  <2>3. /\ losses' \in [{"stick", "click"} -> 0 .. MaxLosses]
        /\ sinceManual' \subseteq Nat /\ \A m, n \in sinceManual' : m = n
        /\ held' # {} => sinceManual' # {}
    BY <1>0, <1>1 DEF StationInv
  <2> QED BY <2>1, <2>2, <2>3 DEF StationInv
<1>5. ForeignInv'
  <2>1. ASSUME NEW j \in DOMAIN uplink'
        PROVE  /\ Foreign(uplink'[j]) => \A t \in held' : t =< uplink'[j].age
               /\ uplink'[j].order = "Manual" => uplink'[j].v \in Sticks
    <3>1. Foreign(f) => held' = {}
      BY <1>1, <1>2 DEF Foreign
    <3>2. held' \subseteq held
      BY <1>1
    <3> QED BY <1>0, <1>2, <1>3, <3>1, <3>2 DEF ForeignInv
  <2>2. waited' = waited /\ inbox' = inbox /\ held' \subseteq held
    BY <1>1 DEF waited
  <2> QED BY <1>0, <2>1, <2>2 DEF ForeignInv
<1>6. ASSUME NEW w \in Nat, NEW m \in sinceManual', Silent(w)'
      PROVE  Chain(losses'["stick"], uplink', m + sinceStation', w)
  <2>1. Silent(w) /\ m \in sinceManual
    BY <1>1, <1>6 DEF Silent
  <2>2. Chain(losses["stick"], uplink, m + sinceStation, w)
    BY <1>0, <2>1 DEF SilenceInv
  <2>3. /\ losses["stick"] \in Nat /\ m + sinceStation \in Nat
        /\ uplink \in Seq(Frame)
    BY <1>0, <2>1, HeldTypes
  <2>4. Chain(losses["stick"], Append(uplink, f), m + sinceStation, w)
    BY <1>2, <2>2, <2>3, ChainAppend
  <2> QED BY <1>1, <2>4
<1> QED BY <1>4, <1>5, <1>6 DEF HeldInv, SilenceInv

\* The end of a frame of the station: the stick is sent if the period is over.
LEMMA StickHeld ==
  ASSUME LinkInv, ClockInv, HeldInv, NEW a \in Sticks, Stick(a)
  PROVE  HeldInv'
<1> DEFINE f == ordered("Manual", a)
<1>0. StationInv /\ ForeignInv /\ SilenceInv
  BY DEF HeldInv
<1>1. /\ open /\ open' = FALSE /\ sinceStation = 0 /\ sinceStation' = 0
      /\ held' = IF a = Zero THEN {} ELSE IF held = {} THEN {0} ELSE held
      /\ UNCHANGED <<state, awake, sinceTick, inbox, losses>>
  BY DEF Stick, vars, ClockInv
<1>2. a \in Vec3 /\ f \in Frame /\ f.order = "Manual" /\ f.age = 0 /\ f.v = a
  BY OrderedType, InputAssumption DEF ordered, Orders
<1>3. /\ uplink \in Seq(Frame) /\ losses["stick"] \in Nat
      /\ ManualPeriod \in Nat \ {0} /\ StationGap \in Nat \ {0}
      /\ Period \in Nat /\ ManualPeriod =< Period
      /\ sinceManual \subseteq Nat
  <2>1. /\ uplink \in Seq(Frame) /\ losses["stick"] \in Nat
        /\ ManualPeriod \in Nat \ {0} /\ StationGap \in Nat \ {0}
    BY <1>0, HeldTypes
  <2>2. Period \in Nat /\ ManualPeriod =< Period
    BY ONLY <2>1 DEF Period
  <2>3. sinceManual \subseteq Nat
    BY ONLY <1>0 DEF StationInv
  <2> QED BY ONLY <2>1, <2>2, <2>3
<1>4. CASE transmitted(a) /\ uplink' = Append(uplink, f)
  <2> HIDE DEF f
  <2>1. sinceManual' = {0}
    BY <1>4 DEF transmitted
  <2>2. /\ uplink' \in Seq(Frame)
        /\ \A j \in DOMAIN uplink' : \/ uplink'[j] = f
                                     \/ \E k \in DOMAIN uplink : uplink'[j] = uplink[k]
    BY <1>2, <1>3, <1>4, AppendType
  <2>3. \A i \in DOMAIN uplink : uplink[i].age \in Nat
    BY <1>3, LinkAssumption DEF ClockInv
  <2>4. StationInv'
    <3>1. \A j \in DOMAIN uplink' : uplink'[j].age \in Nat
      BY <1>2, <2>2, <2>3
    <3>2. ASSUME NEW m \in sinceManual'
          PROVE  /\ m + sinceStation' =< Period /\ m < ManualPeriod
                 /\ \A i \in DOMAIN uplink' : m + sinceStation' =< uplink'[i].age
      <4>1. m = 0 /\ m + sinceStation' = 0
        BY <1>1, <2>1
      <4> QED BY <1>3, <3>1, <4>1
    <3>3. /\ losses' \in [{"stick", "click"} -> 0 .. MaxLosses]
          /\ sinceManual' \subseteq Nat /\ sinceManual' # {}
          /\ \A m, n \in sinceManual' : m = n
      BY <1>0, <1>1, <2>1 DEF StationInv
    <3> QED BY <3>2, <3>3 DEF StationInv
  <2>5. ForeignInv'
    <3>1. ASSUME NEW j \in DOMAIN uplink'
          PROVE  /\ Foreign(uplink'[j]) => \A t \in held' : t =< uplink'[j].age
                 /\ uplink'[j].order = "Manual" => uplink'[j].v \in Sticks
      <4>1. CASE uplink'[j] = f
        BY <1>1, <1>2, <4>1 DEF Foreign, Deflected
      <4>2. CASE \E k \in DOMAIN uplink : uplink'[j] = uplink[k]
        BY <1>0, <1>1, <2>3, <4>2 DEF ForeignInv
      <4> QED BY <2>2, <4>1, <4>2
    <3>2. \A i \in DOMAIN inbox' :
             Foreign(inbox'[i]) => \A t \in held' : t =< MaxDelay + waited'
      <4>1. waited' = waited /\ MaxDelay + waited \in Nat
        BY <1>1, LinkAssumption DEF waited, ClockInv
      <4>2. \A t \in held' : t \in held \/ t = 0
        BY <1>1
      <4>3. ASSUME NEW i \in DOMAIN inbox', Foreign(inbox'[i]), NEW t \in held'
            PROVE  t =< MaxDelay + waited
        BY <1>0, <1>1, <4>1, <4>2, <4>3 DEF ForeignInv
      <4> QED BY <4>1, <4>3
    <3> QED BY <1>0, <1>1, <3>1, <3>2 DEF ForeignInv
  <2>6. ASSUME NEW w \in Nat, NEW m \in sinceManual', Silent(w)'
        PROVE  Chain(losses'["stick"], uplink', m + sinceStation', w)
    <3>1. m + sinceStation' = 0
      BY <1>1, <2>1
    <3>2. CASE w = 0
      BY <1>1, <1>3, <2>2, <3>1, <3>2, ChainZero
    <3>3. CASE w # 0
      <4>1. held' = held /\ held # {}
        <5>1. PICK t \in held' : w =< t
          BY <2>6 DEF Silent
        <5> QED BY <1>1, <3>3, <5>1
      <4>2. Silent(w)
        BY <1>1, <2>6, <4>1 DEF Silent
      <4>3. PICK n \in sinceManual : TRUE
        BY <1>0, <4>1 DEF StationInv
      <4>4. /\ n + sinceStation \in Nat /\ n + sinceStation =< Period
            /\ \A i \in DOMAIN uplink :
                  uplink[i].order = "Manual" => n + sinceStation =< uplink[i].age
        BY <1>0, <4>1, HeldTypes DEF StationInv
      <4>5. Chain(losses["stick"], uplink, n + sinceStation, w)
        BY <1>0, <4>2 DEF SilenceInv
      <4>6. Chain(losses["stick"], Append(uplink, f), 0, w)
        BY <1>2, <1>3, <2>3, <4>4, <4>5, ChainSend
      <4> QED BY <1>1, <1>4, <3>1, <4>6
    <3> QED BY <3>2, <3>3
  <2> QED BY <2>4, <2>5, <2>6 DEF HeldInv, SilenceInv
<1>5. CASE (silent(a) \/ limited(a)) /\ UNCHANGED <<uplink, sinceManual>>
  <2>1. held' # {} => \A m \in sinceManual : m < ManualPeriod
    <3>1. held' # {} => \E t \in sinceManual : t < ManualPeriod
      BY <1>1, <1>5 DEF silent, limited
    <3> QED BY <1>0, <3>1 DEF StationInv
  <2>2. held' # {} => sinceManual # {}
    BY <1>1, <1>5 DEF silent, limited
  <2>3. StationInv'
    <3>1. ASSUME NEW m \in sinceManual'
          PROVE  /\ held' # {} => m + sinceStation' =< Period /\ m < ManualPeriod
                 /\ \A i \in DOMAIN uplink' : uplink'[i].order = "Manual" =>
                       m + sinceStation' =< uplink'[i].age
      <4>1. m \in Nat /\ m \in sinceManual /\ m + sinceStation' = m
        BY <1>1, <1>3, <1>5, <3>1
      <4>2. held' # {} => m + sinceStation' =< Period /\ m < ManualPeriod
        BY <1>3, <2>1, <4>1
      <4>3. \A i \in DOMAIN uplink' : uplink'[i].order = "Manual" =>
               m + sinceStation' =< uplink'[i].age
        BY <1>0, <1>1, <1>5, <4>1 DEF StationInv
      <4> QED BY <4>2, <4>3
    <3>2. /\ losses' \in [{"stick", "click"} -> 0 .. MaxLosses]
          /\ sinceManual' \subseteq Nat
          /\ \A m, n \in sinceManual' : m = n
          /\ held' # {} => sinceManual' # {}
      BY <1>0, <1>1, <1>5, <2>2 DEF StationInv
    <3> QED BY <3>1, <3>2 DEF StationInv
  <2>4. \A t \in held' : t \in held \/ t = 0
    BY <1>1
  <2>5. ForeignInv'
    <3>1. waited' = waited /\ MaxDelay + waited \in Nat
      BY <1>1, LinkAssumption DEF waited, ClockInv
    <3>2. \A i \in DOMAIN uplink : uplink[i].age \in Nat
      BY <1>3, LinkAssumption DEF ClockInv
    <3>3. ASSUME NEW i \in DOMAIN uplink', Foreign(uplink'[i]), NEW t \in held'
          PROVE  t =< uplink'[i].age
      BY <1>0, <1>5, <2>4, <3>2, <3>3 DEF ForeignInv
    <3>4. ASSUME NEW i \in DOMAIN inbox', Foreign(inbox'[i]), NEW t \in held'
          PROVE  t =< MaxDelay + waited'
      BY <1>0, <1>1, <2>4, <3>1, <3>4 DEF ForeignInv
    <3> QED BY <1>0, <1>1, <1>5, <3>3, <3>4 DEF ForeignInv
  <2>6. ASSUME NEW w \in Nat, NEW m \in sinceManual', Silent(w)'
        PROVE  Chain(losses'["stick"], uplink', m + sinceStation', w)
    <3>1. m \in sinceManual /\ m + sinceStation \in Nat
      BY <1>0, <1>5, HeldTypes
    <3>2. CASE w = 0
      BY <1>1, <1>3, <1>5, <3>1, <3>2, ChainZero
    <3>3. CASE w # 0
      <4>1. held' = held
        <5>1. PICK t \in held' : w =< t
          BY <2>6 DEF Silent
        <5> QED BY <1>1, <3>3, <5>1
      <4>2. Silent(w)
        BY <1>1, <2>6, <4>1 DEF Silent
      <4>3. Chain(losses["stick"], uplink, m + sinceStation, w)
        BY <1>0, <3>1, <4>2 DEF SilenceInv
      <4> QED BY <1>1, <1>5, <4>3
    <3> QED BY <3>2, <3>3
  <2> QED BY <2>3, <2>5, <2>6 DEF HeldInv, SilenceInv
<1>6. \/ transmitted(a) /\ uplink' = Append(uplink, f)
      \/ (silent(a) \/ limited(a)) /\ UNCHANGED <<uplink, sinceManual>>
  BY DEF Stick
<1> QED BY <1>4, <1>5, <1>6

\* The link: a stick that is lost counts, and one that arrives breaks the silence.
LEMMA TransitHeld ==
  ASSUME LinkInv, ClockInv, HeldInv, NEW i \in DOMAIN uplink,
         Arrive(i) \/ Lose(i) \/ Repeat(i)
  PROVE  HeldInv'
<1> DEFINE f == [uplink[i] EXCEPT !.age = 0]
           sent == uplink[i]
<1>0. StationInv /\ ForeignInv /\ SilenceInv
  BY DEF HeldInv
<1>1. /\ UNCHANGED <<state, awake, open, sinceTick, sinceStation, sinceManual, held>>
      /\ ~awake
      /\ \/ /\ uplink' = RemoveAt(uplink, i) /\ inbox' = Append(inbox, f)
            /\ losses' = [losses EXCEPT ![sort(sent)] = 0]
         \/ /\ uplink' = RemoveAt(uplink, i) /\ inbox' = inbox
            /\ losses[sort(sent)] < MaxLosses
            /\ losses' = [losses EXCEPT ![sort(sent)] = @ + 1]
         \/ /\ uplink' = Append(uplink, sent) /\ inbox' = inbox /\ losses' = losses
  BY DEF Arrive, Lose, Repeat, vars, gcs, operator, quiet
<1>2. /\ uplink \in Seq(Frame) /\ inbox \in Seq(Frame) /\ sent \in Frame
      /\ losses["stick"] \in Nat
  BY <1>0, HeldTypes
<1>3. f \in Frame /\ f.order = sent.order /\ f.v = sent.v
  <2>1. sent = [order |-> sent.order, v |-> sent.v, age |-> sent.age]
    BY <1>2 DEF Frame
  <2>2. f = [order |-> sent.order, v |-> sent.v, age |-> 0]
    BY <2>1
  <2> HIDE DEF f, sent
  <2> QED BY <1>2, <2>2 DEF Frame
<1>4. sort(sent) \in {"stick", "click"} /\ (sort(sent) = "stick" <=> sent.order = "Manual")
  BY DEF sort
<1> HIDE DEF f
<1>5. Among(uplink', uplink) /\ uplink' \in Seq(Frame)
  <2>1. CASE uplink' = RemoveAt(uplink, i)
    BY <1>2, <2>1, RemoveType
  <2>2. CASE uplink' = Append(uplink, sent)
    BY <1>2, <2>2, AppendType DEF Among
  <2> QED BY <1>1, <2>1, <2>2
<1>6. \A j \in DOMAIN inbox' :
         \/ inbox'[j] = f
         \/ \E k \in DOMAIN inbox : inbox'[j] = inbox[k]
  <2>1. CASE inbox' = inbox
    BY <2>1
  <2>2. CASE inbox' = Append(inbox, f)
    BY <1>2, <1>3, <2>2, AppendType
  <2> QED BY <1>1, <2>1, <2>2
<1>7. losses' \in [{"stick", "click"} -> 0 .. MaxLosses]
  BY <1>0, <1>1, <1>4, LinkAssumption DEF StationInv
<1>8. StationInv'
  <2>1. ASSUME NEW m \in sinceManual', NEW j \in DOMAIN uplink',
               uplink'[j].order = "Manual"
        PROVE  m + sinceStation' =< uplink'[j].age
    BY <1>0, <1>1, <1>5, <2>1 DEF StationInv, Among
  <2> QED BY <1>0, <1>1, <1>7, <2>1 DEF StationInv
<1>9. ForeignInv'
  <2>1. waited' = waited /\ waited = sinceTick
    BY <1>1 DEF waited
  <2>2. Foreign(f) => \A t \in held : t =< MaxDelay + waited
    <3>1. Foreign(f) => \A t \in held : t =< sent.age
      BY <1>0, <1>3 DEF ForeignInv, Foreign, Deflected
    <3>2. sent.age \in Nat /\ sent.age =< MaxDelay /\ sinceTick \in Nat /\ held \subseteq Nat
          /\ MaxDelay \in Nat
      BY LinkAssumption DEF ClockInv
    <3> QED BY <2>1, <3>1, <3>2
  <2>3. f.order = "Manual" => f.v \in Sticks
    BY <1>0, <1>3 DEF ForeignInv
  <2>4. \A j \in DOMAIN inbox' :
           /\ Foreign(inbox'[j]) => \A t \in held' : t =< MaxDelay + waited'
           /\ inbox'[j].order = "Manual" => inbox'[j].v \in Sticks
    BY <1>0, <1>1, <1>6, <2>1, <2>2, <2>3 DEF ForeignInv
  <2>5. \A j \in DOMAIN uplink' :
           /\ Foreign(uplink'[j]) => \A t \in held' : t =< uplink'[j].age
           /\ uplink'[j].order = "Manual" => uplink'[j].v \in Sticks
    BY <1>0, <1>1, <1>5 DEF ForeignInv, Among
  <2> QED BY <2>4, <2>5 DEF ForeignInv
<1>10. ASSUME NEW w \in Nat, NEW m \in sinceManual', Silent(w)'
       PROVE  Chain(losses'["stick"], uplink', m + sinceStation', w)
  <2> DEFINE last == m + sinceStation
             lost == losses["stick"]
  <2>1. m \in sinceManual /\ m + sinceStation' = last /\ last \in Nat /\ lost \in Nat
    BY <1>0, <1>1, <1>2, HeldTypes
  <2>2. None(inbox, "Manual")
        /\ (inbox' = Append(inbox, f) => sent.order # "Manual")
    <3>1. None(inbox', "Manual")
      BY <1>10 DEF Silent
    <3>2. CASE inbox' = inbox
      <4>1. Len(Append(inbox, f)) = Len(inbox) + 1 /\ Len(inbox) \in Nat
        BY <1>2
      <4>2. inbox' # Append(inbox, f)
        BY <3>2, <4>1
      <4> QED BY <3>1, <3>2, <4>2
    <3>3. CASE inbox' = Append(inbox, f)
      <4>1. /\ DOMAIN inbox' = 1 .. Len(inbox) + 1 /\ Len(inbox) \in Nat
            /\ inbox'[Len(inbox) + 1] = f
            /\ \A j \in 1 .. Len(inbox) : inbox'[j] = inbox[j]
            /\ DOMAIN inbox = 1 .. Len(inbox)
        BY <1>2, <1>3, <3>3
      <4>2. None(inbox, "Manual") /\ f.order # "Manual"
        BY <3>1, <4>1 DEF None
      <4> QED BY <1>3, <4>2
    <3> QED BY <1>1, <3>2, <3>3
  <2>3. Silent(w)
    BY <1>1, <1>10, <2>2 DEF Silent
  <2>4. Chain(lost, uplink, last, w)
    BY <1>0, <2>1, <2>3 DEF SilenceInv
  <2> HIDE DEF last
  <2>5. CASE /\ uplink' = RemoveAt(uplink, i) /\ inbox' = Append(inbox, f)
             /\ losses' = [losses EXCEPT ![sort(sent)] = 0]
    <3>1. losses'["stick"] = lost /\ sent.order # "Manual"
      BY <1>0, <1>4, <2>2, <2>5 DEF StationInv
    <3> QED BY <1>2, <2>1, <2>4, <2>5, <3>1, ChainRemove
  <2>6. CASE /\ uplink' = RemoveAt(uplink, i)
             /\ losses' = [losses EXCEPT ![sort(sent)] = @ + 1]
    <3>1. CASE sent.order = "Manual"
      <4>1. losses'["stick"] = lost + 1
        BY <1>0, <1>4, <2>6, <3>1 DEF StationInv
      <4> QED BY <1>2, <2>1, <2>4, <2>6, <4>1, ChainRemove
    <3>2. CASE sent.order # "Manual"
      <4>1. losses'["stick"] = lost
        BY <1>0, <1>4, <2>6, <3>2 DEF StationInv
      <4> QED BY <1>2, <2>1, <2>4, <2>6, <3>2, <4>1, ChainRemove
    <3> QED BY <3>1, <3>2
  <2>7. CASE uplink' = Append(uplink, sent) /\ losses' = losses
    BY <1>2, <2>1, <2>4, <2>7, ChainAppend
  <2> QED BY <1>1, <2>5, <2>6, <2>7
<1> QED BY <1>8, <1>9, <1>10 DEF HeldInv, SilenceInv

\* The drone's tick: the age of the last input stops counting at the timeout.
LEMMA TickHeld ==
  ASSUME LinkInv, ClockInv, HeldInv, DroneTick
  PROVE  HeldInv'
<1>0. StationInv /\ ForeignInv /\ SilenceInv
  BY DEF HeldInv
<1>1. /\ ~awake /\ awake' = TRUE /\ sinceTick' = 0
      /\ state' = aged(state, sinceTick)
      /\ UNCHANGED <<open, sinceStation, sinceManual, losses, uplink, inbox, held>>
  BY DEF DroneTick, WakeUp, quiet, link, gcs, operator
<1>2. /\ state'.mode = state.mode
      /\ state'.sinceInput =< state.sinceInput + sinceTick
      /\ state'.sinceInput \in Nat /\ state.sinceInput \in Nat
  <2>1. state \in FlightState /\ sinceTick \in Nat
    BY <1>0, HeldTypes DEF LinkInv, IInv, Sound
  <2>2. /\ state'.mode = state.mode
        /\ state'.sinceInput = IF state.sinceInput + sinceTick > Expired
                               THEN Expired ELSE state.sinceInput + sinceTick
    BY <1>1, <2>1 DEF aged, FlightState
  <2>3. state.sinceInput \in Nat /\ Expired \in Nat
    BY <2>1, FlightConfigAssumption DEF FlightState, Expired
  <2> QED BY <2>1, <2>2, <2>3
<1>3. StationInv'
  BY <1>0, <1>1 DEF StationInv
<1>4. ForeignInv'
  <2>1. /\ waited = sinceTick /\ waited' = DroneGap
        /\ sinceTick \in Nat /\ sinceTick =< DroneGap /\ DroneGap \in Nat
        /\ held \subseteq Nat /\ MaxDelay \in Nat
    BY <1>1, LinkAssumption DEF waited, ClockInv
  <2>2. ASSUME NEW i \in DOMAIN inbox', Foreign(inbox'[i]), NEW t \in held'
        PROVE  t =< MaxDelay + waited'
    <3>1. t =< MaxDelay + sinceTick /\ t \in Nat
      BY <1>0, <1>1, <2>1, <2>2 DEF ForeignInv
    <3>2. t =< MaxDelay + DroneGap
      BY <2>1, <3>1
    <3> QED BY <2>1, <3>2
  <2> QED BY <1>0, <1>1, <2>2 DEF ForeignInv
<1>5. ASSUME NEW w \in Nat, NEW m \in sinceManual', Silent(w)'
      PROVE  Chain(losses'["stick"], uplink', m + sinceStation', w)
  <2>1. w =< state.sinceInput + sinceTick
    <3>1. w =< state'.sinceInput + 0
      BY <1>1, <1>5 DEF Silent
    <3> QED BY <1>0, <1>2, <3>1, HeldTypes
  <2>2. Silent(w)
    BY <1>1, <1>2, <1>5, <2>1 DEF Silent
  <2> QED BY <1>0, <1>1, <2>2 DEF SilenceInv
<1> QED BY <1>3, <1>4, <1>5 DEF HeldInv, SilenceInv

LEMMA HandedHeld ==
  ASSUME LinkInv, ClockInv, HeldInv, Handle
  PROVE  HeldInv'
<1> DEFINE f == Head(inbox)
<1>0. StationInv /\ ForeignInv /\ SilenceInv
  BY DEF HeldInv
<1>1. /\ inbox # <<>> /\ inbox' = Tail(inbox) /\ Execute(f)
      /\ UNCHANGED <<sinceTick, open, sinceStation, sinceManual, losses, uplink, held>>
  BY DEF Handle, gcs
<1>2. awake' = awake
  BY <1>1 DEF Execute, Arm, Disarm, Land, Goto, ManualInput, Command
<1>3. f \in Frame /\ Among(inbox', inbox) /\ inbox \in Seq(Frame)
  BY <1>1, TailType DEF LinkInv
<1>4. None(inbox', "Manual") /\ f.order # "Manual" => None(inbox, "Manual")
  <2>1. /\ Len(inbox) \in Nat \ {0} /\ DOMAIN inbox = 1 .. Len(inbox)
        /\ f = inbox[1] /\ DOMAIN inbox' = 1 .. Len(inbox) - 1
        /\ \A j \in 1 .. Len(inbox) - 1 : inbox'[j] = inbox[j + 1]
    BY <1>1, <1>3
  <2> HIDE DEF f
  <2> SUFFICES ASSUME None(inbox', "Manual"), f.order # "Manual",
                      NEW k \in DOMAIN inbox
               PROVE  inbox[k].order # "Manual"
    BY DEF None
  <2>2. CASE k = 1
    BY <2>1, <2>2
  <2>3. CASE k # 1
    <3>1. k - 1 \in 1 .. Len(inbox) - 1 /\ (k - 1) + 1 = k
      BY <2>1, <2>3
    <3>2. inbox'[k - 1] = inbox[k] /\ k - 1 \in DOMAIN inbox'
      BY <2>1, <3>1
    <3> QED BY <3>2 DEF None
  <2> QED BY <2>2, <2>3
<1> HIDE DEF f
<1>5. StationInv'
  BY <1>0, <1>1 DEF StationInv
<1>6. ForeignInv'
  <2>1. waited' = waited
    BY <1>1, <1>2 DEF waited
  <2> QED BY <1>0, <1>1, <1>3, <2>1 DEF ForeignInv, Among
<1>7. ASSUME NEW w \in Nat, NEW m \in sinceManual', Silent(w)'
      PROVE  Chain(losses'["stick"], uplink', m + sinceStation', w)
  <2>1. /\ m \in sinceManual /\ m + sinceStation \in Nat
        /\ losses["stick"] \in Nat /\ uplink \in Seq(Frame)
        /\ sinceTick \in Nat
    BY <1>0, <1>1, HeldTypes
  <2>2. /\ state'.mode = "Manual" /\ None(inbox', "Manual")
        /\ \E t \in held : w =< t
        /\ w =< state'.sinceInput + sinceTick
    BY <1>1, <1>7 DEF Silent
  <2>3. \/ state.mode = "Manual" /\ state'.sinceInput = state.sinceInput
        \/ Deflected(f) /\ state'.sinceInput = 0
    BY <1>1, <1>3, <2>2, ExecuteManual DEF LinkInv
  <2>4. CASE state'.sinceInput = 0
    <3>1. w = 0
      <4>1. awake /\ sinceTick = 0
        BY <1>1 DEF ClockInv, Execute, Arm, Disarm, Land, Goto, ManualInput,
                    Command
      <4> QED BY <2>2, <2>4, <4>1
    <3>2. Chain(losses["stick"], uplink, m + sinceStation, 0)
      BY <2>1, ChainZero
    <3> QED BY <1>1, <3>1, <3>2
  <2>5. CASE /\ state.mode = "Manual" /\ state'.sinceInput = state.sinceInput
             /\ state'.sinceInput # 0
    <3>1. f.order # "Manual"
      BY <1>1, <1>3, <2>2, <2>5, ExecuteInFlight DEF LinkInv
    <3>2. Silent(w)
      BY <1>4, <2>2, <2>5, <3>1 DEF Silent
    <3> QED BY <1>0, <1>1, <2>1, <3>2 DEF SilenceInv
  <2> QED BY <2>3, <2>4, <2>5
<1> QED BY <1>5, <1>6, <1>7 DEF HeldInv, SilenceInv

LEMMA EndTickHeld ==
  ASSUME LinkInv, ClockInv, HeldInv, EndTick
  PROVE  HeldInv'
<1>0. StationInv /\ ForeignInv /\ SilenceInv
  BY DEF HeldInv
<1>1. /\ Step /\ inbox = <<>>
      /\ UNCHANGED <<sinceTick, open, sinceStation, sinceManual, losses, uplink,
                     inbox, held>>
  BY DEF EndTick, Step, link, gcs, operator
<1>2. StationInv'
  BY <1>0, <1>1 DEF StationInv
<1>3. ForeignInv'
  BY <1>0, <1>1 DEF ForeignInv
<1>4. ASSUME NEW w \in Nat, NEW m \in sinceManual', Silent(w)'
      PROVE  Chain(losses'["stick"], uplink', m + sinceStation', w)
  <2>1. state.mode = "Manual" /\ state'.sinceInput = state.sinceInput
    BY <1>1, <1>4, StepManualFlight DEF Silent, LinkInv
  <2>2. Silent(w)
    BY <1>1, <1>4, <2>1 DEF Silent
  <2> QED BY <1>0, <1>1, <2>2 DEF SilenceInv
<1> QED BY <1>2, <1>3, <1>4 DEF HeldInv, SilenceInv

\* The station reads its clock: what it remembers while a stick is held is not
\* rounded.
LEMMA OpenHeld ==
  ASSUME LinkInv, ClockInv, HeldInv, OpenFrame
  PROVE  HeldInv'
<1>0. StationInv /\ ForeignInv /\ SilenceInv
  BY DEF HeldInv
<1>1. /\ ~open /\ open' = TRUE /\ sinceStation' = 0
      /\ sinceManual' = {IF t < 2 * ManualPeriod THEN t + sinceStation ELSE t :
                           t \in sinceManual}
      /\ UNCHANGED <<state, awake, sinceTick, losses, uplink, inbox, held>>
  BY DEF OpenFrame, quiet, vars, link, operator
<1>2. /\ sinceStation \in Nat /\ sinceManual \subseteq Nat
      /\ ManualPeriod \in Nat \ {0}
  BY <1>0, LinkAssumption DEF StationInv, ClockInv
<1>3. ASSUME NEW m \in sinceManual'
      PROVE  \E n \in sinceManual :
                /\ m \in Nat /\ m =< n + sinceStation /\ m + sinceStation' = m
                /\ n < ManualPeriod => m = n + sinceStation
  <2>1. PICK n \in sinceManual :
               m = IF n < 2 * ManualPeriod THEN n + sinceStation ELSE n
    BY <1>1
  <2>2. n \in Nat
    BY <1>2
  <2>3. m \in Nat /\ m =< n + sinceStation
    BY <1>2, <2>1, <2>2
  <2>4. n < ManualPeriod => m = n + sinceStation
    BY <1>2, <2>1, <2>2
  <2>5. m + sinceStation' = m
    BY <1>1, <2>3
  <2> QED BY <2>3, <2>4, <2>5
<1>4. StationInv'
  <2>1. ASSUME NEW m \in sinceManual'
        PROVE  /\ held' # {} => /\ m + sinceStation' =< Period
                                /\ ~open' => m < ManualPeriod
               /\ \A i \in DOMAIN uplink' : uplink'[i].order = "Manual" =>
                     m + sinceStation' =< uplink'[i].age
    <3>1. PICK n \in sinceManual :
                /\ m \in Nat /\ m =< n + sinceStation /\ m + sinceStation' = m
                /\ n < ManualPeriod => m = n + sinceStation
      BY <1>3
    <3>2. n + sinceStation \in Nat
      BY <1>2
    <3>3. held' # {} => m + sinceStation' =< Period
      <4>1. held' # {} => n + sinceStation =< Period
        BY <1>0, <1>1 DEF StationInv
      <4> QED BY <3>1, <3>2, <4>1, PeriodType
    <3>4. ASSUME NEW i \in DOMAIN uplink', uplink'[i].order = "Manual"
          PROVE  m + sinceStation' =< uplink'[i].age
      <4>1. n + sinceStation =< uplink[i].age /\ uplink'[i] = uplink[i]
        BY <1>0, <1>1, <3>4 DEF StationInv
      <4>2. uplink[i].age \in Nat
        BY <1>1, <3>4, LinkAssumption DEF ClockInv
      <4> QED BY <3>1, <3>2, <4>1, <4>2
    <3> QED BY <1>1, <3>3, <3>4
  <2>2. sinceManual' \subseteq Nat
    BY <1>3
  <2>3. \A m, n \in sinceManual' : m = n
    BY <1>0, <1>1 DEF StationInv
  <2>4. held' # {} => sinceManual' # {}
    BY <1>0, <1>1 DEF StationInv
  <2> QED BY <1>0, <1>1, <2>1, <2>2, <2>3, <2>4 DEF StationInv
<1>5. ForeignInv'
  <2>1. waited' = waited
    BY <1>1 DEF waited
  <2> QED BY <1>0, <1>1, <2>1 DEF ForeignInv
<1>6. ASSUME NEW w \in Nat, NEW m \in sinceManual', Silent(w)'
      PROVE  Chain(losses'["stick"], uplink', m + sinceStation', w)
  <2>1. Silent(w)
    BY <1>1, <1>6 DEF Silent
  <2>2. PICK n \in sinceManual :
                /\ m \in Nat /\ m =< n + sinceStation /\ m + sinceStation' = m
                /\ n < ManualPeriod => m = n + sinceStation
    BY <1>3
  <2>3. n < ManualPeriod
    BY <1>0, <1>1, <2>1 DEF Silent, StationInv
  <2>4. m + sinceStation' = n + sinceStation
    BY <2>2, <2>3
  <2> QED BY <1>0, <1>1, <2>1, <2>4 DEF SilenceInv
<1> QED BY <1>4, <1>5, <1>6 DEF HeldInv, SilenceInv

LEMMA HeldInductive ==
  ASSUME LinkInv, ClockInv, HeldInv, [TeleNext]_teleVars
  PROVE  HeldInv'
<1>1. CASE Pass
  BY <1>1, PassHeld
<1>2. CASE DroneTick
  BY <1>2, TickHeld
<1>3. CASE Handle
  BY <1>3, HandedHeld
<1>4. CASE EndTick
  BY <1>4, EndTickHeld
<1>5. CASE \E i \in DOMAIN uplink : Arrive(i) \/ Lose(i) \/ Repeat(i)
  BY <1>5, TransitHeld
<1>6. CASE OpenFrame
  BY <1>6, OpenHeld
<1>7. CASE \E a \in Sticks : Stick(a)
  BY <1>7, StickHeld
<1>8. CASE Operator
  <2>1. \E order \in Orders \ {"Manual"}, v \in Vec3 : Click(order, v)
    BY <1>8, ZeroType, LinkAssumption, InputAssumption DEF Operator, Orders
  <2> QED BY <2>1, ClickHeld
<1>9. CASE UNCHANGED teleVars
  <2>1. UNCHANGED <<state, awake, open, sinceStation, sinceTick, uplink, inbox,
                    losses, sinceManual, held>>
    BY <1>9 DEF teleVars, vars, link, gcs, operator
  <2> QED
    BY <2>1 DEF HeldInv, StationInv, ForeignInv, SilenceInv, Silent, waited
<1> QED
  BY <1>1, <1>2, <1>3, <1>4, <1>5, <1>6, <1>7, <1>8, <1>9
  DEF TeleNext, DroneStep, Deliver, StationStep

LEMMA HeldInvariance == TeleSpec => [](LinkInv /\ ClockInv /\ HeldInv)
<1>1. TeleInit => HeldInv
  <2> SUFFICES ASSUME TeleInit PROVE HeldInv
    OBVIOUS
  <2>1. /\ DOMAIN uplink = {} /\ DOMAIN inbox = {}
        /\ sinceManual = {} /\ held = {}
    BY DEF TeleInit
  <2>2. losses \in [{"stick", "click"} -> 0 .. MaxLosses]
    <3>1. losses = [stick |-> 0, click |-> 0] /\ 0 \in 0 .. MaxLosses
      BY LinkAssumption DEF TeleInit
    <3>2. losses = [x \in {"stick", "click"} |-> 0]
      BY <3>1
    <3> QED BY <3>1, <3>2
  <2>3. StationInv
    BY <2>1, <2>2 DEF StationInv
  <2>4. ForeignInv /\ SilenceInv
    BY <2>1 DEF ForeignInv, SilenceInv
  <2> QED BY <2>3, <2>4 DEF HeldInv
<1> QED BY <1>1, HandleInvariance, HeldInductive, PTL DEF TeleSpec

\* The clamp turns no deflected stick into a centred one.
ClampKeepsDeflection == \A a \in Sticks : a # Zero => clamped_axes(a) # Zero

\* One step of a manual flight under a stick that has been held for long.
LEMMA HeldStep ==
  ASSUME LinkInv, ClockInv, HeldInv, [TeleNext]_teleVars, ClampKeepsDeflection,
         LongestSilence =< ManualTimeout,
         NEW t \in held, t > LongestSilence + DroneGap,
         state.mode = "Manual"
  PROVE  state'.mode = "Manual"
<1>0. StationInv /\ ForeignInv /\ SilenceInv
  BY DEF HeldInv
<1>1. /\ MaxDelay \in Nat /\ DroneGap \in Nat /\ LongestSilence \in Nat
      /\ MaxDelay =< LongestSilence /\ t \in Nat /\ ManualTimeout \in Nat
  <2>1. MaxDelay \in Nat /\ MaxLosses + 1 \in Nat /\ DroneGap \in Nat
    BY LinkAssumption
  <2>2. (MaxLosses + 1) * Period \in Nat
    BY <2>1, PeriodType, Times
  <2>3. LongestSilence = (MaxLosses + 1) * Period + MaxDelay
    BY DEF LongestSilence, Period
  <2> DEFINE n == (MaxLosses + 1) * Period
  <2> HIDE DEF n
  <2>4. n \in Nat /\ LongestSilence = n + MaxDelay
    BY <2>2, <2>3 DEF n
  <2>5. t \in Nat /\ ManualTimeout \in Nat
    BY FlightConfigAssumption DEF ClockInv
  <2> QED BY <2>1, <2>4, <2>5
<1>2. CASE Handle
  <2> DEFINE f == Head(inbox)
  <2>1. Execute(f) /\ f \in Frame /\ \E k \in DOMAIN inbox : f = inbox[k]
    BY <1>2, TailType DEF Handle, LinkInv
  <2> HIDE DEF f
  <2>2. awake /\ waited = DroneGap
    BY <2>1 DEF waited, Execute, Arm, Disarm, Land, Goto, ManualInput, Command
  <2>3. ~Foreign(f)
    <3>1. Foreign(f) => t =< MaxDelay + DroneGap
      BY <1>0, <2>1, <2>2 DEF ForeignInv
    <3> QED BY <1>1, <3>1
  <2>4. CASE f.order = "Arm"
    BY <2>1, <2>4, ExecuteInFlight DEF LinkInv
  <2>5. CASE Deflected(f)
    <3>1. f.order = "Manual" /\ clamped_axes(f.v) # Zero
      BY <1>0, <2>1, <2>5 DEF ForeignInv, Deflected, ClampKeepsDeflection
    <3> QED BY <2>1, <3>1, ExecuteInFlight DEF LinkInv
  <2> QED BY <2>3, <2>4, <2>5 DEF Foreign
<1>3. CASE EndTick
  <2>1. Step /\ inbox = <<>> /\ awake
    BY <1>3 DEF EndTick, Step
  <2>2. state.sinceInput =< ManualTimeout
    <3> SUFFICES ASSUME ~(state.sinceInput =< ManualTimeout) PROVE FALSE
      OBVIOUS
    <3> DEFINE w == LongestSilence + 1
    <3>1. w \in Nat /\ w =< t /\ w =< state.sinceInput + sinceTick
      BY <1>0, <1>1, HeldTypes
    <3>2. None(inbox, "Manual")
      BY <2>1 DEF None
    <3>3. Silent(w)
      BY <3>1, <3>2 DEF Silent
    <3>4. PICK m \in sinceManual : TRUE
      BY <1>0 DEF StationInv
    <3>5. /\ losses["stick"] \in 0 .. MaxLosses /\ uplink \in Seq(Frame)
          /\ m + sinceStation \in Nat /\ m + sinceStation =< Period
          /\ \A i \in DOMAIN uplink :
                /\ uplink[i].age \in 0 .. MaxDelay
                /\ uplink[i].order = "Manual" => m + sinceStation =< uplink[i].age
      BY <1>0, HeldTypes DEF StationInv, ClockInv
    <3> HIDE DEF w
    <3>6. Chain(losses["stick"], uplink, m + sinceStation, w)
      BY <1>0, <3>1, <3>3 DEF SilenceInv
    <3>7. w =< LongestSilence
      BY <3>1, <3>5, <3>6, ChainEnds
    <3> QED BY <1>1, <3>7 DEF w
  <2> QED BY <2>1, <2>2, StepManualFlight DEF LinkInv
<1>4. CASE DroneTick
  <2>1. state' = aged(state, sinceTick) /\ sinceTick \in Nat
    BY <1>0, <1>4, HeldTypes DEF DroneTick, WakeUp
  <2> QED BY <2>1, AgedSound DEF LinkInv, IInv
<1>5. CASE state' = state
  BY <1>5
<1>6. Handle \/ EndTick \/ DroneTick \/ state' = state
  BY DEF TeleNext, DroneStep, Deliver, StationStep, Operator, Pass, OpenFrame,
         Stick, Click, Arrive, Lose, Repeat, teleVars, vars
<1> QED BY <1>2, <1>3, <1>4, <1>5, <1>6

-----------------------------------------------------------------------------
LEMMA RootPositive ==
  ASSUME NEW q \in Nat, q >= 1
  PROVE  integerRoot[q] >= 1
<1> DEFINE K == {k \in 1 .. q : k * k =< q}
<1>1. IsFiniteSet(K) /\ {1} \subseteq K
  <2>1. IsFiniteSet(1 .. q) /\ K \in SUBSET (1 .. q)
    BY FS_Interval
  <2>2. 1 \in 1 .. q /\ 1 * 1 =< q
    OBVIOUS
  <2> QED BY <2>1, <2>2, FS_Subset
<1>2. Cardinality({1}) = 1
  BY FS_Singleton
<1>3. Cardinality({1}) =< Cardinality(K)
  BY <1>1, FS_Subset
<1>4. integerRoot[q] = Cardinality(K)
  BY DEF integerRoot
<1> HIDE DEF K
<1>5. Cardinality(K) \in Nat
  BY <1>1, FS_CardinalityType
<1> QED BY <1>2, <1>3, <1>4, <1>5

\* The greater component of a vector survives its scaling to two units and more.
LEMMA GreaterComponent ==
  ASSUME NEW c \in Int, NEW d \in Int, c # 0, d * d =< c * c, NEW n \in Nat,
         n = c * c + d * d, NEW l \in Nat, l >= 2
  PROVE  scaledComponent(c, n, l) # 0
<1> DEFINE cc == c * c
           e == l * l * c * c
<1>1. cc \in Nat /\ cc >= 1
  <2>1. CASE c >= 1
    <3>1. c * c >= c
      BY <2>1
    <3> QED BY <2>1, <3>1
  <2>2. CASE c =< -1
    <3>1. c * c >= -c
      BY <2>2
    <3> QED BY <2>2, <3>1
  <2> QED BY <2>1, <2>2
<1>2. d * d \in Int
  OBVIOUS
<1>3. n >= 1 /\ n =< cc + cc
  BY <1>1, <1>2
<1>4. e = (l * l) * cc /\ l * l \in Nat /\ l * l >= 4
  <2>1. l * l >= 2 * l
    OBVIOUS
  <2> QED BY <2>1
<1> DEFINE k == l * l
<1>5. k * cc >= 4 * cc
  <2> HIDE DEF cc, k
  <2>1. k \in Nat /\ k >= 4 /\ cc \in Nat
    BY <1>1, <1>4 DEF k
  <2> QED BY <2>1
<1>6. e \in Nat /\ e >= n
  <2>1. e >= 4 * cc /\ e \in Int
    BY <1>4, <1>5
  <2> HIDE DEF e, cc
  <2> QED BY <1>1, <1>3, <2>1
<1>7. e \div n \in Nat /\ e \div n >= 1
  <2> HIDE DEF e
  <2> QED BY <1>3, <1>6
<1>8. integerRoot[e \div n] >= 1 /\ integerRoot[e \div n] \in Nat
  BY <1>7, RootPositive, RootType
<1> DEFINE r == integerRoot[e \div n]
<1>9. r >= 1 /\ r \in Nat
  BY <1>8
<1>10. scaledComponent(c, n, l) = IF c >= 0 THEN r ELSE -r
  BY DEF scaledComponent
<1> HIDE DEF r
<1> QED BY <1>9, <1>10

LEMMA DeflectionSurvives ==
  ASSUME FullStick >= 2, NEW a \in Vec3, a # Zero
  PROVE  clamped_axes(a) # Zero
<1> DEFINE x == clamp(a.x, -FullStick, FullStick)
           z == clamp(a.z, -FullStick, FullStick)
           b == [x |-> x, z |-> z]
<1>1. /\ x \in Int /\ z \in Int /\ (x # 0 \/ z # 0) /\ FullStick \in Nat
      /\ b.x = x /\ b.z = z
  <2>1. a.x \in Int /\ a.z \in Int /\ (a.x # 0 \/ a.z # 0)
    BY DEF Vec3, Zero
  <2> QED BY <2>1, FlightConfigAssumption DEF clamp
<1>2. clamped_axes(a) = clamp_to_unit_ball(b)
  BY DEF clamped_axes
<1> HIDE DEF x, z, b
<1>3. CASE ~(normSquared(b) > FullStick * FullStick)
  <2>1. clamped_axes(a) = b
    BY <1>2, <1>3 DEF clamp_to_unit_ball
  <2> QED BY <1>1, <2>1, ZeroType
<1>4. CASE normSquared(b) > FullStick * FullStick
  <2> DEFINE n == normSquared(b)
  <2>1. clamped_axes(a) = [x |-> scaledComponent(x, n, FullStick),
                           z |-> scaledComponent(z, n, FullStick)]
    BY <1>1, <1>2, <1>4 DEF clamp_to_unit_ball, scaled
  <2>2. n = x * x + z * z /\ x * x \in Nat /\ z * z \in Nat
    BY <1>1 DEF normSquared
  <2> HIDE DEF n
  <2>3. n \in Nat /\ n = z * z + x * x
    BY <2>2
  <2>4. CASE z * z =< x * x
    <3>1. x # 0
      BY <1>1, <2>4
    <3>2. scaledComponent(x, n, FullStick) # 0
      BY <1>1, <2>2, <2>3, <2>4, <3>1, GreaterComponent
    <3> QED BY <2>1, <3>2, ZeroType
  <2>5. CASE x * x =< z * z
    <3>1. z # 0
      BY <1>1, <2>5
    <3>2. scaledComponent(z, n, FullStick) # 0
      BY <1>1, <2>2, <2>3, <2>5, <3>1, GreaterComponent
    <3> QED BY <2>1, <3>2, ZeroType
  <2> QED BY <2>2, <2>4, <2>5
<1> QED BY <1>3, <1>4

-----------------------------------------------------------------------------
(***************************************************************************)
(* The theorems.                                                           *)
(***************************************************************************)
\* However the link reorders, delays, repeats or loses the frames, and however
\* many are on their way: a landing that was ordered is ended by no frame that
\* was sent before it, unless one of these is an ARM.
THEOREM LandingIsFinalForEver == TeleSpec => []LandingIsFinal
<1>1. LandingInv => LandingIsFinal
  BY DEF LandingInv, LandingIsFinal
<1> QED BY <1>1, TeleInvariance, PTL

\* The drone keeps its promises whatever reaches it over the link, and however
\* late its ticks are.
THEOREM SafeAcrossTheLink ==
  TeleSpec => []/\ MotorsCutOnlyNearTheGround
                /\ InsideFence
                /\ SticksOnlyInManual
                /\ ManualOnlyWithFreshInput
<1>1. LinkInv => /\ MotorsCutOnlyNearTheGround
                 /\ InsideFence
                 /\ SticksOnlyInManual
                 /\ ManualOnlyWithFreshInput
  BY DEF LinkInv, IInv, Sound, MotorsCutOnlyNearTheGround, InsideFence,
         SticksOnlyInManual
<1> QED BY <1>1, TeleInvariance, PTL

\* Whatever the bounds on the gaps, the delay and the losses are, a drone is
\* flown by hand for no longer than they add up to after the stick was let go.
THEOREM DeadMansHandleHolds == TeleSpec => []DeadMansHandle
<1>1. HandleInv => DeadMansHandle
  BY DEF HandleInv, DeadMansHandle, Within
<1> QED BY <1>1, HandleInvariance, PTL

\* A stick that is held keeps a drone in manual flight through every loss and
\* delay that the timeout has room for, if the clamp centres no stick.
THEOREM HeldStickKeepsFlying ==
  ClampKeepsDeflection => (TeleSpec => HeldStickFlies)
<1> SUFFICES ASSUME ClampKeepsDeflection PROVE TeleSpec => HeldStickFlies
  OBVIOUS
<1> DEFINE Flies == (/\ LongestSilence =< ManualTimeout
                     /\ \E t \in held : t > LongestSilence + DroneGap
                     /\ state.mode = "Manual") => state'.mode = "Manual"
<1>1. LinkInv /\ ClockInv /\ HeldInv /\ [TeleNext]_teleVars => [Flies]_teleVars
  BY HeldStep
<1> QED BY <1>1, HeldInvariance, PTL DEF TeleSpec, HeldStickFlies

\* The one grid on which the clamp could centre a stick is that of a single unit:
\* with a finer one the promise needs no condition on the sticks.
THEOREM HeldStickKeepsFlyingOnAFineGrid ==
  FullStick >= 2 => (TeleSpec => HeldStickFlies)
<1>1. FullStick >= 2 => ClampKeepsDeflection
  BY DeflectionSurvives, InputAssumption DEF ClampKeepsDeflection
<1> QED BY <1>1, HeldStickKeepsFlying
=============================================================================
