--------------------------- MODULE FanTargetProofs ---------------------------
(***************************************************************************)
(* Proofs about the fan target controller, for all curves, targets and     *)
(* temperatures and any function from them to generated curves.            *)
(***************************************************************************)
EXTENDS FanTarget, TLAPS

(* What the user last chose agrees with these curves and this fan mode, as far
   as it is known. *)
Matches(w, curve, fanMode) ==
    /\ \A s \in Side : w.curve[s] \in {None, curve[s]}
    /\ w.fanMode \in {None, fanMode}

(* The curve of a side is the one generated for the moment. *)
InForce(f) == \A s \in Side : CurrentTemp(f, s) > 0 =>
                  f.curve[s] = CurveFor[TargetOf(f, s)][f.temp[s]]

(* In target mode the signature is the curve, which is why a curve equal to it
   need not be written. *)
Signed(f) == f.mode = "Target" =>
                 \A s \in Side : f.signature[s] \in {None, f.curve[s]}

(* The settings file holds the mode, but for the default one. *)
Saved(mode, savedMode) == savedMode = mode \/ (mode = "Curve" /\ savedMode = None)

(* The inductive invariant but for the first publication.  UserCurveReturns is
   not inductive: the user's curves come back because in target mode the backup
   holds them, and the backup is only made when the mode was seen to change. *)
Steady(f, w) ==
    /\ f.mode # None => f.seen
    /\ f.seen => f.last = ControlMode(f)
    /\ f.mode # None => Saved(f.mode, f.savedMode)
    /\ ControlMode(f) = "Curve" => Matches(w, f.curve, f.fanMode)
    /\ f.mode = "Target" => /\ f.backup # None
                            /\ Matches(w, f.backup.curve, f.backup.fanMode)
    /\ f.mode = None /\ f.savedMode = "Target" /\ ~f.known => w = Lost
    /\ Signed(f)

Good(f, w) == /\ Steady(f, w)
              /\ f.known => f.seen
              /\ f.mode = "Target" => InForce(f)

IInv == TypeOK /\ Good(fan, wish)

-----------------------------------------------------------------------------
(* Types. *)

(* No mode is None. *)
LEMMA Distinct == "Curve" # None /\ "Target" # None /\ MinTargetTemp \in Targets \union {MinTargetTemp}
BY NoneAssumption DEF Mode

(* What is read is a mode, a target, a temperature, a curve. *)
LEMMA ReadTypes ==
    ASSUME NEW f \in Fan
    PROVE  /\ ReadFanMode(f) \in Modes
           /\ ControlMode(f) \in Mode
           /\ \A s \in Side :
                  /\ ReadCurve(f, s) \in Curves
                  /\ TargetOf(f, s) \in Targets \union {MinTargetTemp}
                  /\ CurrentTemp(f, s) > 0 =>
                         f.known /\ CurrentTemp(f, s) = f.temp[s] /\ f.temp[s] \in Temps
<1>1. ReadFanMode(f) \in Modes
  BY DEF Fan, ReadFanMode, Modes
<1>2. ControlMode(f) \in Mode
  BY DEF Fan, ControlMode, Mode
<1>3. ASSUME NEW s \in Side
      PROVE  /\ ReadCurve(f, s) \in Curves
             /\ TargetOf(f, s) \in Targets \union {MinTargetTemp}
             /\ f.temp[s] \in Temps
  <2>1. ZeroCurve \in Curves
    BY DEF Curves
  <2>2. ReadCurve(f, s) \in Curves
    BY <2>1 DEF Fan, ReadCurve
  <2>3. TargetOf(f, s) \in Targets \union {MinTargetTemp}
    BY DEF Fan, TargetOf
  <2>4. f.temp[s] \in Temps
    BY DEF Fan, Temps
  <2> QED BY <2>2, <2>3, <2>4
<1>4. ASSUME NEW s \in Side, CurrentTemp(f, s) > 0
      PROVE  f.known /\ CurrentTemp(f, s) = f.temp[s]
  BY <1>4 DEF CurrentTemp
<1> QED BY <1>1, <1>2, <1>3, <1>4

(* A generated curve is one of the curves. *)
LEMMA GeneratedType ==
    \A t \in Targets \union {MinTargetTemp}, c \in Temps : CurveFor[t][c] \in Curves
BY DEF Curves

(* The small steps of apply: their types and what they leave alone. *)
LEMMA SmallSteps ==
    ASSUME NEW f \in Fan
    PROVE  /\ Unsigned(f) \in Fan
           /\ BackedUp(f) \in Fan /\ BackedUp(f).backup # None
           /\ Restored(f) \in Fan
           /\ Forced(f) \in Fan
<1>1. Unsigned(f) \in Fan
  BY DEF Fan, Unsigned, NoCurves
<1>2. BackedUp(f) \in Fan
  BY ReadTypes DEF Fan, BackedUp, Backup
<1>3. BackedUp(f).backup # None
  <2>1. BackedUp(f).backup \in Backup
    BY ReadTypes DEF BackedUp, Fan, Backup
  <2> QED BY <2>1, NoneAssumption
<1>4. Restored(f) \in Fan
  BY DEF Fan, Restored, Unsigned, NoCurves, Backup
<1>5. Forced(f) \in Fan
  BY DEF Fan, Forced, Modes
<1> QED BY <1>1, <1>2, <1>3, <1>4, <1>5

(* What every step of apply leaves alone. *)
SameSettings(f, g) ==
    /\ g.mode = f.mode /\ g.target = f.target /\ g.temp = f.temp
    /\ g.savedMode = f.savedMode /\ g.savedTarget = f.savedTarget

(* In target mode apply puts the generated curve in force, because the
   signature is the curve; the backup is left alone. *)
LEMMA TargetAppliedEffect ==
    ASSUME NEW f \in Fan, f.mode = "Target", Signed(f)
    PROVE  LET g == TargetApplied(f)
           IN  /\ g \in Fan /\ Signed(g) /\ InForce(g)
               /\ SameSettings(f, g)
               /\ g.seen = f.seen /\ g.last = f.last /\ g.backup = f.backup
<1> DEFINE h == Forced(f)
           new == [s \in Side |-> CurveFor[TargetOf(h, s)][CurrentTemp(h, s)]]
           due == {s \in Side : CurrentTemp(h, s) > 0 /\ new[s] # h.signature[s]}
           g == TargetApplied(f)
<1>1. /\ h \in Fan /\ SameSettings(f, h) /\ h.signature = f.signature
      /\ h.curve = f.curve /\ h.seen = f.seen /\ h.last = f.last
      /\ h.backup = f.backup
  BY SmallSteps DEF Forced, Fan, SameSettings
<1>2. g = [h EXCEPT !.curve = [s \in Side |-> IF s \in due THEN new[s] ELSE h.curve[s]],
                    !.signature = [s \in Side |-> IF s \in due THEN new[s] ELSE h.signature[s]]]
  BY <1>1 DEF TargetApplied, Fan
<1>3. \A s \in due : new[s] \in Curves
  BY <1>1, ReadTypes, GeneratedType
<1> HIDE DEF h, new, due, g
<1>4. g \in Fan
  BY <1>1, <1>2, <1>3 DEF Fan
<1>5. /\ SameSettings(h, g) /\ g.known = h.known
      /\ g.seen = h.seen /\ g.last = h.last /\ g.backup = h.backup
  BY <1>1, <1>2 DEF Fan, SameSettings
<1>6. \A s \in Side : IF s \in due THEN g.curve[s] = new[s] /\ g.signature[s] = new[s]
                      ELSE g.curve[s] = h.curve[s] /\ g.signature[s] = h.signature[s]
  BY <1>1, <1>2 DEF Fan
<1>7. Signed(g)
  BY <1>1, <1>6 DEF Signed, SameSettings
<1>8. InForce(g)
  <2> SUFFICES ASSUME NEW s \in Side, CurrentTemp(g, s) > 0
               PROVE  g.curve[s] = CurveFor[TargetOf(g, s)][g.temp[s]]
    BY DEF InForce
  <2>1. /\ CurrentTemp(g, s) = CurrentTemp(h, s) /\ TargetOf(g, s) = TargetOf(h, s)
        /\ CurrentTemp(g, s) = g.temp[s]
    BY <1>5 DEF CurrentTemp, TargetOf, SameSettings
  <2>2. new[s] = CurveFor[TargetOf(g, s)][g.temp[s]] /\ new[s] \in Curves
    <3>1. new[s] = CurveFor[TargetOf(h, s)][CurrentTemp(h, s)]
      BY DEF new
    <3>2. TargetOf(h, s) \in Targets \union {MinTargetTemp} /\ CurrentTemp(h, s) \in Temps
      BY <1>1, <2>1, ReadTypes
    <3> QED BY <2>1, <3>1, <3>2, GeneratedType
  <2>3. CASE s \in due
    BY <1>6, <2>2, <2>3
  <2>4. CASE s \notin due
    <3>1. new[s] = h.signature[s]
      BY <2>1, <2>4 DEF due
    <3>2. h.signature[s] = h.curve[s]
      BY <1>1, <2>2, <3>1, NoneAssumption DEF Signed
    <3> QED BY <1>6, <2>2, <2>4, <3>1, <3>2
  <2> QED BY <2>3, <2>4
<1> QED BY <1>1, <1>4, <1>5, <1>7, <1>8 DEF g, SameSettings

(* No mode change is pending in a steady state: apply only remembers the mode
   and, in target mode, puts the curve in force. *)
LEMMA SwitchedSteady ==
    ASSUME NEW f \in Fan, NEW w, Steady(f, w)
    PROVE  Switched(f) = [f EXCEPT !.seen = TRUE, !.last = ControlMode(f)]
<1>1. CASE f.seen
  BY <1>1 DEF Switched, Steady
<1>2. CASE ~f.seen
  <2>1. ControlMode(f) = "Curve"
    BY <1>2 DEF Steady, ControlMode
  <2> QED BY <1>2, <2>1 DEF Switched
<1> QED BY <1>1, <1>2

LEMMA SteadyApplied ==
    ASSUME NEW f \in Fan, NEW w, Steady(f, w)
    PROVE  Applied(f) \in Fan /\ Good(Applied(f), w)
<1> DEFINE g == [f EXCEPT !.seen = TRUE, !.last = ControlMode(f)]
<1>1. Applied(f) = IF ControlMode(g) = "Target" THEN TargetApplied(g) ELSE g
  BY SwitchedSteady DEF Applied
<1>2. /\ g \in Fan /\ SameSettings(f, g) /\ g.seen /\ g.last = ControlMode(f)
      /\ g.curve = f.curve /\ g.fanMode = f.fanMode /\ g.backup = f.backup
      /\ g.signature = f.signature /\ g.known = f.known
  BY ReadTypes DEF Fan, SameSettings
<1>3. ControlMode(g) = ControlMode(f)
  BY <1>2 DEF ControlMode, SameSettings
<1> HIDE DEF g
<1>4. Steady(g, w)
  BY <1>2, <1>3 DEF Steady, SameSettings, Signed
<1>5. CASE ControlMode(f) = "Target"
  <2>1. g.mode = "Target" /\ Signed(g) /\ f.mode = "Target"
    BY <1>2, <1>4, <1>5, Distinct DEF ControlMode, SameSettings, Steady
  <2> DEFINE h == TargetApplied(g)
  <2>2. /\ h \in Fan /\ Signed(h) /\ InForce(h) /\ SameSettings(g, h)
        /\ h.seen = g.seen /\ h.last = g.last /\ h.backup = g.backup
    BY <1>2, <2>1, TargetAppliedEffect
  <2> HIDE DEF h
  <2>3. h.mode = "Target" /\ ControlMode(h) = "Target"
    BY <2>1, <2>2, Distinct DEF SameSettings, ControlMode
  <2>4. Good(h, w)
    BY <1>2, <1>3, <1>4, <1>5, <2>2, <2>3, <2>1, Distinct DEF Good, Steady, SameSettings
  <2> QED BY <1>1, <1>3, <1>5, <2>2, <2>4 DEF h
<1>6. CASE ControlMode(f) # "Target"
  <2>1. g.mode # "Target"
    BY <1>3, <1>6, Distinct DEF ControlMode
  <2> QED BY <1>1, <1>2, <1>3, <1>4, <1>6, <2>1 DEF Good
<1> QED BY <1>5, <1>6

(* Publishing the EC parameters ends in a good state. *)
LEMMA KnownGood ==
    ASSUME NEW f \in Fan, NEW w, Steady([f EXCEPT !.known = TRUE], w),
           f.known => f.seen /\ (f.mode = "Target" => InForce(f))
    PROVE  Known(f) \in Fan /\ Good(Known(f), w)
<1> DEFINE g == [f EXCEPT !.known = TRUE]
<1>1. g \in Fan
  BY DEF Fan
<1>2. CASE f.known
  <2>1. g = f
    BY <1>2 DEF Fan
  <2> QED BY <1>2, <2>1 DEF Known, Good
<1>3. CASE ~f.known
  <2>1. Known(f) = Applied(g)
    BY <1>3 DEF Known
  <2> QED BY <1>1, <2>1, SteadyApplied
<1> QED BY <1>2, <1>3

(* What the mode switch to target mode leaves for TargetApplied: a backup that
   is what the user chose. *)
LEMMA EnterTarget ==
    ASSUME NEW e \in Fan, NEW w, e.mode = "Target",
           e.seen => e.last = "Curve",
           e.known => e.seen /\ Matches(w, e.curve, e.fanMode),
           ~e.known => w = Lost
    PROVE  LET g == Switched(e)
           IN  /\ g \in Fan /\ g.seen /\ g.last = "Target" /\ g.mode = "Target"
               /\ g.savedMode = e.savedMode /\ g.signature = e.signature
               /\ g.backup # None /\ Matches(w, g.backup.curve, g.backup.fanMode)
<1> DEFINE b == BackedUp(e)
           g == Switched(e)
<1>1. /\ b \in Fan /\ b.backup # None /\ b.mode = e.mode /\ b.savedMode = e.savedMode
      /\ b.signature = e.signature
      /\ b.backup.curve = [s \in Side |-> ReadCurve(e, s)]
      /\ b.backup.fanMode = ReadFanMode(e)
  BY SmallSteps DEF BackedUp, Fan
<1>2. \A c, m : ~e.known => Matches(w, c, m)
  BY DEF Matches, Lost, NoCurves
<1>3. Matches(w, b.backup.curve, b.backup.fanMode)
  <2>1. CASE e.known
    <3>1. b.backup.fanMode = e.fanMode /\ \A s \in Side : b.backup.curve[s] = e.curve[s]
      BY <1>1, <2>1 DEF ReadCurve, ReadFanMode
    <3> QED BY <2>1, <3>1 DEF Matches
  <2> QED BY <1>2, <2>1
<1>4. ControlMode(e) = "Target"
  BY Distinct DEF ControlMode
<1> HIDE DEF b
<1>5. CASE e.seen \/ e.backup = None
  <2>1. g = [b EXCEPT !.seen = TRUE, !.last = "Target"]
    BY <1>4, <1>5 DEF Switched, b
  <2> QED BY <1>1, <1>3, <2>1 DEF Fan, Mode
<1>6. CASE ~e.seen /\ e.backup # None
  <2>1. g = [e EXCEPT !.seen = TRUE, !.last = "Target"]
    BY <1>4, <1>6 DEF Switched
  <2>2. /\ g \in Fan /\ g.seen /\ g.last = "Target" /\ g.mode = "Target"
        /\ g.savedMode = e.savedMode /\ g.signature = e.signature /\ g.backup = e.backup
    BY <2>1 DEF Fan, Mode
  <2> QED BY <1>2, <1>6, <2>2
<1> QED BY <1>5, <1>6

(* The switch to curve mode writes the backup back. *)
LEMMA EnterCurve ==
    ASSUME NEW e \in Fan, NEW w, e.mode = "Curve",
           IF e.seen /\ e.last = "Target"
           THEN e.backup # None /\ Matches(w, e.backup.curve, e.backup.fanMode)
           ELSE Matches(w, e.curve, e.fanMode)
    PROVE  LET g == Switched(e)
           IN  /\ g \in Fan /\ g.seen /\ g.last = "Curve" /\ g.mode = "Curve"
               /\ g.savedMode = e.savedMode /\ Matches(w, g.curve, g.fanMode)
<1>1. ControlMode(e) = "Curve"
  BY Distinct DEF ControlMode
<1>2. CASE e.seen /\ e.last = "Target"
  <2>1. Switched(e) = [Restored(e) EXCEPT !.seen = TRUE, !.last = "Curve"]
    BY <1>1, <1>2 DEF Switched
  <2>2. /\ Restored(e) \in Fan /\ Restored(e).mode = e.mode
        /\ Restored(e).savedMode = e.savedMode
        /\ Restored(e).curve = e.backup.curve /\ Restored(e).fanMode = e.backup.fanMode
    BY <1>2, SmallSteps DEF Restored, Unsigned, Fan
  <2> QED BY <1>2, <2>1, <2>2 DEF Fan, Mode
<1>3. CASE ~(e.seen /\ e.last = "Target")
  <2>1. Switched(e) = [e EXCEPT !.seen = TRUE, !.last = "Curve"]
    BY <1>1, <1>3 DEF Switched
  <2> QED BY <1>3, <2>1 DEF Fan, Mode
<1> QED BY <1>2, <1>3

(* A change of mode, with `sm` the mode saved by then.  Before the EC parameters
   are published there is nothing to back up, so that a switch to target mode
   loses what the user had. *)
LEMMA ModeSwitched ==
    ASSUME NEW f \in Fan, NEW w, Good(f, w), NEW mode \in Mode, mode # f.mode,
           NEW sm \in Mode \union {None}, Saved(mode, sm),
           mode = "Target" /\ ~f.known => w = Lost
    PROVE  LET h == ModePublished([f EXCEPT !.savedMode = sm], mode)
           IN  h \in Fan /\ Good(h, w)
<1> DEFINE h == [f EXCEPT !.savedMode = sm]
           e == [Unsigned(h) EXCEPT !.mode = mode]
           g == Switched(e)
<1>1. h \in Fan
  BY DEF Fan
<1>2. /\ e \in Fan /\ e.mode = mode /\ e.savedMode = sm /\ e.signature = NoCurves
      /\ e.seen = f.seen /\ e.last = f.last /\ e.known = f.known
      /\ e.curve = f.curve /\ e.fanMode = f.fanMode /\ e.backup = f.backup
  BY <1>1, SmallSteps DEF Unsigned, Fan, NoCurves
<1>3. ModePublished(h, mode) = IF ControlMode(g) = "Target" THEN TargetApplied(g) ELSE g
  BY DEF ModePublished, Fan, Applied
<1>4. f.seen => f.last = ControlMode(f)
  BY DEF Good, Steady
<1> HIDE DEF h, e
<1>5. CASE mode = "Target"
  <2>1. ControlMode(f) = "Curve"
    BY <1>5, Distinct DEF ControlMode, Fan, Mode
  <2>2. /\ g \in Fan /\ g.seen /\ g.last = "Target" /\ g.mode = "Target"
        /\ g.savedMode = sm /\ g.signature = NoCurves
        /\ g.backup # None /\ Matches(w, g.backup.curve, g.backup.fanMode)
    <3>1. f.known => f.seen /\ Matches(w, f.curve, f.fanMode)
      BY <2>1 DEF Good, Steady
    <3> QED BY <1>2, <1>4, <1>5, <2>1, <3>1, EnterTarget
  <2> HIDE DEF g
  <2>3. ControlMode(g) = "Target" /\ Signed(g)
    BY <2>2, Distinct DEF ControlMode, Signed, NoCurves
  <2> DEFINE t == TargetApplied(g)
  <2>4. /\ t \in Fan /\ Signed(t) /\ InForce(t) /\ SameSettings(g, t)
        /\ t.seen = g.seen /\ t.last = g.last /\ t.backup = g.backup
    BY <2>2, <2>3, TargetAppliedEffect
  <2> HIDE DEF t
  <2>5. t.mode = "Target" /\ ControlMode(t) = "Target" /\ t.savedMode = sm
    BY <2>2, <2>4, Distinct DEF SameSettings, ControlMode
  <2>6. Good(t, w)
    BY <1>5, <2>2, <2>4, <2>5, Distinct DEF Good, Steady
  <2> QED BY <1>3, <2>3, <2>4, <2>6 DEF h, t
<1>6. CASE mode = "Curve"
  <2>1. IF e.seen /\ e.last = "Target"
        THEN e.backup # None /\ Matches(w, e.backup.curve, e.backup.fanMode)
        ELSE Matches(w, e.curve, e.fanMode)
    <3>1. CASE f.mode = "Target"
      BY <1>2, <3>1, <1>4, Distinct DEF Good, Steady, ControlMode
    <3>2. CASE f.mode = None
      BY <1>2, <3>2, <1>4, Distinct DEF Good, Steady, ControlMode
    <3> QED BY <1>6, <3>1, <3>2 DEF Fan, Mode
  <2>2. /\ g \in Fan /\ g.seen /\ g.last = "Curve" /\ g.mode = "Curve"
        /\ g.savedMode = sm /\ Matches(w, g.curve, g.fanMode)
    BY <1>2, <1>6, <2>1, EnterCurve
  <2> HIDE DEF g
  <2>3. ControlMode(g) = "Curve"
    BY <2>2, Distinct DEF ControlMode
  <2>4. Good(g, w)
    BY <1>6, <2>2, <2>3, Distinct DEF Good, Steady, Signed
  <2> QED BY <1>3, <2>2, <2>3, <2>4 DEF h
<1> QED BY <1>5, <1>6 DEF Mode

-----------------------------------------------------------------------------
(* The invariant. *)

LEMMA OrderType == Order \in Seq(ToSet(Order))
<1> DEFINE S == {"registers", "mode"} \union Side
<1>1. <<"registers", "mode">> \in Seq(S)
  OBVIOUS
<1>2. Sides \in Seq(S)
  BY SidesAssumption
<1> HIDE DEF S
<1>3. Order \in Seq(S)
  BY <1>1, <1>2 DEF Order
<1> QED BY <1>3 DEF ToSet

(* Nothing is promised of what is lost. *)
LEMMA LostMatches == \A c, m : Matches(Lost, c, m)
BY DEF Matches, Lost, NoCurves

Wish == [curve : [Side -> UserCurve \union {None}], fanMode : FanMode \union {None}]

LEMMA LostType == Lost \in Wish
BY DEF Lost, Wish, NoCurves

LEMMA LostGood == ASSUME NEW f, NEW w, Good(f, w) PROVE Good(f, Lost)
BY LostMatches DEF Good, Steady

LEMMA InitInductive == Init => IInv
<1> SUFFICES ASSUME Init PROVE IInv
  OBVIOUS
<1>1. /\ fan \in Fan /\ fan.mode = None /\ fan.savedMode = None
      /\ ~fan.known /\ ~fan.seen
  <2>1. UserCurve \subseteq Curves /\ FanMode \subseteq Modes /\ "Curve" \in Mode
    BY DEF Curves, Modes, Mode
  <2>2. [Side -> UserCurve] \subseteq [Side -> Curves]
    BY <2>1
  <2>3. [s \in Side |-> None] \in [Side -> Targets \union {None}]
        /\ [s \in Side |-> None] \in [Side -> TargetTemp \union {None}]
        /\ NoCurves \in [Side -> Curves \union {None}]
    BY DEF NoCurves
  <2> QED BY <2>1, <2>2, <2>3 DEF Init, Fan
<1>2. wish \in Wish /\ Matches(wish, fan.curve, fan.fanMode)
  BY DEF Init, Wish, Matches
<1>3. Good(fan, wish)
  BY <1>1, <1>2, Distinct DEF Good, Steady, Signed
<1> QED BY <1>1, <1>2, <1>3, OrderType DEF IInv, TypeOK, Init, Wish

LEMMA ChangedMode ==
    ASSUME IInv, NEW mode \in Mode, WriteMode(mode)
    PROVE  fan' \in Fan /\ wish' \in Wish /\ Good(fan', wish')
<1>1. Good(fan, wish') /\ wish' \in Wish
  BY LostGood, LostType DEF IInv, TypeOK, Wish, WriteMode
<1>2. Saved(mode, mode) /\ (mode = "Target" /\ ~fan.known => wish' = Lost)
  BY DEF Saved, WriteMode
<1>3. fan \in Fan /\ fan' = ModePublished([fan EXCEPT !.savedMode = mode], mode) /\ mode # fan.mode
  BY DEF WriteMode, IInv, TypeOK
<1> HIDE DEF IInv, WriteMode
<1> QED BY <1>1, <1>2, <1>3, ModeSwitched

LEMMA RestoredMode ==
    ASSUME IInv, RestoreMode
    PROVE  fan' \in Fan /\ Good(fan', wish)
<1> DEFINE mode == IF fan.savedMode # None THEN fan.savedMode
                   ELSE IF fan.mode # None THEN fan.mode ELSE "Curve"
<1>1. fan \in Fan /\ Good(fan, wish) /\ fan' = ModePublished(fan, mode)
  BY DEF RestoreMode, IInv, TypeOK
<1>2. mode \in Mode
  BY <1>1 DEF Fan, Mode
<1>3. CASE mode = fan.mode
  BY <1>1, <1>3 DEF ModePublished
<1>4. CASE mode # fan.mode
  <2>1. fan = [fan EXCEPT !.savedMode = fan.savedMode]
    BY <1>1 DEF Fan
  <2>2. fan.mode = None
    BY <1>1, <1>4 DEF Good, Steady, Saved
  <2>3. Saved(mode, fan.savedMode)
    BY <2>2 DEF Saved
  <2>4. mode = "Target" /\ ~fan.known => wish = Lost
    BY <1>1, <2>2 DEF Good, Steady
  <2>5. fan.savedMode \in Mode \union {None}
    BY <1>1 DEF Fan
  <2>6. LET h == ModePublished([fan EXCEPT !.savedMode = fan.savedMode], mode)
        IN  h \in Fan /\ Good(h, wish)
    BY <1>1, <1>2, <1>4, <2>3, <2>4, <2>5, ModeSwitched
  <2> QED BY <1>1, <2>1, <2>6
<1> QED BY <1>3, <1>4

(* A target, chosen or restored, with `st` the targets saved by then. *)
LEMMA ChangedTarget ==
    ASSUME NEW f \in Fan, NEW w, Good(f, w), NEW s \in Side, NEW t \in Targets,
           NEW st \in [Side -> TargetTemp \union {None}]
    PROVE  LET h == TargetPublished([f EXCEPT !.savedTarget = st], s, t)
           IN  h \in Fan /\ Good(h, w)
<1> DEFINE g == [f EXCEPT !.savedTarget = st]
           e == [g EXCEPT !.target[s] = t]
<1>1. g \in Fan /\ Good(g, w)
  BY DEF Fan, Good, Steady, Signed, InForce, ControlMode, CurrentTemp, TargetOf
<1>2. e \in Fan /\ Steady(e, w)
  BY DEF Fan, Good, Steady, Signed, ControlMode
<1>3. TargetPublished(g, s, t) = IF t = g.target[s] THEN g ELSE Applied(e)
  BY DEF TargetPublished
<1> HIDE DEF g, e
<1> QED BY <1>1, <1>2, <1>3, SteadyApplied DEF g

LEMMA EditedCurve ==
    ASSUME IInv, NEW s \in Side, NEW c \in UserCurve, EditCurve(s, c)
    PROVE  fan' \in Fan /\ wish' \in Wish /\ Good(fan', wish')
<1> DEFINE e == [fan EXCEPT !.curve[s] = c]
           k == [e EXCEPT !.known = TRUE]
<1>1. /\ fan \in Fan /\ wish \in Wish /\ Good(fan, wish) /\ fan.mode = "Curve"
      /\ fan' = Known(e) /\ wish' = [wish EXCEPT !.curve[s] = c]
  BY DEF EditCurve, IInv, TypeOK, Wish
<1>2. /\ e \in Fan /\ e.mode = "Curve" /\ e.seen = fan.seen /\ e.known = fan.known
      /\ e.curve = [fan.curve EXCEPT ![s] = c]
  BY <1>1 DEF Fan, Curves
<1>3. wish' \in Wish /\ wish'.fanMode = wish.fanMode /\ wish'.curve = [wish.curve EXCEPT ![s] = c]
  BY <1>1 DEF Wish
<1>4. Matches(wish', e.curve, fan.fanMode)
  <2>1. Matches(wish, fan.curve, fan.fanMode)
    BY <1>1, Distinct DEF Good, Steady, ControlMode
  <2> QED BY <1>1, <1>2, <1>3, <2>1 DEF Matches, Wish, Fan
<1>5. Steady(k, wish')
  <2>1. /\ k.mode = "Curve" /\ k.seen = fan.seen /\ k.last = fan.last /\ k.known
        /\ k.curve = e.curve /\ k.fanMode = fan.fanMode /\ k.savedMode = fan.savedMode
    BY <1>1 DEF Fan
  <2> QED BY <1>1, <1>4, <2>1, Distinct DEF Good, Steady, Signed, ControlMode
<1>6. e.known => e.seen /\ (e.mode = "Target" => InForce(e))
  BY <1>1, <1>2 DEF Good
<1> HIDE DEF e
<1> QED BY <1>1, <1>2, <1>3, <1>5, <1>6, KnownGood

LEMMA SelectedFanMode ==
    ASSUME IInv, NEW mode \in FanMode, SelectFanMode(mode)
    PROVE  fan' \in Fan /\ wish' \in Wish /\ Good(fan', wish')
<1> DEFINE e == [fan EXCEPT !.fanMode = mode]
           k == [e EXCEPT !.known = TRUE]
<1>1. /\ fan \in Fan /\ wish \in Wish /\ Good(fan, wish) /\ fan' = Known(e)
      /\ wish' = IF ControlMode(fan) = "Curve" THEN [wish EXCEPT !.fanMode = mode] ELSE wish
  BY DEF SelectFanMode, IInv, TypeOK, Wish
<1>2. /\ e \in Fan /\ e.mode = fan.mode /\ e.seen = fan.seen /\ e.known = fan.known
      /\ e.curve = fan.curve /\ e.temp = fan.temp /\ e.target = fan.target
  BY <1>1 DEF Fan, Modes
<1>3. wish' \in Wish
  BY <1>1 DEF Wish
<1>4. ControlMode(fan) = "Curve" => Matches(wish', fan.curve, mode)
  BY <1>1 DEF Good, Steady, Matches, Wish
<1>5. Steady(k, wish')
  <2>1. /\ k.mode = fan.mode /\ k.seen = fan.seen /\ k.last = fan.last /\ k.known
        /\ k.curve = fan.curve /\ k.fanMode = mode /\ k.savedMode = fan.savedMode
        /\ k.backup = fan.backup /\ k.signature = fan.signature
    BY <1>1 DEF Fan
  <2>2. ControlMode(k) = ControlMode(fan)
    BY <2>1 DEF ControlMode
  <2>3. fan.mode = "Target" => wish' = wish
    BY <1>1, Distinct DEF ControlMode
  <2> HIDE DEF k
  <2> QED BY <1>1, <1>4, <2>1, <2>2, <2>3 DEF Good, Steady, Signed
<1>6. e.known => e.seen /\ (e.mode = "Target" => InForce(e))
  BY <1>1, <1>2 DEF Good, InForce, CurrentTemp, TargetOf
<1> HIDE DEF e
<1> QED BY <1>1, <1>2, <1>3, <1>5, <1>6, KnownGood

LEMMA ReadTemperatures ==
    ASSUME IInv, NEW temp \in Reading, TemperaturesRead(temp)
    PROVE  fan' \in Fan /\ Good(fan', wish)
<1> DEFINE e == [fan EXCEPT !.temp = temp, !.known = TRUE]
<1>1. fan \in Fan /\ Good(fan, wish) /\ fan' = Applied(e)
  BY DEF TemperaturesRead, IInv, TypeOK
<1>2. e \in Fan
  BY <1>1 DEF Fan
<1>3. Steady(e, wish)
  BY <1>1 DEF Fan, Good, Steady, Signed, ControlMode
<1> HIDE DEF e
<1> QED BY <1>1, <1>2, <1>3, SteadyApplied

LEMMA RestoredRegisters ==
    ASSUME IInv, RestoreRegisters
    PROVE  fan' \in Fan /\ Good(fan', wish)
<1>1. fan \in Fan /\ Good(fan, wish) /\ fan' \in {fan, Known(fan)}
  BY DEF RestoreRegisters, IInv, TypeOK
<1>2. Steady([fan EXCEPT !.known = TRUE], wish)
  BY <1>1 DEF Fan, Good, Steady, Signed, ControlMode
<1>3. Known(fan) \in Fan /\ Good(Known(fan), wish)
  BY <1>1, <1>2, KnownGood DEF Good
<1> QED BY <1>1, <1>3

LEMMA RegisteredProfile ==
    ASSUME IInv, RegisterProfile
    PROVE  fan' \in Fan /\ wish' \in Wish /\ Good(fan', wish')
<1>1. fan \in Fan /\ wish \in Wish /\ Good(fan, wish)
  BY DEF IInv, TypeOK, Wish
<1>2. /\ fan' \in Fan /\ fan'.mode = None /\ ~fan'.known /\ ~fan'.seen
      /\ fan'.curve = fan.curve /\ fan'.fanMode = fan.fanMode
      /\ fan'.savedMode = fan.savedMode
  BY <1>1, SmallSteps DEF RegisterProfile, Fan, Mode, Unsigned, NoCurves
<1>3. wish' = IF fan.savedMode = "Target" THEN Lost ELSE wish
  BY DEF RegisterProfile
<1>4. Matches(wish', fan.curve, fan.fanMode)
  <2>1. CASE fan.savedMode = "Target"
    BY <1>3, <2>1, LostMatches
  <2>2. CASE fan.savedMode # "Target"
    <3>1. ControlMode(fan) = "Curve"
      BY <1>1, <2>2, Distinct DEF Good, Steady, Saved, ControlMode, Fan, Mode
    <3> QED BY <1>1, <1>3, <2>2, <3>1 DEF Good, Steady
  <2> QED BY <2>1, <2>2
<1>5. Good(fan', wish')
  BY <1>2, <1>3, <1>4, Distinct DEF Good, Steady, Signed
<1> QED BY <1>1, <1>2, <1>3, <1>5, LostType

LEMMA NextInductive == IInv /\ [Next]_vars => IInv'
<1> SUFFICES ASSUME IInv, [Next]_vars PROVE IInv'
  OBVIOUS
<1>1. ASSUME fan' \in Fan, wish' \in Wish, Good(fan', wish'),
             restoring' \in Seq(ToSet(Order))
      PROVE  IInv'
  BY <1>1 DEF IInv, TypeOK, Wish, Good, Steady, Signed, InForce, Matches, ControlMode,
              CurrentTemp, TargetOf
<1>2. fan \in Fan /\ wish \in Wish /\ Good(fan, wish) /\ restoring \in Seq(ToSet(Order))
  BY DEF IInv, TypeOK, Wish
<1>3. ASSUME NEW what, Restoring(what) PROVE restoring' \in Seq(ToSet(Order))
  BY <1>2, <1>3 DEF Restoring
<1>4. \A s \in Side : DefaultTarget[s] \in Targets /\ TargetTemp \subseteq Targets
  BY DEF Targets
<1>5. fan = [fan EXCEPT !.savedTarget = fan.savedTarget]
      /\ fan.savedTarget \in [Side -> TargetTemp \union {None}]
  BY <1>2 DEF Fan
<1>6. ASSUME NEW mode \in Mode, WriteMode(mode) PROVE IInv'
  BY <1>1, <1>2, <1>6, ChangedMode DEF WriteMode
<1>7. ASSUME NEW s \in Side, NEW t \in TargetTemp, WriteTarget(s, t) PROVE IInv'
  <2> DEFINE st == [fan.savedTarget EXCEPT ![s] = t]
  <2>1. st \in [Side -> TargetTemp \union {None}]
    BY <1>5
  <2>2. fan' = TargetPublished([fan EXCEPT !.savedTarget = st], s, t)
    BY <1>7 DEF WriteTarget
  <2> HIDE DEF st
  <2>3. fan' \in Fan /\ Good(fan', wish)
    BY <1>2, <1>4, <2>1, <2>2, ChangedTarget
  <2> QED BY <1>1, <1>2, <1>7, <2>3 DEF WriteTarget
<1>8. ASSUME NEW s \in Side, NEW c \in UserCurve, EditCurve(s, c) PROVE IInv'
  BY <1>1, <1>2, <1>8, EditedCurve DEF EditCurve
<1>9. ASSUME NEW mode \in FanMode, SelectFanMode(mode) PROVE IInv'
  BY <1>1, <1>2, <1>9, SelectedFanMode DEF SelectFanMode
<1>10. ASSUME NEW temp \in Reading, TemperaturesRead(temp) PROVE IInv'
  BY <1>1, <1>2, <1>10, ReadTemperatures DEF TemperaturesRead
<1>11. CASE Tick
  BY <1>1, <1>2, <1>11, SteadyApplied DEF Tick, Good
<1>12. CASE RegisterProfile
  BY <1>1, <1>12, RegisteredProfile, OrderType DEF RegisterProfile
<1>13. CASE RestoreRegisters
  BY <1>1, <1>2, <1>3, <1>13, RestoredRegisters DEF RestoreRegisters
<1>14. CASE RestoreMode
  BY <1>1, <1>2, <1>3, <1>14, RestoredMode DEF RestoreMode
<1>15. ASSUME NEW s \in Side, RestoreTarget(s) PROVE IInv'
  <2> DEFINE t == IF fan.savedTarget[s] # None THEN fan.savedTarget[s]
                  ELSE IF fan.target[s] # None THEN fan.target[s] ELSE DefaultTarget[s]
  <2>1. t \in Targets
    BY <1>2, <1>4 DEF Fan
  <2>2. fan' = TargetPublished(fan, s, t)
    BY <1>15 DEF RestoreTarget
  <2> HIDE DEF t
  <2>3. fan' \in Fan /\ Good(fan', wish)
    BY <1>2, <1>5, <2>1, <2>2, ChangedTarget
  <2> QED BY <1>1, <1>2, <1>3, <1>15, <2>3 DEF RestoreTarget
<1>16. CASE UNCHANGED vars
  BY <1>1, <1>2, <1>16 DEF vars
<1> QED
  BY <1>6, <1>7, <1>8, <1>9, <1>10, <1>11, <1>12, <1>13, <1>14, <1>15, <1>16 DEF Next

THEOREM Inductive == Spec => []IInv
<1> QED BY InitInductive, NextInductive, PTL DEF Spec

(* The controller's state, its backup and the settings keep their types. *)
THEOREM TypeCorrect == Spec => []TypeOK
<1>1. IInv => TypeOK
  BY DEF IInv
<1> QED BY <1>1, Inductive, PTL

(* Out of target mode the fans are on the user's own curves and fan mode, as far
   as the code can have kept them. *)
THEOREM UserCurveComesBack == Spec => []UserCurveReturns
<1>1. IInv => UserCurveReturns
  BY Distinct DEF IInv, Good, Steady, UserCurveReturns, Matches, ControlMode
<1> QED BY <1>1, Inductive, PTL

(* In target mode no generated curve is missed, although the handler writes one
   only when it differs from the last it wrote. *)
THEOREM TargetCurveInForce == Spec => []TargetInForce
<1>1. IInv => TargetInForce
  BY DEF IInv, Good, TargetInForce, InForce
<1> QED BY <1>1, Inductive, PTL
=============================================================================
