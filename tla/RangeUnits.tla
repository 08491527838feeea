---------------------------- MODULE RangeUnits ----------------------------
(***************************************************************************)
(* Voice distances in metres and in foundations (core/config/range_units.h *)
(* and the part of ui/config/ui_config_logic.h that reads them back).      *)
(*                                                                         *)
(* A stored distance is a number of millimetres.  A distance field shows   *)
(* tenths of the unit on display: unit 0 is the metre, unit 1 the          *)
(* foundation of 2.56 m.  A hub limit on display is kept in millimetres as *)
(* well (a tenth times its length), so that the code's comparisons in the  *)
(* unit on display are comparisons of millimetres here.  Float noise, for  *)
(* which the code has a tolerance, does not exist in whole numbers.        *)
(***************************************************************************)
EXTENDS Integers

Step(u) == IF u = 1 THEN 256 ELSE 100

Effective(choice, forced) == IF choice = 1 \/ forced THEN 1 ELSE 0

\* "%.1f": to the nearest tenth, an exact half to the even one.
Shown(mm, u) ==
    LET q == mm \div Step(u)
        r == mm % Step(u)
    IN IF 2 * r > Step(u) \/ (2 * r = Step(u) /\ q % 2 = 1) THEN q + 1 ELSE q

ToMm(tenths, u) == tenths * Step(u)

\* A limit that is 0 or less is no limit.
MinOnDisplay(mm, u) ==
    IF u = 0 \/ mm <= 0 THEN mm ELSE ((mm + Step(u) - 1) \div Step(u)) * Step(u)
MaxOnDisplay(mm, u) ==
    IF u = 0 \/ mm <= 0 THEN mm
    ELSE IF mm < Step(u) THEN Step(u) ELSE (mm \div Step(u)) * Step(u)

\* Both limits; two that have no tenth between them are rounded to the nearest.
LimitsOnDisplay(lo, hi, u) ==
    LET a == MinOnDisplay(lo, u)
        b == MaxOnDisplay(hi, u)
        AtLeast(x, y) == IF x < y THEN y ELSE x
    IN IF u = 1 /\ lo > 0 /\ hi >= lo /\ a > b
       THEN LET na == AtLeast(ToMm(Shown(lo, u), u), Step(u))
            IN [lo |-> na, hi |-> AtLeast(ToMm(Shown(hi, u), u), na)]
       ELSE [lo |-> a, hi |-> b]

ClampMm(mm, lo, hi) ==
    IF lo > 0 /\ mm < lo THEN lo ELSE IF hi > 0 /\ mm > hi THEN hi ELSE mm

InLimits(mm, lo, hi) == (lo <= 0 \/ mm >= lo) /\ (hi <= 0 \/ mm <= hi)

Unchanged(mm, u, tenths) == Shown(mm, u) = tenths

Refused == -1

\* ui_dist_parse_display: what a Save makes of a field, in millimetres.
ReadField(tenths, u, stored, limits, lo, hi) ==
    LET onDisplay == LimitsOnDisplay(lo, hi, u)
        kept == IF limits THEN ClampMm(stored, lo, hi) ELSE stored
        typed == ToMm(tenths, u)
    IN IF tenths <= 0 THEN Refused
       ELSE IF Unchanged(stored, u, tenths)
            THEN IF kept # stored /\ (~Unchanged(kept, u, tenths) \/ ~InLimits(kept, lo, hi))
                 THEN Refused ELSE kept
       ELSE IF ~limits THEN typed
       ELSE IF InLimits(typed, onDisplay.lo, onDisplay.hi)
            THEN ClampMm(typed, lo, hi)
            ELSE Refused

\* ui_correct_to_hub_limits: a stored distance outside the limits goes to the
\* limit as it is shown.
CorrectToLimits(mm, u, lo, hi) ==
    LET c == ClampMm(mm, lo, hi)
        onDisplay == LimitsOnDisplay(lo, hi, u)
    IN IF c = mm \/ u = 0 THEN c
       ELSE ClampMm(IF mm < lo THEN onDisplay.lo ELSE onDisplay.hi, lo, hi)

\* ui_range_transport_text: metres are handed over in tenths, foundations exactly.
Transport(mm, u) == IF u = 1 THEN mm ELSE ToMm(Shown(mm, 0), 0)
=============================================================================
