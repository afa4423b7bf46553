----------------------------- MODULE VideoFormat -----------------------------
(***************************************************************************)
(* The video format a position sends in: what an operator types            *)
(* (videoformat.go), what a switcher states, the target a capture is        *)
(* conformed to (ConformTarget of gst.go) and how it is shown.  A decimal   *)
(* frame rate is a number of thousandths; the rate itself is a fraction.    *)
(***************************************************************************)
EXTENDS Integers, FiniteSetsExt

\* What is typed: raster, the letter after it, and the rate, with a point or not.
\* A part that is missing, or that is no number, is 0.
Typed == {t \in [w : Nat, h : Nat, scan : {"p", "i", "none"}, rate : Nat, point : BOOLEAN] :
            t.point \/ t.rate % 1000 = 0}
Target == [w : Nat, h : Nat, num : Nat, den : Nat]

NoTarget == [w |-> 0, h |-> 0, num |-> 0, den |-> 0]
NoRate == [num |-> 0, den |-> 0]
maxDimension == 8192
maxFrameRate == 1000
NtscDen == 1001
Tolerance == 5   \* thousandths
FallbackConformTarget == [w |-> 1920, h |-> 1080, num |-> 50, den |-> 1]

IsTarget(t) == t.w > 0 /\ t.h > 0 /\ t.num > 0 /\ t.den > 0
WithRate(w, h, r) == [w |-> w, h |-> h, num |-> r.num, den |-> r.den]

Within(n, max) == n > 0 /\ n <= max

\* math.Round of n/d, and gcdConform.
Rounded(n, d) == (2 * n + d) \div (2 * d)
Apart(m, n) == IF m < n THEN n - m ELSE m - n
Gcd(m, n) == Max({d \in 1..n : m % d = 0 /\ n % d = 0})

-----------------------------------------------------------------------------
\* The NTSC rate nearest to a decimal, if it is one of n*1000/1001, and how far off it is.
Nominal(f) == Rounded(f * NtscDen, 1000000)
OffNtsc(f) == Apart(f * NtscDen, Nominal(f) * 1000000)
Ntsc(f) == [num |-> Nominal(f) * 1000, den |-> NtscDen]

\* parseVideoFrameRate: whole numbers, and the decimals that round an NTSC rate.
TypedRate(f, point) ==
  IF ~point
  THEN IF Within(f \div 1000, maxFrameRate) THEN [num |-> f \div 1000, den |-> 1] ELSE NoRate
  ELSE IF /\ Within(f, maxFrameRate * 1000) /\ Within(Nominal(f), maxFrameRate)
          /\ OffNtsc(f) <= Tolerance * NtscDen
       THEN Ntsc(f) ELSE NoRate

\* ParseVideoFormat: NoTarget is its refusal, of interlaced video among others.
ParseVideoFormat(t) ==
  LET rate == TypedRate(t.rate, t.point) IN
  IF t.scan = "p" /\ Within(t.w, maxDimension) /\ Within(t.h, maxDimension) /\ rate # NoRate
  THEN WithRate(t.w, t.h, rate) ELSE NoTarget

\* Canonical: three decimals without their zeros, unless the rate is whole.
Canonical(s) ==
  [w |-> s.w, h |-> s.h, scan |-> "p", rate |-> Rounded(s.num * 1000, s.den), point |-> s.den # 1]

-----------------------------------------------------------------------------
\* ConformTargetFromRate: any rate is a target, whole, NTSC or in thousandths.
DecimalRate(f) ==
  IF f % 1000 = 0 THEN [num |-> f \div 1000, den |-> 1]
  ELSE IF Nominal(f) >= 1 /\ OffNtsc(f) < Tolerance * NtscDen THEN Ntsc(f)
  ELSE [num |-> f \div Gcd(f, 1000), den |-> 1000 \div Gcd(f, 1000)]
ConformTargetFromRate(w, h, f) ==
  IF w = 0 \/ h = 0 \/ ~Within(f, maxFrameRate * 1000) THEN NoTarget
  ELSE WithRate(w, h, DecimalRate(f))

\* rateText: as few decimals, up to three, as tell the rate to a tenth of a thousandth.
Unit(places) == <<1000, 100, 10, 1>>[places + 1]
WithPlaces(t, places) == Rounded(t.num * 1000, t.den * Unit(places)) * Unit(places)
DisplayFrameRate(t) ==
  LET close == {p \in 0..2 : 10 * Apart(WithPlaces(t, p) * t.den, t.num * 1000) < t.den}
  IN WithPlaces(t, IF close = {} THEN 3 ELSE Min(close))

\* resolve: what a capture is built to, whatever it was asked for.  NV12 halves
\* both axes, so that an odd raster cannot be.
Resolve(t) ==
  IF /\ IsTarget(t) /\ t.w % 2 = 0 /\ t.h % 2 = 0
     /\ t.w <= maxDimension /\ t.h <= maxDimension /\ t.num <= maxFrameRate * t.den
  THEN t ELSE FallbackConformTarget

SameConformTarget(t, s) == t.w = s.w /\ t.h = s.h /\ t.num * s.den = s.num * t.den

-----------------------------------------------------------------------------
\* switcherConfiguredFormat: what the switcher states (0 for what it does not,
\* all 0 when it cannot be asked), as a target.
Stated(s) == IF s.w > 0 /\ s.h > 0 /\ s.rate > 0
             THEN ConformTargetFromRate(s.w, s.h, s.rate) ELSE NoTarget

\* conformFormat: the switcher's own setting, else the operator's word, else the fallback.
ConformFormat(s, override) ==
  CASE Stated(s) # NoTarget -> Stated(s)
    [] Stated(s) = NoTarget /\ ParseVideoFormat(override) # NoTarget -> ParseVideoFormat(override)
    [] OTHER -> FallbackConformTarget

\* What GetConformTarget and GetSwitcherFormat show: NoTarget is their nil.
Shown(t) ==
  [w |-> t.w, h |-> t.h, rate |-> IF IsTarget(t) THEN DisplayFrameRate(t) ELSE 0]
GetConformTarget(running, conformTo, override) ==
  Shown(IF running THEN conformTo ELSE ParseVideoFormat(override))
GetSwitcherFormat(s) == Shown(Stated(s))
=============================================================================
