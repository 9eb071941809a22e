------------------------------ MODULE RunnerPick ------------------------------
(***************************************************************************)
(* Which ready runner an acquire takes: Inventory.ready and Inventory.pick *)
(* (src/mfm/inventory.py) over the host health the telemetry probe reports *)
(* (src/mfm/health.py).                                                    *)
(***************************************************************************)
EXTENDS Integers

CONSTANTS
  Runner,      \* runner identifiers
  Position,    \* place of each runner in the inventory's insertion order
  Image,       \* VM images
  ImageOf,     \* the image of each runner
  AnyImage,    \* no --image given
  NoReading,   \* the health file has no entry for the runner
  NoHealth,    \* no --health given
  BadHealth,   \* a health file parse_health rejects
  NoRunner     \* pick() raises: no runner can be picked

ASSUME PickAssumption ==
  /\ Position \in [Runner -> Nat]
  /\ \A r, s \in Runner : Position[r] = Position[s] => r = s
  /\ ImageOf \in [Runner -> Image]
  /\ AnyImage \notin Image
  /\ NoRunner \notin Runner

ThermalRank == [nominal |-> 0, fair |-> 1, unknown |-> 2]

Thermal == DOMAIN ThermalRank \cup {"serious", "critical"}

\* from_probe() accepts a reading only if the swap used fits in the swap file.
IsReading(h) == h.thermal \in Thermal /\ h.used \in 0 .. h.total /\ h.total \in Nat

\* Too hot, or more than half of the swap file in use.
Refused(h) == h.thermal \in {"serious", "critical"} \/ 2 * h.used > h.total

\* Mutant: no telemetry counts as the coolest.
NoTelemetryRankFirst == 0

NoTelemetryRank == 3

\* A word without a rank of its own counts as unknown.
RankOf(thermal) == ThermalRank[IF thermal \in DOMAIN ThermalRank THEN thermal ELSE "unknown"]

Rank(h) == IF h = NoReading THEN <<NoTelemetryRank, 0>> ELSE <<RankOf(h.thermal), h.used>>

Less(a, b) == a[1] < b[1] \/ (a[1] = b[1] /\ a[2] < b[2])

\* candidates: the ready runners that match the image; of those, the fit ones.
Candidates(ready, image) == {r \in ready : image \in {AnyImage, ImageOf[r]}}

Fit(ready, image, health) ==
  {r \in Candidates(ready, image) :
     health = NoHealth \/ health[r] = NoReading \/ ~Refused(health[r])}

\* min() keeps the first of equals; without telemetry every runner is equal.
Better(r, s, health) ==
  IF health = NoHealth \/ Rank(health[r]) = Rank(health[s])
  THEN Position[r] < Position[s]
  ELSE Less(Rank(health[r]), Rank(health[s]))

Pick(ready, image, health) ==
  LET fit == Fit(ready, image, health)
  IN  IF fit = {} THEN NoRunner
      ELSE CHOOSE r \in fit : \A s \in fit \ {r} : Better(r, s, health)
==============================================================================
