------------------------------- MODULE PickScan -------------------------------
(***************************************************************************)
(* An acquire's choice of a runner as it runs: parse_health reads the file *)
(* that --health names, field by field; Inventory.pick then makes one pass *)
(* over the inventory in insertion order that drops refused hosts, and     *)
(* min() replaces its best so far only by a strictly lower key.  RunnerPick*)
(* says what that finds; the two are compared here, over every fleet and   *)
(* health file of a small instance.                                        *)
(***************************************************************************)
EXTENDS RunnerPick

CONSTANTS
  Missing,     \* an entry without the field
  Junk,        \* a field that holds something else than it should
  HealthFile   \* health files that occur, as they are written

\* The probe's words, and one that somebody else capitalised.
Lower(word) == IF word = "Serious" THEN "serious" ELSE word

Field(value, default) == IF value = Missing THEN default ELSE value

IsEntry(e) ==
  /\ e.thermal \in Thermal \cup {"Serious", Missing, Junk}
  /\ {e.used, e.total} \subseteq Nat \cup {Missing, Junk}

ASSUME ScanAssumption ==
  /\ Missing # Junk
  /\ {Missing, Junk} \cap (Thermal \cup {"Serious"}) = {} /\ {Missing, Junk} \cap Nat = {}
  /\ NoReading \notin [thermal : Thermal, used : Nat, total : Nat]
  /\ {NoHealth, BadHealth} \cap
       [Runner -> [thermal : Thermal, used : Nat, total : Nat] \cup {NoReading}] = {}
  /\ \A f \in HealthFile : \A r \in Runner : f[r] = NoReading \/ IsEntry(f[r])

------------------------------------------------------------------------------
(* parse_health *)

\* Mutant: the word is compared in lower case and kept as it was written.
FromProbeAsWritten(e) ==
  [thermal |-> Field(e.thermal, "unknown"), used |-> Field(e.used, 0), total |-> Field(e.total, 0)]

FromProbe(e) ==
  [thermal |-> Lower(Field(e.thermal, "unknown")),
   used |-> Field(e.used, 0), total |-> Field(e.total, 0)]

\* from_probe() raises ValueError.
Malformed(e) ==
  \/ Lower(Field(e.thermal, "unknown")) \notin Thermal
  \/ ~ {Field(e.used, 0), Field(e.total, 0)} \subseteq Nat
  \/ Field(e.used, 0) > Field(e.total, 0)

\* One entry that raises is the end of the whole file.
parse_health(f) ==
  IF f = NoHealth THEN NoHealth
  ELSE IF \E r \in Runner : f[r] # NoReading /\ Malformed(f[r]) THEN BadHealth
  ELSE [r \in Runner |-> IF f[r] = NoReading THEN NoReading ELSE FromProbe(f[r])]

------------------------------------------------------------------------------
(* Inventory.pick *)

VARIABLES
  ready,    \* the runners in state ready
  image,    \* --image, or AnyImage
  written,  \* the file that --health names, or NoHealth
  health,   \* what parse_health made of it
  unseen,   \* the runners the pass has not reached
  best      \* the best fit runner so far

vars == <<ready, image, written, health, unseen, best>>

TypeOK ==
  /\ ready \in SUBSET Runner
  /\ image \in Image \cup {AnyImage}
  /\ written \in HealthFile \cup {NoHealth}
  /\ \/ health \in {NoHealth, BadHealth}
     \/ health \in [Runner -> [thermal : Thermal, used : Nat, total : Nat] \cup {NoReading}]
  /\ unseen \in SUBSET Runner
  /\ best \in Runner \cup {NoRunner}

Init ==
  /\ ready \in SUBSET Runner
  /\ image \in Image \cup {AnyImage}
  /\ written \in HealthFile \cup {NoHealth}
  /\ health = parse_health(written)
  /\ unseen = Runner
  /\ best = NoRunner

NextUp(r) == r \in unseen /\ \A s \in unseen : Position[r] <= Position[s]

Skipped(r) ==
  \/ r \notin ready
  \/ image # AnyImage /\ image # ImageOf[r]
  \/ health # NoHealth /\ health[r] # NoReading /\ Refused(health[r])

\* Mutant: the last of equals wins.
ImprovesOrTies(r) ==
  \/ best = NoRunner
  \/ health # NoHealth /\ ~Less(Rank(health[best]), Rank(health[r]))

\* Without telemetry the first candidate is returned as it is.
Improves(r) ==
  \/ best = NoRunner
  \/ health # NoHealth /\ Less(Rank(health[r]), Rank(health[best]))

Skip(r) ==
  /\ NextUp(r) /\ Skipped(r)
  /\ unseen' = unseen \ {r}
  /\ UNCHANGED <<ready, image, written, health, best>>

Consider(r) ==
  /\ NextUp(r) /\ ~Skipped(r)
  /\ best' = IF Improves(r) THEN r ELSE best
  /\ unseen' = unseen \ {r}
  /\ UNCHANGED <<ready, image, written, health>>

\* A file that does not parse raises before the pass begins.
Next == health # BadHealth /\ \E r \in Runner : Skip(r) \/ Consider(r)

Spec == Init /\ [][Next]_vars

------------------------------------------------------------------------------
Done == unseen = {} \/ health = BadHealth

\* The pass finds the runner that RunnerPick defines, ties and all: the first
\* in inventory order among the fit runners no other fit runner ranks before.
ScanFindsPick ==
  Done => best = IF health = BadHealth THEN NoRunner ELSE Pick(ready, image, health)

Says(r, word) == written[r] # NoReading /\ written[r].thermal = word

Hot(r) == Says(r, "serious") \/ Says(r, "Serious") \/ Says(r, "critical")

Paging(r) ==
  /\ written[r] # NoReading
  /\ written[r].used \in Nat \ {0}
  /\ written[r].total \in Nat => written[r].total - written[r].used < written[r].used

\* "Hosts that are hot (serious/critical) or already swapping are refused": with
\* telemetry, no job lands on a host whose entry says so, in capitals or not and
\* whatever fields it lacks, not even as the last one ready; and unless the file
\* does not parse, a job is turned away only if every ready runner of its image
\* is such a host.
NeverOntoSickHost ==
  Done /\ written # NoHealth =>
    IF best # NoRunner THEN best \in ready /\ ~Hot(best) /\ ~Paging(best)
    ELSE \/ health = BadHealth
         \/ \A r \in ready : image \in {AnyImage, ImageOf[r]} => Hot(r) \/ Paging(r)

SwapUsed(r) == IF written[r].used = Missing THEN 0 ELSE written[r].used

\* "The rest are ranked coolest and least-swapped first. A runner missing from
\* the telemetry ranks last": no fit candidate that reported anything is passed
\* over for a silent one, or for one that is warmer or as warm and swaps more.
CoolestReporterWins ==
  Done /\ written # NoHealth /\ best # NoRunner =>
    \A r \in Candidates(ready, image) :
      written[r] # NoReading /\ ~Hot(r) /\ ~Paging(r) =>
        /\ written[best] # NoReading
        /\ Says(r, "nominal") => Says(best, "nominal")
        /\ Says(r, "fair") => Says(best, "nominal") \/ Says(best, "fair")
        /\ written[r].thermal = written[best].thermal => SwapUsed(best) <= SwapUsed(r)
==============================================================================
