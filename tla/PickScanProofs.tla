----------------------------- MODULE PickScanProofs -----------------------------
(***************************************************************************)
(* The pass over the inventory finds what RunnerPick defines, and what it  *)
(* finds is what the health file asks for, for every fleet, every order of *)
(* the inventory and every health file.                                    *)
(***************************************************************************)
EXTENDS PickScan, TLAPS

Telemetry == [thermal : Thermal, used : Nat, total : Nat]

------------------------------------------------------------------------------
(* The order of candidates *)

LEMMA RankTyped ==
  ASSUME NEW h \in Telemetry \cup {NoReading}
  PROVE  /\ Rank(h)[1] \in 0 .. 3 /\ Rank(h)[2] \in Nat /\ Rank(h) = <<Rank(h)[1], Rank(h)[2]>>
         /\ h # NoReading => Rank(h) = <<RankOf(h.thermal), h.used>> /\ RankOf(h.thermal) \in 0 .. 2
  BY DEF Telemetry, Rank, RankOf, NoTelemetryRank, ThermalRank

\* What the pass reads: no telemetry, or one reading or none for each runner.
Readable(h) == h = NoHealth \/ h \in [Runner -> Telemetry \cup {NoReading}]

\* Better is a strict total order on runners.
LEMMA BetterTotal ==
  ASSUME NEW h, Readable(h), NEW r \in Runner, NEW s \in Runner, r # s
  PROVE  Better(r, s, h) <=> ~Better(s, r, h)
<1>1. Position[r] \in Nat /\ Position[s] \in Nat /\ Position[r] # Position[s]
  BY PickAssumption
<1>2. CASE h = NoHealth
  BY <1>1, <1>2 DEF Better
<1>3. CASE h # NoHealth
  <2>1. h[r] \in Telemetry \cup {NoReading} /\ h[s] \in Telemetry \cup {NoReading}
    BY <1>3 DEF Readable
  <2>2. /\ Rank(h[r])[1] \in Nat /\ Rank(h[r])[2] \in Nat
        /\ Rank(h[s])[1] \in Nat /\ Rank(h[s])[2] \in Nat
        /\ Rank(h[r]) = <<Rank(h[r])[1], Rank(h[r])[2]>>
        /\ Rank(h[s]) = <<Rank(h[s])[1], Rank(h[s])[2]>>
    BY <2>1, RankTyped
  <2> QED
    BY <1>1, <1>3, <2>2 DEF Better, Less
<1> QED
  BY <1>2, <1>3

LEMMA BetterTransitive ==
  ASSUME NEW h, Readable(h), NEW r \in Runner, NEW s \in Runner, NEW t \in Runner,
         Better(r, s, h), Better(s, t, h)
  PROVE  Better(r, t, h)
<1>1. Position[r] \in Nat /\ Position[s] \in Nat /\ Position[t] \in Nat
  BY PickAssumption
<1>2. CASE h = NoHealth
  BY <1>1, <1>2 DEF Better
<1>3. CASE h # NoHealth
  <2>1. \A x \in {r, s, t} : h[x] \in Telemetry \cup {NoReading}
    BY <1>3 DEF Readable
  <2>2. \A x \in {r, s, t} : /\ Rank(h[x])[1] \in Nat /\ Rank(h[x])[2] \in Nat
                             /\ Rank(h[x]) = <<Rank(h[x])[1], Rank(h[x])[2]>>
    BY <2>1, RankTyped
  <2> QED
    BY <1>1, <1>3, <2>2 DEF Better, Less
<1> QED
  BY <1>2, <1>3

\* The best of a set of candidates, however it was found, is the one picked.
LEMMA PickIsBest ==
  ASSUME NEW h, Readable(h), NEW R \in SUBSET Runner, NEW i, NEW b \in Fit(R, i, h),
         \A s \in Fit(R, i, h) \ {b} : Better(b, s, h)
  PROVE  Pick(R, i, h) = b
<1> DEFINE fit == Fit(R, i, h)
<1>1. fit \subseteq Runner
  BY DEF Fit, Candidates
<1>2. ASSUME NEW r \in fit, \A s \in fit \ {r} : Better(r, s, h)
      PROVE  r = b
  BY <1>1, <1>2, BetterTotal
<1>3. Pick(R, i, h) = CHOOSE r \in fit : \A s \in fit \ {r} : Better(r, s, h)
  BY DEF Pick
<1> HIDE DEF fit
<1>4. b \in fit /\ \A s \in fit \ {b} : Better(b, s, h)
  BY DEF fit
<1> QED
  BY <1>2, <1>3, <1>4

------------------------------------------------------------------------------
(* The pass *)

Seen == Fit(ready, image, health) \ unseen

\* The pass goes by position, and its best so far is the best it has seen.
ScanInv ==
  /\ ready \subseteq Runner /\ unseen \subseteq Runner
  /\ written \in HealthFile \cup {NoHealth}
  /\ health = parse_health(written)
  /\ \A r \in Runner \ unseen, s \in unseen : Position[r] < Position[s]
  /\ best = NoRunner \/ best \in Seen
  /\ best = NoRunner => Seen = {} \/ health = BadHealth
  /\ best # NoRunner => \A s \in Seen \ {best} : Better(best, s, health)
  /\ health = BadHealth => best = NoRunner

LEMMA ParsedReadable ==
  ASSUME NEW w \in HealthFile \cup {NoHealth}, parse_health(w) # BadHealth
  PROVE  Readable(parse_health(w))
<1>1. CASE w = NoHealth
  BY <1>1 DEF parse_health, Readable
<1>2. CASE w # NoHealth
  <2>1. \A r \in Runner : w[r] = NoReading \/ (IsEntry(w[r]) /\ ~Malformed(w[r]))
    BY <1>2, ScanAssumption DEF parse_health
  <2>2. ASSUME NEW e, ~Malformed(e)
        PROVE  FromProbe(e) \in Telemetry
    BY <2>2 DEF Malformed, FromProbe, Telemetry
  <2>3. parse_health(w) = [r \in Runner |-> IF w[r] = NoReading THEN NoReading ELSE FromProbe(w[r])]
    BY <1>2 DEF parse_health
  <2> QED
    BY <2>1, <2>2, <2>3 DEF Readable
<1> QED
  BY <1>1, <1>2

LEMMA ScanInit == Init => ScanInv
  BY DEF Init, ScanInv, Seen, Fit, Candidates

\* A runner is skipped exactly when it is no fit candidate.
LEMMA SkippedIsUnfit ==
  ASSUME NEW r \in Runner
  PROVE  Skipped(r) <=> r \notin Fit(ready, image, health)
  BY DEF Skipped, Fit, Candidates

LEMMA ScanStep == ScanInv /\ [Next]_vars => ScanInv'
<1> SUFFICES ASSUME ScanInv, [Next]_vars PROVE ScanInv'
  OBVIOUS
<1>1. CASE UNCHANGED vars
  BY <1>1 DEF vars, ScanInv, Seen
<1>2. CASE Next
  <2>1. PICK r \in Runner : Skip(r) \/ Consider(r)
    BY <1>2 DEF Next
  <2>2. /\ health # BadHealth /\ Readable(health)
        /\ NextUp(r) /\ r \in unseen
        /\ unseen' = unseen \ {r} /\ UNCHANGED <<ready, image, written, health>>
    BY <1>2, <2>1, ParsedReadable DEF Next, Skip, Consider, NextUp, ScanInv
  <2>3. Fit(ready, image, health) \subseteq Runner
    BY DEF Fit, Candidates, ScanInv
  <2>4. \A x \in Runner \ unseen', s \in unseen' : Position[x] < Position[s]
    <3>1. \A s \in unseen \ {r} : Position[r] < Position[s]
      BY <2>2, PickAssumption DEF NextUp, ScanInv
    <3> QED
      BY <2>2, <3>1 DEF ScanInv
  <2>5. \A x \in Seen : x \in Runner /\ x # r /\ Position[x] < Position[r]
    BY <2>2, <2>3 DEF Seen, ScanInv
  <2>6. Seen' = IF Skipped(r) THEN Seen ELSE Seen \cup {r}
    BY <2>2, SkippedIsUnfit DEF Seen
  <2>7. CASE Skip(r)
    BY <2>2, <2>4, <2>6, <2>7 DEF Skip, ScanInv
  <2>8. CASE Consider(r)
    <3>1. Seen' = Seen \cup {r} /\ best' = IF Improves(r) THEN r ELSE best
      BY <2>6, <2>8 DEF Consider
    <3>2. CASE best = NoRunner
      BY <2>2, <2>4, <3>1, <3>2, PickAssumption DEF ScanInv, Improves
    <3>3. CASE best # NoRunner
      <4>1. best \in Seen /\ best \in Runner /\ best # r /\ Position[best] < Position[r]
        BY <2>5, <3>3 DEF ScanInv
      <4>2. Improves(r) <=> Better(r, best, health)
        <5>1. CASE health = NoHealth
          BY <3>3, <4>1, <5>1, PickAssumption DEF Improves, Better
        <5>2. CASE health # NoHealth
          <6>1. /\ health[r] \in Telemetry \cup {NoReading}
                /\ health[best] \in Telemetry \cup {NoReading}
            BY <2>2, <4>1, <5>2 DEF Readable
          <6>2. \A x \in {r, best} : /\ Rank(health[x])[1] \in Nat /\ Rank(health[x])[2] \in Nat
            BY <6>1, RankTyped
          <6> QED
            BY <3>3, <4>1, <5>2, <6>2, PickAssumption DEF Improves, Better, Less
        <5> QED
          BY <5>1, <5>2
      <4>3. CASE Improves(r)
        <5>1. \A s \in Seen : Better(r, s, health)
          <6>1. SUFFICES ASSUME NEW s \in Seen, s # best PROVE Better(r, s, health)
            BY <4>2, <4>3
          <6>2. Better(best, s, health) /\ s \in Runner
            BY <2>5, <3>3, <6>1 DEF ScanInv
          <6> QED
            BY <2>2, <4>1, <4>2, <4>3, <6>2, BetterTransitive
        <5> QED
          BY <2>2, <2>4, <3>1, <4>3, <5>1, PickAssumption DEF ScanInv
      <4>4. CASE ~Improves(r)
        <5>1. Better(best, r, health)
          BY <2>2, <4>1, <4>2, <4>4, BetterTotal
        <5> QED
          BY <2>2, <2>4, <3>1, <3>3, <4>1, <4>4, <5>1 DEF ScanInv
      <4> QED
        BY <4>3, <4>4
    <3> QED
      BY <3>2, <3>3
  <2> QED
    BY <2>1, <2>7, <2>8
<1> QED
  BY <1>1, <1>2

LEMMA ScanInvariant == Spec => []ScanInv
  BY ScanInit, ScanStep, PTL DEF Spec

\* A pass that is done has the best of all fit candidates, if there is one.
LEMMA DoneIsBest ==
  ASSUME ScanInv, Done, health # BadHealth
  PROVE  /\ Readable(health)
         /\ best = NoRunner => Fit(ready, image, health) = {}
         /\ best # NoRunner =>
              /\ best \in Fit(ready, image, health)
              /\ \A s \in Fit(ready, image, health) \ {best} : Better(best, s, health)
  BY ParsedReadable DEF ScanInv, Done, Seen

\* The pass finds the runner RunnerPick defines, ties and all.
THEOREM PassFindsPick == Spec => []ScanFindsPick
<1>1. ScanInv => ScanFindsPick
  <2> SUFFICES ASSUME ScanInv, Done
               PROVE  best = IF health = BadHealth THEN NoRunner ELSE Pick(ready, image, health)
    BY DEF ScanFindsPick
  <2>1. CASE health = BadHealth
    BY <2>1 DEF ScanInv
  <2>2. CASE health # BadHealth /\ best = NoRunner
    BY <2>2, DoneIsBest DEF Pick
  <2>3. CASE health # BadHealth /\ best # NoRunner
    BY <2>3, DoneIsBest, PickIsBest DEF ScanInv
  <2> QED
    BY <2>1, <2>2, <2>3
<1> QED
  BY <1>1, ScanInvariant, PTL

------------------------------------------------------------------------------
(* What the file asks for *)

\* Of a file that parses, what an entry says and what was read of it.
LEMMA ReadAsWritten ==
  ASSUME NEW w \in HealthFile, w # NoHealth, parse_health(w) # BadHealth,
         NEW r \in Runner, NEW h, h = parse_health(w)[r]
  PROVE  /\ w[r] = NoReading <=> h = NoReading
         /\ w[r] # NoReading =>
              /\ h = FromProbe(w[r]) /\ h \in Telemetry /\ h.used <= h.total
              /\ IsEntry(w[r]) /\ ~Malformed(w[r])
<1>1. /\ w[r] = NoReading \/ (IsEntry(w[r]) /\ ~Malformed(w[r]))
      /\ h = IF w[r] = NoReading THEN NoReading ELSE FromProbe(w[r])
  BY ScanAssumption DEF parse_health
<1>2. ~Malformed(w[r]) =>
        /\ FromProbe(w[r]) \in Telemetry
        /\ FromProbe(w[r]).used <= FromProbe(w[r]).total
  BY DEF Malformed, FromProbe, Telemetry
<1>3. NoReading \notin Telemetry
  BY ScanAssumption DEF Telemetry
<1> QED
  BY <1>1, <1>2, <1>3

\* A file that parses is not taken for no file.
LEMMA ParsedIsTelemetry ==
  ASSUME NEW w \in HealthFile \cup {NoHealth}, w # NoHealth, parse_health(w) # BadHealth
  PROVE  parse_health(w) # NoHealth
<1> DEFINE h == [r \in Runner |-> IF w[r] = NoReading THEN NoReading ELSE FromProbe(w[r])]
<1>1. parse_health(w) = h
  BY DEF parse_health
<1>2. \A r \in Runner : parse_health(w)[r] \in Telemetry \cup {NoReading}
  BY ReadAsWritten
<1>3. h \in [Runner -> Telemetry \cup {NoReading}]
  BY <1>1, <1>2
<1> QED
  BY <1>1, <1>3, ScanAssumption DEF Telemetry

\* A reading is refused exactly when its entry says hot or paging.
LEMMA RefusedIsSick ==
  ASSUME ScanInv, written # NoHealth, health # BadHealth, NEW r \in Runner
  PROVE  Hot(r) \/ Paging(r) <=> health[r] # NoReading /\ Refused(health[r])
<1> DEFINE e == written[r]
<1>1. /\ written \in HealthFile /\ health = parse_health(written)
  BY DEF ScanInv
<1>2. /\ e = NoReading <=> health[r] = NoReading
      /\ e # NoReading => health[r] = FromProbe(e) /\ IsEntry(e) /\ ~Malformed(e)
  BY <1>1, ReadAsWritten
<1>3. CASE e = NoReading
  BY <1>2, <1>3 DEF Hot, Says, Paging
<1>4. CASE e # NoReading
  <2>1. Hot(r) <=> FromProbe(e).thermal \in {"serious", "critical"}
    BY <1>2, <1>4, ScanAssumption DEF Hot, Says, FromProbe, Lower, Field, IsEntry, Thermal, ThermalRank
  <2>2. Paging(r) <=> 2 * FromProbe(e).used > FromProbe(e).total
    <3>1. /\ Field(e.used, 0) \in Nat /\ Field(e.total, 0) \in Nat
          /\ Field(e.used, 0) <= Field(e.total, 0)
      BY <1>2, <1>4 DEF Malformed
    <3>2. Paging(r) <=> e.used \in Nat \ {0} /\ (e.total \in Nat => e.total - e.used < e.used)
      BY <1>4 DEF Paging
    <3>3. Missing \notin Nat
      BY ScanAssumption
    <3>4. CASE e.used = Missing
      BY <3>1, <3>2, <3>3, <3>4 DEF FromProbe, Field
    <3>5. CASE e.used # Missing /\ e.total = Missing
      BY <3>1, <3>2, <3>3, <3>5 DEF FromProbe, Field
    <3>6. CASE e.used # Missing /\ e.total # Missing
      BY <3>1, <3>2, <3>6 DEF FromProbe, Field
    <3> QED
      BY <3>4, <3>5, <3>6
  <2> QED
    BY <1>2, <1>4, <2>1, <2>2 DEF Refused
<1> QED
  BY <1>3, <1>4

\* No job lands on a host whose entry says hot or paging, and none is turned
\* away while a file that parses leaves a runner fit.
THEOREM SickHostsAreSpared == Spec => []NeverOntoSickHost
<1>1. ScanInv => NeverOntoSickHost
  <2> SUFFICES ASSUME ScanInv, Done, written # NoHealth, health # BadHealth
               PROVE  IF best # NoRunner THEN best \in ready /\ ~Hot(best) /\ ~Paging(best)
                      ELSE \A r \in ready : image \in {AnyImage, ImageOf[r]} => Hot(r) \/ Paging(r)
    BY DEF NeverOntoSickHost, ScanInv
  <2>1. health # NoHealth
    BY ParsedIsTelemetry DEF ScanInv
  <2>2. CASE best # NoRunner
    <3>1. best \in Fit(ready, image, health) /\ best \in Runner /\ best \in ready
      BY <2>2, DoneIsBest DEF Fit, Candidates, ScanInv
    <3> QED
      BY <2>1, <2>2, <3>1, RefusedIsSick DEF Fit
  <2>3. CASE best = NoRunner
    <3>1. \A r \in ready : r \in Runner /\ r \notin Fit(ready, image, health)
      BY <2>3, DoneIsBest DEF ScanInv
    <3> QED
      BY <2>1, <2>3, <3>1, RefusedIsSick DEF Fit, Candidates
  <2> QED
    BY <2>2, <2>3
<1> QED
  BY <1>1, ScanInvariant, PTL

\* What the words of an entry become, and the rank they give it.
LEMMA WordsRead ==
  ASSUME NEW e, IsEntry(e), ~Malformed(e)
  PROVE  /\ e.thermal = "nominal" <=> FromProbe(e).thermal = "nominal"
         /\ e.thermal = "fair" <=> FromProbe(e).thermal = "fair"
         /\ FromProbe(e).thermal = Lower(Field(e.thermal, "unknown"))
         /\ FromProbe(e).used = Field(e.used, 0) /\ Field(e.used, 0) \in Nat
  BY ScanAssumption DEF FromProbe, Lower, Field, IsEntry, Malformed, Thermal, ThermalRank

LEMMA RankOfWords ==
  /\ RankOf("nominal") = 0 /\ RankOf("fair") = 1
  /\ \A x : (RankOf(x) <= 0 => x = "nominal") /\ (RankOf(x) <= 1 => x \in {"nominal", "fair"})
  BY DEF RankOf, ThermalRank

\* No fit host that reported is passed over for a silent, a warmer, or an as
\* warm and more swapping one.
THEOREM CoolestReporterIsPicked == Spec => []CoolestReporterWins
<1>1. ScanInv => CoolestReporterWins
  <2> SUFFICES ASSUME ScanInv, Done, written # NoHealth, best # NoRunner,
                      NEW r \in Candidates(ready, image),
                      written[r] # NoReading, ~Hot(r), ~Paging(r)
               PROVE  /\ written[best] # NoReading
                      /\ Says(r, "nominal") => Says(best, "nominal")
                      /\ Says(r, "fair") => Says(best, "nominal") \/ Says(best, "fair")
                      /\ written[r].thermal = written[best].thermal => SwapUsed(best) <= SwapUsed(r)
    BY DEF CoolestReporterWins
  <2>1. health # BadHealth /\ r \in Runner /\ written \in HealthFile /\ health = parse_health(written)
    BY DEF ScanInv, Candidates
  <2>2. /\ best \in Fit(ready, image, health) /\ best \in Runner
        /\ \A s \in Fit(ready, image, health) \ {best} : Better(best, s, health)
    BY <2>1, DoneIsBest DEF Fit, Candidates, ScanInv
  <2>3. r \in Fit(ready, image, health)
    BY <2>1, RefusedIsSick DEF Fit
  <2>4. /\ health[r] = FromProbe(written[r]) /\ health[r] \in Telemetry /\ health[r] # NoReading
        /\ IsEntry(written[r]) /\ ~Malformed(written[r])
    BY <2>1, ReadAsWritten
  <2>5. /\ written[best] = NoReading <=> health[best] = NoReading
        /\ written[best] # NoReading =>
             /\ health[best] = FromProbe(written[best]) /\ health[best] \in Telemetry
             /\ IsEntry(written[best]) /\ ~Malformed(written[best])
    BY <2>1, <2>2, ReadAsWritten
  <2>6. /\ SwapUsed(r) = FromProbe(written[r]).used /\ SwapUsed(r) \in Nat
        /\ written[best] # NoReading =>
             SwapUsed(best) = FromProbe(written[best]).used /\ SwapUsed(best) \in Nat
    BY <2>4, <2>5, WordsRead DEF SwapUsed, Field
  <2>7. CASE best = r
    BY <2>6, <2>7 DEF Says
  <2>8. CASE best # r
    <3>1. Better(best, r, health) /\ health # NoHealth
      BY <2>1, <2>2, <2>3, <2>8, ParsedIsTelemetry
    <3>2. health[best] \in Telemetry \cup {NoReading}
      BY <2>5
    <3>3. /\ Rank(health[r])[1] \in Nat /\ Rank(health[r])[2] \in Nat
          /\ Rank(health[best])[1] \in Nat /\ Rank(health[best])[2] \in Nat
      BY <2>4, <3>2, RankTyped
    <3>4. ~Less(Rank(health[r]), Rank(health[best]))
      BY <3>1, <3>3 DEF Better, Less
    <3>5. Rank(health[r]) = <<RankOf(health[r].thermal), health[r].used>> /\ RankOf(health[r].thermal) \in 0 .. 2
      BY <2>4, RankTyped
    <3>6. written[best] # NoReading
      <4>1. SUFFICES ASSUME health[best] = NoReading PROVE FALSE
        BY <2>5
      <4>2. Rank(health[best])[1] = 3
        BY <4>1 DEF Rank, NoTelemetryRank
      <4> QED
        BY <3>4, <3>5, <4>2 DEF Less
    <3>7. /\ health[best] \in Telemetry /\ health[best] # NoReading
          /\ health[best] = FromProbe(written[best])
          /\ IsEntry(written[best]) /\ ~Malformed(written[best])
      BY <2>5, <3>6
    <3>8. Rank(health[best]) = <<RankOf(health[best].thermal), health[best].used>> /\ RankOf(health[best].thermal) \in 0 .. 2
      BY <3>7, RankTyped
    <3>9. /\ RankOf(health[best].thermal) <= RankOf(health[r].thermal)
          /\ RankOf(health[best].thermal) = RankOf(health[r].thermal) => health[best].used <= health[r].used
      BY <2>4, <3>4, <3>5, <3>7, <3>8 DEF Less, Telemetry
    <3>10. Says(r, "nominal") => Says(best, "nominal")
      <4>1. SUFFICES ASSUME written[r].thermal = "nominal" PROVE written[best].thermal = "nominal"
        BY <3>6 DEF Says
      <4>2. health[r].thermal = "nominal"
        BY <2>4, <4>1, WordsRead
      <4>3. RankOf(health[best].thermal) <= 0
        BY <3>9, <4>2, RankOfWords
      <4>4. health[best].thermal = "nominal"
        BY <4>3, RankOfWords
      <4> QED
        BY <3>7, <4>4, WordsRead
    <3>11. Says(r, "fair") => Says(best, "nominal") \/ Says(best, "fair")
      <4>1. SUFFICES ASSUME written[r].thermal = "fair" PROVE written[best].thermal \in {"nominal", "fair"}
        BY <3>6 DEF Says
      <4>2. health[r].thermal = "fair"
        BY <2>4, <4>1, WordsRead
      <4>3. RankOf(health[best].thermal) <= 1
        BY <3>9, <4>2, RankOfWords
      <4>4. health[best].thermal \in {"nominal", "fair"}
        BY <4>3, RankOfWords
      <4> QED
        BY <3>7, <4>4, WordsRead
    <3>12. written[r].thermal = written[best].thermal => SwapUsed(best) <= SwapUsed(r)
      <4>1. SUFFICES ASSUME written[r].thermal = written[best].thermal PROVE SwapUsed(best) <= SwapUsed(r)
        OBVIOUS
      <4>2. health[r].thermal = health[best].thermal
        BY <2>4, <3>7, <4>1, WordsRead
      <4> QED
        BY <2>4, <2>6, <3>6, <3>7, <3>9, <4>2
    <3> QED
      BY <3>6, <3>10, <3>11, <3>12
  <2> QED
    BY <2>7, <2>8
<1> QED
  BY <1>1, ScanInvariant, PTL
===============================================================================
