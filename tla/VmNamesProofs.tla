----------------------------- MODULE VmNamesProofs -----------------------------
(***************************************************************************)
(* What vm_name_for promises, for texts and lengths of every size: its     *)
(* names are safe path components, always, and unique per runner and job   *)
(* for a fleet whose runner ids have one length, as the sample fleet's do. *)
(* (That they are not unique in general is what MCFleetTartNames shows.)   *)
(***************************************************************************)
EXTENDS VmNames, SequenceTheorems, FiniteSetTheorems, TLAPS

LEMMA InnerFinite ==
  ASSUME NEW C, NEW t \in Seq(C)
  PROVE  Cardinality(Inner(t)) \in Nat
<1>1. Inner(t) \subseteq 1 .. Len(t)
  BY DEF Inner, Kept
<1>2. IsFiniteSet(1 .. Len(t))
  BY FS_Interval
<1> QED
  BY <1>1, <1>2, FS_Subset, FS_CardinalityType

LEMMA SafeIsSafe ==
  ASSUME NEW C, NEW t \in Seq(C)
  PROVE  Safe(t) \in Seq(SafeChar)
<1> DEFINE n == Cardinality(Inner(t))
           char(k) == LET c == t[Nth(Inner(t), k)] IN IF c \in SafeChar THEN c ELSE Dash
<1>1. n \in Nat
  BY InnerFinite
<1>2. \A k \in 1 .. n : char(k) \in SafeChar
  BY NameAssumption
<1>3. Safe(t) = [k \in 1 .. n |-> char(k)]
  BY DEF Safe
<1> HIDE DEF n, char
<1>4. Safe(t) \in [1 .. n -> SafeChar]
  BY <1>2, <1>3
<1> QED
  BY <1>1, <1>4, SeqDef

LEMMA CutShortens ==
  ASSUME NEW t \in Seq(SafeChar)
  PROVE  /\ Cut(t) \in Seq(SafeChar)
         /\ Len(Cut(t)) <= MaxLen
         /\ Len(t) <= MaxLen => Cut(t) = t
         /\ \A i \in 1 .. Len(t) : i <= MaxLen => i \in 1 .. Len(Cut(t)) /\ Cut(t)[i] = t[i]
<1> DEFINE m == IF Len(t) <= MaxLen THEN Len(t) ELSE MaxLen
<1>1. m \in 0 .. Len(t) /\ m <= MaxLen
  BY NameAssumption, LenProperties
<1>2. Cut(t) = SubSeq(t, 1, m)
  BY DEF Cut
<1>3. /\ SubSeq(t, 1, m) \in Seq(SafeChar)
      /\ Len(SubSeq(t, 1, m)) = m
      /\ \A i \in 1 .. m : SubSeq(t, 1, m)[i] = t[i]
  BY <1>1, LenProperties, SubSeqProperties
<1>4. Len(t) <= MaxLen => SubSeq(t, 1, m) = t
  BY LenProperties, SubSeqFull
<1> QED
  BY <1>1, <1>2, <1>3, <1>4, NameAssumption, LenProperties

\* "Safe as a path component" (vm_name_for): whatever characters the two ids
\* hold, the name has only safe ones, is never longer than the limit, and
\* starts with the prefix, so that it is no dot-dot and no option of a command.
THEOREM NameIsSafe ==
  ASSUME NEW C, NEW runner \in Seq(C), NEW job \in Seq(C)
  PROVE  LET name == vm_name_for(runner, job)
         IN  /\ name \in Seq(SafeChar)
             /\ Len(name) <= MaxLen
             /\ \A i \in DOMAIN Prefix : i \in DOMAIN name /\ name[i] = Prefix[i]
<1> DEFINE t == runner \o <<Dash>> \o job
           whole == Prefix \o Safe(t)
<1>1. t \in Seq(C \cup {Dash})
  <2>1. runner \in Seq(C \cup {Dash}) /\ job \in Seq(C \cup {Dash})
    BY SeqMonotonic
  <2> QED
    BY <2>1
<1>2. Safe(t) \in Seq(SafeChar)
  BY <1>1, SafeIsSafe
<1> HIDE DEF t
<1>3. /\ whole \in Seq(SafeChar)
      /\ \A i \in 1 .. Len(Prefix) : i \in 1 .. Len(whole) /\ whole[i] = Prefix[i]
  BY <1>2, NameAssumption, ConcatProperties, LenProperties
<1>4. vm_name_for(runner, job) = Cut(whole)
  BY DEF vm_name_for, t
<1> HIDE DEF whole
<1> DEFINE name == Cut(whole)
<1>5. /\ name \in Seq(SafeChar) /\ Len(name) <= MaxLen
      /\ \A i \in 1 .. Len(whole) : i <= MaxLen => i \in 1 .. Len(name) /\ name[i] = whole[i]
  BY <1>3, CutShortens
<1> HIDE DEF name
<1>6. /\ DOMAIN Prefix = 1 .. Len(Prefix) /\ DOMAIN name = 1 .. Len(name)
      /\ \A i \in 1 .. Len(Prefix) : i <= MaxLen
  BY <1>5, NameAssumption, LenProperties
<1>7. \A i \in DOMAIN Prefix : i \in DOMAIN name /\ name[i] = Prefix[i]
  BY <1>3, <1>5, <1>6
<1>8. vm_name_for(runner, job) = name
  BY <1>4 DEF name
<1> QED
  BY <1>5, <1>7, <1>8

------------------------------------------------------------------------------
(* Ids that need no change *)

\* Safe from end to end, and no dash or dot at an end.
Plain(t) ==
  /\ t \in Seq(SafeChar) /\ Len(t) > 0
  /\ {t[1], t[Len(t)]} \cap {Dash, Dot} = {}

LEMMA NthOfInterval ==
  ASSUME NEW n \in Nat, NEW k \in 1 .. n
  PROVE  Nth(1 .. n, k) = k
<1>1. \A i \in 1 .. n : Cardinality({j \in 1 .. n : j <= i}) = i
  <2>1. SUFFICES ASSUME NEW i \in 1 .. n PROVE Cardinality({j \in 1 .. n : j <= i}) = i
    OBVIOUS
  <2>2. {j \in 1 .. n : j <= i} = 1 .. i
    OBVIOUS
  <2>3. Cardinality(1 .. i) = i
    BY FS_Interval
  <2> QED
    BY <2>2, <2>3
<1> QED
  BY <1>1 DEF Nth

LEMMA PlainIsKept ==
  ASSUME NEW t, Plain(t)
  PROVE  Safe(t) = t
<1>1. Len(t) \in Nat \ {0} /\ DOMAIN t = 1 .. Len(t) /\ \A i \in 1 .. Len(t) : t[i] \in SafeChar
  BY LenProperties, ElementOfSeq DEF Plain
<1>2. Kept(t) = 1 .. Len(t)
  BY <1>1 DEF Kept
<1>3. 1 \in Core(t) /\ Len(t) \in Core(t)
  <2>1. 1 \in DOMAIN t /\ Len(t) \in DOMAIN t
    BY <1>1
  <2>2. t[1] \notin {Dash, Dot} /\ t[Len(t)] \notin {Dash, Dot}
    BY DEF Plain
  <2>3. t[1] \in SafeChar /\ t[Len(t)] \in SafeChar
    BY <1>1
  <2> QED
    BY <2>1, <2>2, <2>3 DEF Core
<1>4. Inner(t) = 1 .. Len(t)
  BY <1>1, <1>2, <1>3 DEF Inner, Core
<1>5. Cardinality(1 .. Len(t)) = Len(t)
  BY <1>1, FS_Interval
<1>6. \A k \in 1 .. Len(t) : Nth(1 .. Len(t), k) = k
  BY <1>1, NthOfInterval
<1>7. Safe(t) = [k \in 1 .. Len(t) |-> t[k]]
  BY <1>1, <1>4, <1>5, <1>6 DEF Safe
<1> QED
  BY <1>1, <1>7 DEF Plain

\* Plain ids, and a name that fits.
Fits(runner, job) ==
  /\ Plain(runner) /\ Plain(job)
  /\ Len(Prefix) + Len(runner) + 1 + Len(job) <= MaxLen

LEMMA NameOfPlain ==
  ASSUME NEW runner, NEW job, Fits(runner, job)
  PROVE  vm_name_for(runner, job) = Prefix \o (runner \o <<Dash>> \o job)
<1> DEFINE t == runner \o <<Dash>> \o job
<1>1. runner \in Seq(SafeChar) /\ job \in Seq(SafeChar) /\ <<Dash>> \in Seq(SafeChar)
  BY NameAssumption DEF Fits, Plain
<1>2. /\ t \in Seq(SafeChar)
      /\ Len(t) = Len(runner) + 1 + Len(job)
      /\ t[1] = runner[1] /\ t[Len(t)] = job[Len(job)]
  BY <1>1, ConcatProperties, LenProperties DEF Fits, Plain
<1>3. Plain(t)
  BY <1>1, <1>2, LenProperties DEF Fits, Plain
<1>4. Safe(t) = t
  BY <1>3, PlainIsKept
<1> HIDE DEF t
<1>5. Prefix \o t \in Seq(SafeChar) /\ Len(Prefix \o t) <= MaxLen
  BY <1>2, NameAssumption, ConcatProperties, LenProperties DEF Fits
<1>6. vm_name_for(runner, job) = Cut(Prefix \o t)
  BY <1>4 DEF vm_name_for, t
<1>7. Cut(Prefix \o t) = Prefix \o t
  BY <1>5, CutShortens
<1> QED
  BY <1>6, <1>7 DEF t

LEMMA LeftSame ==
  ASSUME NEW C, NEW a \in Seq(C), NEW b \in Seq(C), NEW u \in Seq(C), NEW v \in Seq(C),
         Len(a) = Len(b), a \o u = b \o v
  PROVE  a = b /\ u = v
<1>1. Len(u) = Len(v)
  BY ConcatProperties, LenProperties
<1>2. \A i \in 1 .. Len(a) : a[i] = b[i]
  BY ConcatProperties, LenProperties
<1>3. \A i \in 1 .. Len(u) : u[i] = v[i]
  <2>1. SUFFICES ASSUME NEW i \in 1 .. Len(u) PROVE u[i] = v[i]
    OBVIOUS
  <2>2. (a \o u)[Len(a) + i] = u[i] /\ (b \o v)[Len(b) + i] = v[i]
    BY <1>1, ConcatProperties, LenProperties
  <2> QED
    BY <2>2
<1> QED
  BY <1>1, <1>2, <1>3, SeqEqual, LenProperties

\* "A VM name that is unique per runner and job" (vm_name_for), where it is: if
\* the ids need no change, the names fit, and the runners' ids have one length,
\* then one name stands for one runner and one job.
THEOREM NameIsUniqueForIdsOfOneLength ==
  ASSUME NEW r, NEW j, NEW s, NEW k,
         Fits(r, j), Fits(s, k), Len(r) = Len(s),
         vm_name_for(r, j) = vm_name_for(s, k)
  PROVE  r = s /\ j = k
<1> DEFINE rd == r \o <<Dash>>
           sd == s \o <<Dash>>
<1>1. /\ r \in Seq(SafeChar) /\ j \in Seq(SafeChar)
      /\ s \in Seq(SafeChar) /\ k \in Seq(SafeChar)
      /\ <<Dash>> \in Seq(SafeChar) /\ Prefix \in Seq(SafeChar)
  BY NameAssumption DEF Fits, Plain
<1>2. Prefix \o (rd \o j) = Prefix \o (sd \o k)
  BY NameOfPlain
<1>same. \A a, b, u, v \in Seq(SafeChar) :
           Len(a) = Len(b) /\ a \o u = b \o v => a = b /\ u = v
  BY LeftSame
<1>3. /\ rd \in Seq(SafeChar) /\ Len(rd) = Len(r) + 1
      /\ sd \in Seq(SafeChar) /\ Len(sd) = Len(s) + 1
  BY <1>1, ConcatProperties
<1>4. rd = sd => r = s
  BY <1>1, LeftSame
<1> HIDE DEF rd, sd
<1>5. rd \o j \in Seq(SafeChar) /\ sd \o k \in Seq(SafeChar)
  BY <1>1, <1>3, ConcatProperties
<1>6. rd \o j = sd \o k
  <2> DEFINE u == rd \o j
             v == sd \o k
  <2>1. u \in Seq(SafeChar) /\ v \in Seq(SafeChar) /\ Prefix \o u = Prefix \o v
    BY <1>2, <1>5
  <2> HIDE DEF u, v
  <2>2. u = v
    BY <1>1, <2>1, <1>same
  <2> QED
    BY <2>2 DEF u, v
<1>7. Len(rd) = Len(sd)
  BY <1>3
<1>8. rd = sd /\ j = k
  BY <1>1, <1>3, <1>6, <1>7, <1>same
<1> QED
  BY <1>4, <1>8
================================================================================
