-------------------------------- MODULE VmNames --------------------------------
(***************************************************************************)
(* The name of a lease's VM: vm_name_for (src/mfm/tart.py) joins runner    *)
(* and job, puts one dash for every run of characters that are not safe in *)
(* a path, strips dashes and dots from both ends, and cuts the name to its *)
(* length.  Texts are sequences of characters; a character is any value.   *)
(***************************************************************************)
EXTENDS Integers, Sequences, FiniteSets

CONSTANTS
  SafeChar,  \* letters, digits, dot, underscore and dash
  Dash, Dot,
  Prefix,    \* what every name starts with
  MaxLen     \* the length names are cut to

ASSUME NameAssumption ==
  /\ {Dash, Dot} \subseteq SafeChar
  /\ Prefix \in Seq(SafeChar)
  /\ MaxLen \in Nat /\ Len(Prefix) < MaxLen

\* The first of every run of unsafe characters stands for the run.
Kept(t) == {i \in DOMAIN t : t[i] \in SafeChar \/ i = 1 \/ t[i - 1] \in SafeChar}

\* Neither safe dashes and dots nor the dashes put in end a name.
Core(t) == {i \in DOMAIN t : t[i] \in SafeChar \ {Dash, Dot}}

Inner(t) == {i \in Kept(t) : \E a, b \in Core(t) : a <= i /\ i <= b}

Nth(S, k) == CHOOSE i \in S : Cardinality({j \in S : j <= i}) = k

Safe(t) ==
  [k \in 1 .. Cardinality(Inner(t)) |->
     LET c == t[Nth(Inner(t), k)] IN IF c \in SafeChar THEN c ELSE Dash]

Cut(t) == SubSeq(t, 1, IF Len(t) <= MaxLen THEN Len(t) ELSE MaxLen)

vm_name_for(runner, job) == Cut(Prefix \o Safe(runner \o <<Dash>> \o job))
================================================================================
