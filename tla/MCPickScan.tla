------------------------------ MODULE MCPickScan ------------------------------
(* Three runners on two images, every mix of health readings. *)
EXTENDS PickScan, TLC

CONSTANTS r1, r2, r3, imgA, imgB

MCRunner == {r1, r2, r3}
\* The scheduler goes by insertion order, not by name.
MCPosition == r1 :> 2 @@ r2 :> 1 @@ r3 :> 3
MCImageOf == r1 :> imgA @@ r2 :> imgA @@ r3 :> imgB

Entry(thermal, used, total) == [thermal |-> thermal, used |-> used, total |-> total]

\* No swap file; exactly half of one used; more than half used.
MCReading ==
  {Entry(t, 0, 0) : t \in Thermal} \cup {Entry(t, 1, 2) : t \in DOMAIN ThermalRank}
    \cup {Entry("nominal", 2, 3), Entry("serious", 1, 2)}

\* Fields left out, capitals, a word that is none, more swap used than there is.
MCOddEntry ==
  {Entry(Missing, Missing, Missing), Entry("fair", Missing, 2), Entry("Serious", 0, Missing),
   Entry("nominal", 1, Missing), Entry(Junk, 0, 0), Entry("fair", Junk, 2)}

MCHealthFile == [MCRunner -> MCReading \cup MCOddEntry \cup {NoReading}]
===============================================================================
