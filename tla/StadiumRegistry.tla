-------------------------- MODULE StadiumRegistry --------------------------
(* services/stadium_registry.py: the zones and the graph that every stadium *)
(* of the registry has.  A zone is named by its kind and its side of the    *)
(* stadium; all edges are accessible, and no edge leaves an exit.           *)
EXTENDS Naturals

Sides == {"N", "E", "S", "W"}
Kinds == {"GATE", "CONC", "CONCESS", "SEAT", "EXIT"}
MedicalCentre == <<"MEDICAL_CTR", "N">>

RegistryZones == (Kinds \X Sides) \cup {MedicalCentre}

\* The north and the south side are the large ones.
BySide(side, large, small) == IF side \in {"N", "S"} THEN large ELSE small

\* Capacity of a zone, in fans.
RegistryCapacity(z) ==
    CASE z[1] = "GATE" -> BySide(z[2], 5000, 3000)
      [] z[1] = "CONC" -> BySide(z[2], 8000, 4000)
      [] z[1] = "CONCESS" -> BySide(z[2], 2000, 1500)
      [] z[1] = "SEAT" -> BySide(z[2], 15000, 10000)
      [] z[1] = "EXIT" -> BySide(z[2], 10000, 6000)
      [] z = MedicalCentre -> 50

Road(a, b, seconds) == [from |-> a, to |-> b, weight |-> seconds, accessible |-> TRUE]

BothWays(a, b, seconds) == {Road(a, b, seconds), Road(b, a, seconds)}

Concourse(side) == <<"CONC", side>>

\* What hangs on the concourse of a side, and its share of the ring.
SideEdges(side) ==
    BothWays(<<"GATE", side>>, Concourse(side), BySide(side, 60, 45))
    \cup BothWays(<<"CONCESS", side>>, Concourse(side), BySide(side, 30, 20))
    \cup BothWays(<<"SEAT", side>>, Concourse(side), BySide(side, 90, 75))
    \cup {Road(Concourse(side), <<"EXIT", side>>, BySide(side, 90, 60))}

RingEdges ==
    UNION {BothWays(Concourse(a), Concourse(b), 120) : a \in {"N", "S"}, b \in {"E", "W"}}

RegistryEdges ==
    UNION {SideEdges(side) : side \in Sides} \cup RingEdges
    \cup BothWays(MedicalCentre, Concourse("N"), 30)
=============================================================================
