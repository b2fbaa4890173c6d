---------------------------- MODULE MCNavigation ----------------------------
(* The ring of the four concourses of the registry and the south exit, which*)
(* no edge leaves.  Fans are counted in thousands.                          *)
EXTENDS Navigation, StadiumRegistry, TLC

CONSTANT ghost

North == Concourse("N")
East == Concourse("E")
South == Concourse("S")
SouthExit == <<"EXIT", "S">>

MCZones == {Concourse(side) : side \in Sides} \cup {SouthExit}
MCEdges == {e \in RegistryEdges : {e.from, e.to} \subseteq MCZones}
MCCapacityOf == [z \in MCZones |-> RegistryCapacity(z) \div 1000]

MCRequests ==
    [stadiumExists : {TRUE}, origin : {North}, destination : {North, South, SouthExit},
     accessibleOnly : {FALSE}, avoid : {{}, {East}, {South, North}}]
    \cup [stadiumExists : {TRUE}, origin : {East}, destination : {SouthExit},
          accessibleOnly : {TRUE}, avoid : {{ghost}}]
    \cup [stadiumExists : BOOLEAN, origin : {SouthExit, ghost}, destination : {South, ghost},
          accessibleOnly : {FALSE}, avoid : {{}}]

\* Across the ring, by the side that the fan does not avoid.
MCAroundEast ==
    [stadiumExists : {TRUE}, origin : {North}, destination : {South},
     accessibleOnly : {FALSE}, avoid : {{East}}]
=============================================================================
