------------------------------ MODULE MCFgcom ------------------------------
EXTENDS Fgcom

\* Two towers on different frequencies at two places, a third place out of
\* range of both, and a special frequency.
MCFrequencies == {"west tower", "east tower", "special"}
MCSpecial == {"special"}
MCPositions == {"west", "east", "sea"}
MCAirports == {"WEST", "EAST"}
MCicaobypos == [f \in MCFrequencies \cup {NoFrequency} |->
    [p \in MCPositions |->
        CASE f = "west tower" /\ p = "west" -> "WEST"
          [] f = "east tower" /\ p = "east" -> "EAST"
          [] OTHER -> Nowhere]]

=============================================================================
