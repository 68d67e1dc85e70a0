--------------------------- MODULE MCControlPlane ---------------------------
EXTENDS ControlPlane

CONSTANTS car, track, e1, e2

MCCars == {car}
MCTracks == {track}
MCAliases == <<"instance", "fleet">>
MCDbFleet == {e1}
MCFurnished == {e1}
=============================================================================
