------------------------- MODULE MC_LeftoverRemoval -------------------------
EXTENDS LeftoverRemoval, TLC

MCPlatformOf == ("temp" :> "sensor") @@ ("quiet" :> "sensor") @@ ("zone" :> "valve")
MCEmits == ("reading" :> {"temp", "zone"}) @@ ("silent" :> {"quiet"})
=============================================================================
