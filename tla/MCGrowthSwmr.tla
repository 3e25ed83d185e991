---------------------------- MODULE MCGrowthSwmr -----------------------------
EXTENDS GrowthSwmr
MCInitShape == <<1, 2>>
MCMaxShape == <<2, 2>>
=============================================================================
