----------------------------- MODULE MCIOCache -----------------------------
EXTENDS IOCacheLayers
MCRanges == {<<0, 0>>, <<1, 1>>, <<1, 2>>, <<2, 3>>, <<0, 3>>}
=============================================================================
