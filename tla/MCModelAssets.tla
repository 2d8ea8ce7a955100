---------------------------- MODULE MCModelAssets ----------------------------
EXTENDS ModelAssets
==============================================================================
