---------------------- MODULE MCProcessTableRefinement ----------------------
EXTENDS ProcessTableRefinement

Codes == {3}
=============================================================================
