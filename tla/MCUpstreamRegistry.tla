-------------------------- MODULE MCUpstreamRegistry --------------------------
EXTENDS UpstreamRegistry
CONSTANTS m1, m2, own, shared, fixed
MCKinds == <<"tools", "prompts">>
MCNames(m) == IF m = m1 THEN {own, shared} ELSE {shared, fixed}
=============================================================================
