------------------------------ MODULE MCTrust ------------------------------
\* Two built-in roots; the user overrides the second or adds another, with
\* tags of different sizes.  Names and soups meet only in the order of the
\* calls of SSLConfigure: a behaviour has either names or edits.
EXTENDS Trust

VARIABLE scenario

MCBuiltIn == <<"a", "b">>
MCTagSize == [t \in {"a", "b", "u"} |-> IF t = "u" THEN 3 ELSE 2]

mcVars == <<scenario, trustVars>>

MCInit == TrustInit /\ scenario \in {"names", "edits"}
MCNext ==
    /\ TrustNext
    /\ UNCHANGED scenario
    /\ scenario = "names" => UNCHANGED edits
    /\ scenario = "edits" => UNCHANGED mSSLHostname

MCSpec == MCInit /\ [][MCNext]_mcVars
MCFairSpec == MCSpec /\ WF_mcVars(Load /\ UNCHANGED scenario)
=============================================================================
