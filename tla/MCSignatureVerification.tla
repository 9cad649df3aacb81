------------------------ MODULE MCSignatureVerification ------------------------
(***************************************************************************)
(* An instance shaped like resources/moj/trust-anchors/manifest.json: several  *)
(* first-generation anchors of one subject; a production and a test anchor of   *)
(* one subject for the second.  Unlike the packaged ones, two anchors here have  *)
(* one key, so that a trust path can be ambiguous.                              *)
(***************************************************************************)
EXTENDS SignatureVerification

Anchor(p, g, k, s) == [profile |-> p, generation |-> g, key |-> k, subject |-> s]

PackagedAnchors ==
  [a \in {"rc1-2015", "rc1-2018", "rc1-2021", "rc2", "rc2-test"} |->
     CASE a = "rc1-2015" -> Anchor("production", "first", "key1", "CA")
       [] a = "rc1-2018" -> Anchor("production", "first", "key1", "CA")
       [] a = "rc1-2021" -> Anchor("production", "first", "key2", "CA")
       [] a = "rc2"      -> Anchor("production", "second", "key3", "CA2")
       [] a = "rc2-test" -> Anchor("official_test", "second", "key4", "CA2")]
=============================================================================
