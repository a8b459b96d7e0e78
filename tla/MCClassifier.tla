---------------------------- MODULE MCClassifier ----------------------------
EXTENDS Classifier

NoPrefix == [form |-> "none", tier |-> NoTier]

(* Nothing but the prompt; a prefix that needs more text and one that does *)
(* not; a flag.                                                            *)
MCOpening ==
  {<<NoTier, NoPrefix>>,
   <<NoTier, [form |-> "slash", tier |-> "COMPLEX"]>>,
   <<NoTier, [form |-> "bracket", tier |-> "SIMPLE"]>>,
   <<"other", [form |-> "mode", tier |-> "REASONING"]>>}
=============================================================================
