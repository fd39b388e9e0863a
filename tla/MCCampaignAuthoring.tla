-------------------------- MODULE MCCampaignAuthoring --------------------------
(* A primary spec of two sections, one to be decided and one to be built,  *)
(* and two replies of a model: a sound one about the second section, which *)
(* it makes depend on the first, and one that breaks the response schema.  *)
EXTENDS CampaignAuthoring, TLC

MCHeadings == <<<<"a">>, <<"b">>>>
MCSections == <<[title |-> {"decisions"}, body |-> {}],
                [title |-> {}, body |-> {"requirements", "proofs"}]>>
Unhinted == [n \in Nodes |-> {}]
MCReplies ==
  {[nodes |-> {2}, hints |-> [Unhinted EXCEPT ![2] = {1}], sound |-> TRUE],
   [nodes |-> Nodes, hints |-> Unhinted, sound |-> FALSE]}
Wordings == Permutations(SpecVersions)
=============================================================================
