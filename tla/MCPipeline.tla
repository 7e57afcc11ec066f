----------------------------- MODULE MCPipeline -----------------------------
(* Small instances of Pipeline.  "tags" is a root stage, "match" needs it;    *)
(* "aax" is a root without dependents that the topological order puts first. *)
EXTENDS Pipeline, TLC

CONSTANTS tags, match, aax

MCOrder == <<tags, match>>
MCRequires == (tags :> {}) @@ (match :> {tags})
MCAaxOrder == <<aax, tags, match>>
MCAaxRequires == (aax :> {}) @@ MCRequires

MCRootPlan == <<[stage |-> tags, tier |-> "interactive"]>>
MCBothPlan == <<[stage |-> tags, tier |-> "interactive"],
                [stage |-> match, tier |-> "idle"]>>

MCRetryRequests == {<<tags>>, <<match>>}
MCCapacity == [t \in Tiers |-> 1]
MCAnyOutcome == [s \in Stages |-> Outcome]
MCDone == [s \in Stages |-> {"done"}]
MCAaxFails == [s \in Stages |-> IF s = aax THEN {"error"} ELSE {"done"}]
=============================================================================
