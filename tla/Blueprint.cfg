\* The built-in blueprints and those of a project, with a total limit that the
\* built-in ones never meet and the project ones do.
SPECIFICATION FairSpec
CONSTANTS
    Names <- MCNames
    Blueprints <- MCBlueprints
    MaxTotalRetries = 3
INVARIANTS
    EvidenceIsOfLastStage
    EvidenceNotLost
    VerifiedDelivery

    
