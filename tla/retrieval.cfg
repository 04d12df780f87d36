SPECIFICATION Spec
CONSTANTS
    Documents = {1, 2, 3}
    Norm = 5
    Target <- East
    Embeddings <- Circle
    Contents <- ShortTexts
    Settings <- Deployments
    Queries <- AskAnything
    None = None
INVARIANTS
    ResultIsAPage
    FusionKeepsAgreement
    RedundantCopiesAreDropped
    GoodHitsYieldContext
    BestCopyIsKept
