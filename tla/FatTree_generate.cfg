SPECIFICATION Spec
CONSTANT Ks <- MCKs
INVARIANTS TypeOK LinksKnownByEnds FatTreeShape QueuesAreLinks AgentsMutual
