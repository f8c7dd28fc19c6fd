\* Every wiring of two submodules, with YAML domains and inferred.
CONSTANT Designs <- MCDesigns
SPECIFICATION Spec
INVARIANTS TypeOK FlopDomainsFollowWires AcceptedExactly OneIdPerSourceAndEdge
    PortDomainsFollowWires InferredDomainsAreUsed TopDomainsKeptWhereNamesAgree
