\* The identities recorded for the declared domains.
CONSTANT Designs <- MCDesigns
SPECIFICATION Spec
INVARIANT TopDomainsNameTheirPort
