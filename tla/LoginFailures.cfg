SPECIFICATION Spec
INVARIANTS UserIsNotBlamed SpanAgreesWithPage FaultsAreTheirOwners
CHECK_DEADLOCK FALSE
