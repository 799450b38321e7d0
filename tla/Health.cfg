SPECIFICATION Spec
INVARIANT HealthTellsTruth

