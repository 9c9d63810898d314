SPECIFICATION Spec
INVARIANT EveryRequestCounted
