SPECIFICATION ResolverSpec
CONSTANT Capabilities = {1, 2, 3}
INVARIANT ResolutionIsExact
PROPERTY ResolveAnswers
