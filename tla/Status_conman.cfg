SPECIFICATION AliveSpec
CONSTANTS
  Children = {wcli0}
  Prop <- P
  Implications <- IMPLICATIONS
  CounterImplications <- COUNTER_IMPLICATIONS
  Calls <- RelatedCalls
INVARIANT Consistent
PROPERTIES ImplementsStatusSpec GlitchFree SetReturns
