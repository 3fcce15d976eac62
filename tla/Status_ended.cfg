SPECIFICATION Spec
CONSTANTS
  Children = {br0, wcli0}
  Prop <- P
  Implications <- IMPLICATIONS
  CounterImplications <- COUNTER_IMPLICATIONS
  Calls <- FewCalls
INVARIANTS TruthRepairsFiles ExportedConsistent CompositeIsDisjunction
