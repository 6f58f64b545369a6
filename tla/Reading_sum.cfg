SPECIFICATION Spec
INVARIANTS Understood MailRelayed SharesFollowWeights NothingStranded NodesHeld DescriptorsOwned OutputFlows EventsNotLost
CHECK_DEADLOCK FALSE
