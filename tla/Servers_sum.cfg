SPECIFICATION Spec
INVARIANTS CodesMeanDirectives RoomSuffices LocationByRule AccessBeforeContent ServerByRule GeoByRule ClientJudged UrlAsWritten ClientReadsEntity
CHECK_DEADLOCK FALSE
