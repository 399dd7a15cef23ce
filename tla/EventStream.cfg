SPECIFICATION FairStreamSpec
CONSTANTS
  Events = 3
  LateEvents = 2
INVARIANT EventsInOrder
PROPERTY OutcomeKnownUnlessCancelled
