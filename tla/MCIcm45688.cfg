SPECIFICATION Spec
CONSTANTS
  Hold = 3
  LearnSamples = 3
  ConfigCalls = 3
  Headings <- TwoHeadings
INVARIANTS
  OwnAnswers
  WholeFrames
  ReadyMeansConfigured
PROPERTIES
  TwiceOnlyIfEarly
  BiasLearnedAtRest
  YawHeldAtRest
\* A failed bring-up ends the task; only the watchdog's reset goes on.
CHECK_DEADLOCK FALSE
