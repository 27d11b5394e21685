\* Fair paper threads: ticks wedge for ever, stops outlast their join, loops die while starting, Starts during a join, crashes.
SPECIFICATION FairSpec
CONSTANTS
  None = None
  EnvMode = "paper"
  Modes <- PaperOnly
  Events = {"wedge", "slow", "startup", "overlap", "poll", "crash"}
  MaxThreads = 2
INVARIANTS AbandonedAreStopped
PROPERTIES PaperRecovers StopsEnd
