\* Two decoders of the application beside the plug-ins, in every order.
CONSTANTS
  Others = {"mp4", "mpx"}
  MaxCommits = 2
SPECIFICATION Spec
INVARIANTS
  NeverThroughItself
  OpenExplained
  UsesWhatIsSet
  InfoExplained
CHECK_DEADLOCK FALSE
