\* The constants have their values in MCStory.
SPECIFICATION Spec
INVARIANTS TypeOK StoryHolds
PROPERTIES StoryEarned
\* Stories end, and a bounded component stops.
CHECK_DEADLOCK FALSE
