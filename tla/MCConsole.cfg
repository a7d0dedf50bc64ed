SPECIFICATION MCFairSpec
CONSTANTS
  KEYBOARD_BUFFER_SIZE = 3
  Codes <- SomeCodes
  Scancodes <- SomeScancodes
  Users <- SomeUsers
  SHELL_BUFFER_SIZE = 3
  FIELD_SIZE = 3
  MaxTyped = 4
  MaxToggles = 1
INVARIANTS LineIsWhatWasTyped
PROPERTIES RefinesQueue KeysTaken
