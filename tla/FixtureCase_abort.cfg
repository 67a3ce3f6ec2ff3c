\* A fatal failure inside EXPECT_THROWS does not end the body.
SPECIFICATION Spec
CONSTANTS
  MaxChecks = 2
  MaxNesting = 1
PROPERTIES
  AbortUnwinds
