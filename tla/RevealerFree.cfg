SPECIFICATION RevealerSpec
CONSTANTS
  FirstCount = 10
  MaxAnswers = 1
INVARIANTS
  AllFreed
