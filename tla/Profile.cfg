CONSTANTS
  amina = amina
  baraka = baraka
  User <- MCUser
  Text = {"x", "y"}
  Starts <- MCStarts
  StartsOfAmina = {"first_name", "yob", "offerings"}
  StartsOfBaraka = {"location"}
  MaxAnswers = 3
  MaxTries = 1
SPECIFICATION Spec
INVARIANTS TypeOK FlaggedIsStored
PROPERTIES StoredOnlyByPin ReplacedByLastAnswer
CHECK_DEADLOCK FALSE
