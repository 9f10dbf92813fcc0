CONSTANTS
  amina = amina
  baraka = baraka
  User <- MCUser
  Text = {"x"}
  Starts <- MCStarts
  StartsOfAmina = {"offerings"}
  StartsOfBaraka = {"offerings"}
  MaxAnswers = 3
  MaxTries = 1
SPECIFICATION Spec
INVARIANT OwnAnswers
CHECK_DEADLOCK FALSE
