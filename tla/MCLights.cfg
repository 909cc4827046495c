SPECIFICATION Spec
CONSTANTS
  NoThread = NoThread
  Threads = {t1, t2}
  Colors <- MCColors
  Flashes <- MCFlashes
  Fallible <- MCFallible
INVARIANTS
  LedShowsWinner
  NotificationUndisturbed
