SPECIFICATION IngesterSpec
CONSTANTS
  i1 = i1  i2 = i2  i3 = i3  i4 = i4
  a1 = a1  a2 = a2
  Posted <- MCPosted
  Authors <- MCAuthors
  AuthorOf <- MCAuthorOf
  Invalid <- MCInvalid
  Flagged <- MCFlagged
  Unalignable <- MCUnalignable
  Polls = {p1, p2}
  Hour = 2
  MaxPerAuthor = 1
  MaxAttempts = 2
  MaxCache = 1
  FetchLimit = 2
  Timestamps = {1, 5}
  MaxClock = 4
INVARIANTS AuthorIsLimited CacheHoldsTheNewest
PROPERTY NoReentryWithinHour
