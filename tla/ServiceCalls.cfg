\* Two steps scored at once, with fewer retries than the code's 16; two searches
\* of two hits, with one retry, under semaphores of one slot or none.
SPECIFICATION CallSpec
CONSTANTS
  Items = {i1, i2}
  MaxRetries = 4
  HttpRetries = 1
  Limits = {0, 1}
  Searches = {1, 2}
  MaxHits = 2
  HttpCalls <- MCHttpCalls
  ApiKeys <- MCApiKeys
INVARIANTS
  GivesUpWithReason
  SlotsKept
  NoKeySkipped
PROPERTIES
  CallsEnd
CHECK_DEADLOCK FALSE
