\* A tick is 100 seconds; the values are the defaults of settings.py.
SPECIFICATION Spec
CONSTANTS
  Timeout = 6
  MaxRetries = 2
  TaskSoftTimeLimit = 9
  TaskTimeLimit = 12
  MaxFetch = 8
PROPERTY TaskSeesItsCall
CHECK_DEADLOCK FALSE
