\* pyfork.py waits before it reads, and the command prints more than fits.
SPECIFICATION FairSpec
CONSTANTS
  Orders = {FALSE}
  CAPACITY = 2
  READSZ = 2
  MAXOUT = 3
PROPERTIES
  Returns
CHECK_DEADLOCK FALSE
