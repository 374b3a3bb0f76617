----------------------------- MODULE LogLayout -----------------------------
(***************************************************************************)
(* Where the undo log keeps its entries.  In each page the old contents of *)
(* the blocks grow from the bottom and their addresses grow from the top.  *)
(* The sequencer and the abort handler compute the place of an entry each  *)
(* in its own way, and the handler moves its pointers from one entry to    *)
(* the one before.                                                         *)
(*                                                                         *)
(* Pointers are offsets from the base of the log, in words: an address     *)
(* takes one word.                                                         *)
(***************************************************************************)
EXTENDS Integers

CONSTANTS LOG_PAGE_SIZE, LOG_CACHE_BLOCK_SIZE, LOG_ENTRIES_PER_PAGE,
          MAX_LOG_SIZE_PAGES

ASSUME LayoutAssumption ==
  /\ LOG_PAGE_SIZE \in Nat \ {0} /\ LOG_CACHE_BLOCK_SIZE \in Nat \ {0}
  /\ LOG_ENTRIES_PER_PAGE \in Nat \ {0} /\ MAX_LOG_SIZE_PAGES \in Nat \ {0}
  /\ LOG_ENTRIES_PER_PAGE * (LOG_CACHE_BLOCK_SIZE + 1) <= LOG_PAGE_SIZE

LogEntries == MAX_LOG_SIZE_PAGES * LOG_ENTRIES_PER_PAGE

GET_PAGE_OFFSET(ptr) == ptr % LOG_PAGE_SIZE

data_log_pointer(n) ==
  (n \div LOG_ENTRIES_PER_PAGE) * LOG_PAGE_SIZE
  + (n % LOG_ENTRIES_PER_PAGE) * LOG_CACHE_BLOCK_SIZE

addr_log_pointer(n) ==
  (n \div LOG_ENTRIES_PER_PAGE) * LOG_PAGE_SIZE
  + (LOG_PAGE_SIZE - ((n % LOG_ENTRIES_PER_PAGE) + 1))

\* The sequencer derives the second pointer from the first.
addr_ptr_from_data_ptr(ptr) ==
  (ptr - GET_PAGE_OFFSET(ptr))
  + (LOG_PAGE_SIZE - ((GET_PAGE_OFFSET(ptr) \div LOG_CACHE_BLOCK_SIZE) + 1))

\* The handler's pointers after entry n > 0 has been restored.
previousData_SamePage(n, ptr) == ptr - LOG_CACHE_BLOCK_SIZE

previousData(n, ptr) ==
  IF GET_PAGE_OFFSET(ptr) = 0 THEN data_log_pointer(n - 1)
  ELSE ptr - LOG_CACHE_BLOCK_SIZE

previousAddr(n, dataPtr, ptr) ==
  IF GET_PAGE_OFFSET(dataPtr) = 0 THEN addr_log_pointer(n - 1) ELSE ptr + 1

\* The words of an entry's block.
DataWords(ptr) == ptr .. ptr + LOG_CACHE_BLOCK_SIZE - 1
=============================================================================
