--------------------------- MODULE LogDataProofs ---------------------------
(***************************************************************************)
(* The layout of the undo log, for every page size, block size and number  *)
(* of entries, and the invariant of LogTM's data, for any number of cores, *)
(* blocks and log pages: the log holds what is needed to undo a            *)
(* transaction, and its requests can always be issued.  LogAtomicProofs    *)
(* draws the conclusions.                                                  *)
(***************************************************************************)
EXTENDS LogData, StallConflictProofs, TLAPS

-----------------------------------------------------------------------------
(* The layout of the log, for every page size, block size and number of    *)
(* entries                                                                 *)

\* Quotient and remainder are the page and the slot of an entry.
LEMMA DivMod ==
  ASSUME NEW n \in Nat, NEW d \in Nat \ {0}
  PROVE  /\ n \div d \in Nat /\ n % d \in 0 .. d - 1
         /\ n = (d * (n \div d)) + (n % d)
  OBVIOUS

\* ... and they are unique.
LEMMA DivModUnique ==
  ASSUME NEW d \in Nat \ {0}, NEW q \in Nat, NEW r \in 0 .. d - 1
  PROVE  ((d * q) + r) \div d = q /\ ((d * q) + r) % d = r
  OBVIOUS

\* The two parts of a page do not meet: the slot r of a page keeps its block
\* below the addresses and its address above the blocks.
LEMMA Slot ==
  ASSUME NEW r \in 0 .. LOG_ENTRIES_PER_PAGE - 1
  PROVE  /\ r * LOG_CACHE_BLOCK_SIZE \in Nat
         /\ LOG_ENTRIES_PER_PAGE * LOG_CACHE_BLOCK_SIZE \in Nat
         /\ (r * LOG_CACHE_BLOCK_SIZE) + LOG_CACHE_BLOCK_SIZE
              <= LOG_ENTRIES_PER_PAGE * LOG_CACHE_BLOCK_SIZE
         /\ (LOG_ENTRIES_PER_PAGE * LOG_CACHE_BLOCK_SIZE) + LOG_ENTRIES_PER_PAGE
              <= LOG_PAGE_SIZE
<1> DEFINE B == LOG_CACHE_BLOCK_SIZE
           E == LOG_ENTRIES_PER_PAGE
<1>1. B \in Nat \ {0} /\ E \in Nat \ {0} /\ LOG_PAGE_SIZE \in Nat
      /\ E * (B + 1) <= LOG_PAGE_SIZE
  BY Zenon, LayoutAssumption
<1> HIDE DEF B, E
<1>2. r \in 0 .. E - 1
  BY Zenon DEF E
<1>3. r * B \in Nat /\ E * B \in Nat /\ (r * B) + B = (r + 1) * B
  BY <1>1, <1>2
<1>4. (r + 1) * B <= E * B
  BY <1>1, <1>2
<1>5. (E * B) + E <= LOG_PAGE_SIZE
  BY <1>1
<1> QED
  BY Zenon, <1>1, <1>3, <1>4, <1>5 DEF B, E

\* The page and the slot of an entry, and where its pointers are.
LEMMA Entry ==
  ASSUME NEW n \in Nat
  PROVE  \E q \in Nat, r \in 0 .. LOG_ENTRIES_PER_PAGE - 1 :
           /\ n = (LOG_ENTRIES_PER_PAGE * q) + r
           /\ data_log_pointer(n) = (LOG_PAGE_SIZE * q) + (r * LOG_CACHE_BLOCK_SIZE)
           /\ addr_log_pointer(n) = (LOG_PAGE_SIZE * q) + (LOG_PAGE_SIZE - (r + 1))
           /\ GET_PAGE_OFFSET(data_log_pointer(n)) = r * LOG_CACHE_BLOCK_SIZE
           /\ r * LOG_CACHE_BLOCK_SIZE \in 0 .. LOG_PAGE_SIZE - 1
<1> DEFINE q == n \div LOG_ENTRIES_PER_PAGE
           r == n % LOG_ENTRIES_PER_PAGE
<1>1. q \in Nat /\ r \in 0 .. LOG_ENTRIES_PER_PAGE - 1
      /\ n = (LOG_ENTRIES_PER_PAGE * q) + r
  BY Zenon, DivMod, LayoutAssumption
<1>2. data_log_pointer(n) = (q * LOG_PAGE_SIZE) + (r * LOG_CACHE_BLOCK_SIZE)
  BY Zenon DEF data_log_pointer
<1>3. addr_log_pointer(n) = (q * LOG_PAGE_SIZE) + (LOG_PAGE_SIZE - (r + 1))
  BY Zenon DEF addr_log_pointer
<1> HIDE DEF q, r
<1>4. LOG_PAGE_SIZE \in Nat \ {0} /\ LOG_CACHE_BLOCK_SIZE \in Nat \ {0}
      /\ LOG_ENTRIES_PER_PAGE \in Nat \ {0}
  BY Zenon, LayoutAssumption
<1>5. q * LOG_PAGE_SIZE = LOG_PAGE_SIZE * q
  BY <1>1, <1>4
<1>6. r * LOG_CACHE_BLOCK_SIZE \in 0 .. LOG_PAGE_SIZE - 1
  <2> DEFINE x == r * LOG_CACHE_BLOCK_SIZE
             y == LOG_ENTRIES_PER_PAGE * LOG_CACHE_BLOCK_SIZE
  <2>1. x \in Nat /\ y \in Nat /\ x + LOG_CACHE_BLOCK_SIZE <= y
        /\ y + LOG_ENTRIES_PER_PAGE <= LOG_PAGE_SIZE
    BY Zenon, <1>1, Slot
  <2> HIDE DEF x, y
  <2>2. x \in 0 .. LOG_PAGE_SIZE - 1
    BY <2>1, <1>4
  <2> QED
    BY Zenon, <2>2 DEF x
<1>7. GET_PAGE_OFFSET(data_log_pointer(n)) = r * LOG_CACHE_BLOCK_SIZE
  <2> DEFINE x == r * LOG_CACHE_BLOCK_SIZE
  <2>1. x \in 0 .. LOG_PAGE_SIZE - 1
        /\ data_log_pointer(n) = (LOG_PAGE_SIZE * q) + x
    BY Zenon, <1>2, <1>5, <1>6
  <2> HIDE DEF x
  <2>2. ((LOG_PAGE_SIZE * q) + x) % LOG_PAGE_SIZE = x
    BY Zenon, <2>1, <1>1, <1>4, DivModUnique
  <2>3. GET_PAGE_OFFSET(data_log_pointer(n)) = x
    BY Zenon, <2>1, <2>2 DEF GET_PAGE_OFFSET
  <2> QED
    BY Zenon, <2>3 DEF x
<1> QED
  BY Zenon, <1>1, <1>2, <1>3, <1>5, <1>6, <1>7

\* The sequencer, which computes the place of an address from the place of the
\* block (logtm_compute_addr_ptr_from_data_ptr), and the handler, which computes
\* it from the number of the entry, agree on every entry.
THEOREM SequencerAndHandlerAgree ==
  ASSUME NEW n \in Nat
  PROVE  addr_ptr_from_data_ptr(data_log_pointer(n)) = addr_log_pointer(n)
<1>1. LOG_PAGE_SIZE \in Nat \ {0} /\ LOG_CACHE_BLOCK_SIZE \in Nat \ {0}
      /\ LOG_ENTRIES_PER_PAGE \in Nat \ {0}
  BY Zenon, LayoutAssumption
<1>2. PICK q \in Nat, r \in 0 .. LOG_ENTRIES_PER_PAGE - 1 :
        /\ data_log_pointer(n) = (LOG_PAGE_SIZE * q) + (r * LOG_CACHE_BLOCK_SIZE)
        /\ addr_log_pointer(n) = (LOG_PAGE_SIZE * q) + (LOG_PAGE_SIZE - (r + 1))
        /\ GET_PAGE_OFFSET(data_log_pointer(n)) = r * LOG_CACHE_BLOCK_SIZE
        /\ r * LOG_CACHE_BLOCK_SIZE \in 0 .. LOG_PAGE_SIZE - 1
  BY Zenon, Entry
<1>3. (r * LOG_CACHE_BLOCK_SIZE) \div LOG_CACHE_BLOCK_SIZE = r
  <2>1. r \in Nat /\ r * LOG_CACHE_BLOCK_SIZE = (LOG_CACHE_BLOCK_SIZE * r) + 0
    BY <1>1
  <2>2. ((LOG_CACHE_BLOCK_SIZE * r) + 0) \div LOG_CACHE_BLOCK_SIZE = r
    BY <2>1, <1>1, DivModUnique
  <2> QED
    BY Zenon, <2>1, <2>2
<1>4. data_log_pointer(n) - GET_PAGE_OFFSET(data_log_pointer(n))
        = LOG_PAGE_SIZE * q
  <2> DEFINE x == r * LOG_CACHE_BLOCK_SIZE
             y == LOG_PAGE_SIZE * q
  <2>1. x \in Int /\ y \in Int
    BY <1>1
  <2>2. data_log_pointer(n) = y + x /\ GET_PAGE_OFFSET(data_log_pointer(n)) = x
    BY Zenon, <1>2
  <2> HIDE DEF x, y
  <2>3. data_log_pointer(n) - GET_PAGE_OFFSET(data_log_pointer(n)) = y
    BY <2>1, <2>2
  <2> QED
    BY Zenon, <2>3 DEF y
<1>5. GET_PAGE_OFFSET(data_log_pointer(n)) \div LOG_CACHE_BLOCK_SIZE = r
  BY Zenon, <1>2, <1>3
<1> QED
  BY Zenon, <1>2, <1>4, <1>5 DEF addr_ptr_from_data_ptr

\* The handler's pointers, moved from an entry to the one before, within a page
\* or to the last entry of the page before, are where the entry is: the asserts
\* "data_log_ptr == data_log_ptr1" and "addr_log_ptr == addr_log_ptr1" that
\* logtm_log_unroll has disabled.
THEOREM UnrollPointers ==
  ASSUME NEW n \in Nat \ {0}
  PROVE  /\ previousData(n, data_log_pointer(n)) = data_log_pointer(n - 1)
         /\ previousAddr(n, data_log_pointer(n), addr_log_pointer(n))
              = addr_log_pointer(n - 1)
<1>1. LOG_PAGE_SIZE \in Nat \ {0} /\ LOG_CACHE_BLOCK_SIZE \in Nat \ {0}
      /\ LOG_ENTRIES_PER_PAGE \in Nat \ {0}
  BY Zenon, LayoutAssumption
<1>2. PICK q \in Nat, r \in 0 .. LOG_ENTRIES_PER_PAGE - 1 :
        /\ n = (LOG_ENTRIES_PER_PAGE * q) + r
        /\ data_log_pointer(n) = (LOG_PAGE_SIZE * q) + (r * LOG_CACHE_BLOCK_SIZE)
        /\ addr_log_pointer(n) = (LOG_PAGE_SIZE * q) + (LOG_PAGE_SIZE - (r + 1))
        /\ GET_PAGE_OFFSET(data_log_pointer(n)) = r * LOG_CACHE_BLOCK_SIZE
  BY Zenon, Entry
<1>3. CASE r = 0
  BY <1>1, <1>2, <1>3 DEF previousData, previousAddr
<1>4. CASE r # 0
  <2>1. r - 1 \in 0 .. LOG_ENTRIES_PER_PAGE - 1
        /\ n - 1 = (LOG_ENTRIES_PER_PAGE * q) + (r - 1)
    BY <1>1, <1>2, <1>4
  <2>2. (n - 1) \div LOG_ENTRIES_PER_PAGE = q /\ (n - 1) % LOG_ENTRIES_PER_PAGE = r - 1
    BY Zenon, <2>1, <1>1, DivModUnique
  <2>3. r * LOG_CACHE_BLOCK_SIZE # 0
        /\ (r - 1) * LOG_CACHE_BLOCK_SIZE
             = (r * LOG_CACHE_BLOCK_SIZE) - LOG_CACHE_BLOCK_SIZE
        /\ r * LOG_CACHE_BLOCK_SIZE \in Int /\ LOG_PAGE_SIZE * q \in Int
        /\ q * LOG_PAGE_SIZE = LOG_PAGE_SIZE * q
    BY <1>1, <1>4
  <2>4. data_log_pointer(n - 1)
          = (LOG_PAGE_SIZE * q) + ((r * LOG_CACHE_BLOCK_SIZE) - LOG_CACHE_BLOCK_SIZE)
    BY Zenon, <2>2, <2>3 DEF data_log_pointer
  <2>5. addr_log_pointer(n - 1) = (LOG_PAGE_SIZE * q) + (LOG_PAGE_SIZE - r)
    BY <2>2, <2>3 DEF addr_log_pointer
  <2>6. previousData(n, data_log_pointer(n))
          = ((LOG_PAGE_SIZE * q) + (r * LOG_CACHE_BLOCK_SIZE)) - LOG_CACHE_BLOCK_SIZE
    BY Zenon, <1>2, <2>3 DEF previousData
  <2>7. previousAddr(n, data_log_pointer(n), addr_log_pointer(n))
          = ((LOG_PAGE_SIZE * q) + (LOG_PAGE_SIZE - (r + 1))) + 1
    BY Zenon, <1>2, <2>3 DEF previousAddr
  <2> QED
    BY <1>1, <2>3, <2>4, <2>5, <2>6, <2>7
<1> QED
  BY Zenon, <1>3, <1>4

\* The address area of entry n lies above every block of its page.
LEMMA EntryBounds ==
  ASSUME NEW q \in Nat, NEW r \in 0 .. LOG_ENTRIES_PER_PAGE - 1
  PROVE  /\ r * LOG_CACHE_BLOCK_SIZE \in Nat
         /\ (r * LOG_CACHE_BLOCK_SIZE) + LOG_CACHE_BLOCK_SIZE
              <= LOG_PAGE_SIZE - LOG_ENTRIES_PER_PAGE
         /\ LOG_PAGE_SIZE - (r + 1) \in
              LOG_PAGE_SIZE - LOG_ENTRIES_PER_PAGE .. LOG_PAGE_SIZE - 1
<1>1. LOG_PAGE_SIZE \in Nat \ {0} /\ LOG_CACHE_BLOCK_SIZE \in Nat \ {0}
      /\ LOG_ENTRIES_PER_PAGE \in Nat \ {0}
  BY Zenon, LayoutAssumption
<1> DEFINE x == r * LOG_CACHE_BLOCK_SIZE
           y == LOG_ENTRIES_PER_PAGE * LOG_CACHE_BLOCK_SIZE
<1>2. x \in Nat /\ y \in Nat /\ x + LOG_CACHE_BLOCK_SIZE <= y
      /\ y + LOG_ENTRIES_PER_PAGE <= LOG_PAGE_SIZE
  BY Zenon, Slot
<1> HIDE DEF x, y
<1>3. x \in Nat /\ x + LOG_CACHE_BLOCK_SIZE <= LOG_PAGE_SIZE - LOG_ENTRIES_PER_PAGE
  BY <1>1, <1>2
<1>4. LOG_PAGE_SIZE - (r + 1) \in
        LOG_PAGE_SIZE - LOG_ENTRIES_PER_PAGE .. LOG_PAGE_SIZE - 1
  BY <1>1
<1> QED
  BY Zenon, <1>3, <1>4 DEF x

\* Words of different pages differ.
LEMMA PagesDisjoint ==
  ASSUME NEW d \in Nat \ {0}, NEW q \in Nat, NEW s \in Nat,
         NEW x \in 0 .. d - 1, NEW y \in 0 .. d - 1,
         (d * q) + x = (d * s) + y
  PROVE  q = s /\ x = y
<1>1. ((d * q) + x) \div d = q /\ ((d * q) + x) % d = x
  BY Zenon, DivModUnique
<1>2. ((d * s) + y) \div d = s /\ ((d * s) + y) % d = y
  BY Zenon, DivModUnique
<1> QED
  BY Zenon, <1>1, <1>2

\* A word of an entry's block: its page and its place in the page.
LEMMA BlockWord ==
  ASSUME NEW n \in Nat, NEW q \in Nat, NEW r \in 0 .. LOG_ENTRIES_PER_PAGE - 1,
         data_log_pointer(n) = (LOG_PAGE_SIZE * q) + (r * LOG_CACHE_BLOCK_SIZE),
         NEW w \in DataWords(data_log_pointer(n))
  PROVE  \E k \in 0 .. LOG_CACHE_BLOCK_SIZE - 1 :
           /\ w = (LOG_PAGE_SIZE * q) + ((LOG_CACHE_BLOCK_SIZE * r) + k)
           /\ (LOG_CACHE_BLOCK_SIZE * r) + k
                \in 0 .. (LOG_PAGE_SIZE - LOG_ENTRIES_PER_PAGE) - 1
<1> DEFINE k == w - data_log_pointer(n)
           x == LOG_CACHE_BLOCK_SIZE * r
           y == LOG_PAGE_SIZE * q
<1>1. LOG_PAGE_SIZE \in Nat \ {0} /\ LOG_CACHE_BLOCK_SIZE \in Nat \ {0}
      /\ LOG_ENTRIES_PER_PAGE \in Nat \ {0}
  BY Zenon, LayoutAssumption
<1>2. x = r * LOG_CACHE_BLOCK_SIZE /\ x \in Nat /\ y \in Nat
  BY <1>1
<1>3. x + LOG_CACHE_BLOCK_SIZE <= LOG_PAGE_SIZE - LOG_ENTRIES_PER_PAGE
  BY Zenon, <1>2, EntryBounds
<1>4. data_log_pointer(n) = y + x
  BY Zenon, <1>2
<1>5. k \in 0 .. LOG_CACHE_BLOCK_SIZE - 1 /\ w = data_log_pointer(n) + k
  BY <1>1, <1>2, <1>4 DEF DataWords
<1> HIDE DEF k, x, y
<1>6. w = y + (x + k) /\ x + k \in 0 .. (LOG_PAGE_SIZE - LOG_ENTRIES_PER_PAGE) - 1
  BY <1>1, <1>2, <1>3, <1>4, <1>5
<1> QED
  BY Zenon, <1>5, <1>6 DEF x, y

\* The entries of the log do not overlap: no block shares a word with another
\* entry's block or with an address ("They should never meet!",
\* logtm_compute_addr_ptr_from_data_ptr, and the panic "address log should
\* never overlap with data log" of buildLogPackets).
THEOREM EntriesDisjoint ==
  ASSUME NEW m \in Nat, NEW n \in Nat
  PROVE  /\ addr_log_pointer(m) \notin DataWords(data_log_pointer(n))
         /\ m # n => /\ addr_log_pointer(m) # addr_log_pointer(n)
                     /\ DataWords(data_log_pointer(m))
                          \cap DataWords(data_log_pointer(n)) = {}
<1> DEFINE P == LOG_PAGE_SIZE
           B == LOG_CACHE_BLOCK_SIZE
           E == LOG_ENTRIES_PER_PAGE
<1>1. P \in Nat \ {0} /\ B \in Nat \ {0} /\ E \in Nat \ {0}
  BY Zenon, LayoutAssumption
<1>2. PICK q \in Nat, r \in 0 .. E - 1 :
        /\ m = (E * q) + r
        /\ data_log_pointer(m) = (P * q) + (r * B)
        /\ addr_log_pointer(m) = (P * q) + (P - (r + 1))
  BY Zenon, Entry
<1>3. PICK s \in Nat, t \in 0 .. E - 1 :
        /\ n = (E * s) + t
        /\ data_log_pointer(n) = (P * s) + (t * B)
        /\ addr_log_pointer(n) = (P * s) + (P - (t + 1))
  BY Zenon, Entry
<1>4. E <= P
  <2>1. (0 * B) + B <= P - E /\ 0 * B \in Nat
    BY <1>1, EntryBounds
  <2> QED
    BY <2>1, <1>1
<1>5. P - (r + 1) \in P - E .. P - 1 /\ P - (r + 1) \in 0 .. P - 1
      /\ P - (t + 1) \in 0 .. P - 1
  BY <1>1, <1>2, <1>3, <1>4
<1>6. addr_log_pointer(m) \notin DataWords(data_log_pointer(n))
  <2> SUFFICES ASSUME addr_log_pointer(m) \in DataWords(data_log_pointer(n))
               PROVE  FALSE
    OBVIOUS
  <2>1. PICK k \in 0 .. B - 1 :
          /\ addr_log_pointer(m) = (P * s) + ((B * t) + k)
          /\ (B * t) + k \in 0 .. (P - E) - 1
    BY <1>3, BlockWord
  <2> DEFINE x == P - (r + 1)
             z == (B * t) + k
  <2>2. x \in P - E .. P - 1 /\ x \in 0 .. P - 1
    BY Zenon, <1>5
  <2>3. z \in 0 .. P - 1 /\ z \in 0 .. (P - E) - 1
        /\ (P * q) + x = (P * s) + z
    BY <1>1, <1>2, <1>4, <2>1
  <2> HIDE DEF x, z, P, B, E
  <2>4. x = z
    BY <2>2, <2>3, <1>1, PagesDisjoint
  <2> QED
    BY <2>2, <2>3, <2>4, <1>1
<1>7. ASSUME addr_log_pointer(m) = addr_log_pointer(n) PROVE m = n
  <2> HIDE DEF P, B, E
  <2>a. (P * q) + (P - (r + 1)) = (P * s) + (P - (t + 1))
    BY Zenon, <1>2, <1>3, <1>7
  <2> DEFINE x == P - (r + 1)
             y == P - (t + 1)
  <2>b. x \in 0 .. P - 1 /\ y \in 0 .. P - 1 /\ (P * q) + x = (P * s) + y
    BY Zenon, <2>a, <1>5
  <2> HIDE DEF x, y
  <2>c. q = s /\ x = y
    BY <2>b, <1>1, PagesDisjoint
  <2>1. q = s /\ P - (r + 1) = P - (t + 1)
    BY Zenon, <2>c DEF x, y
  <2>2. r = t
    BY <2>1, <1>1
  <2> QED
    BY Zenon, <2>1, <2>2, <1>2, <1>3
<1>8. ASSUME NEW w \in DataWords(data_log_pointer(m)),
             w \in DataWords(data_log_pointer(n))
      PROVE  m = n
  <2>1. PICK j \in 0 .. B - 1 : /\ w = (P * q) + ((B * r) + j)
                                /\ (B * r) + j \in 0 .. (P - E) - 1
    BY <1>2, BlockWord
  <2>2. PICK k \in 0 .. B - 1 : /\ w = (P * s) + ((B * t) + k)
                                /\ (B * t) + k \in 0 .. (P - E) - 1
    BY <1>3, <1>8, BlockWord
  <2> HIDE DEF P, B, E
  <2>3. (B * r) + j \in 0 .. P - 1 /\ (B * t) + k \in 0 .. P - 1
    BY <2>1, <2>2, <1>1, <1>4
  <2> DEFINE x == (B * r) + j
             y == (B * t) + k
  <2>a. x \in 0 .. P - 1 /\ y \in 0 .. P - 1 /\ (P * q) + x = (P * s) + y
    BY Zenon, <2>1, <2>2, <2>3
  <2> HIDE DEF x, y
  <2>b. q = s /\ x = y
    BY <2>a, <1>1, PagesDisjoint
  <2>4. q = s /\ (B * r) + j = (B * t) + k
    BY Zenon, <2>b DEF x, y
  <2>5. r = t
    BY <2>4, <1>1, PagesDisjoint
  <2> QED
    BY Zenon, <2>4, <2>5, <1>2, <1>3
<1> QED
  BY Zenon, <1>6, <1>7, <1>8

\* A slot of a page that exists lies in the log.
LEMMA PageWithin ==
  ASSUME NEW d \in Nat, NEW q \in Nat, NEW m \in Nat, q < m
  PROVE  (d * q) + d <= m * d
<1>1. PICK k \in Nat : m = (q + 1) + k
  <2>1. m - (q + 1) \in Nat /\ m = (q + 1) + (m - (q + 1))
    OBVIOUS
  <2> QED
    BY Zenon, <2>1
<1>2. m * d = (d * q) + d + (d * k) /\ d * k \in Nat
  BY <1>1
<1> QED
  BY <1>2

\* The words of an entry are words of the log.
LEMMA EntryWithinLog ==
  ASSUME NEW n \in 0 .. LogEntries - 1
  PROVE  /\ addr_log_pointer(n) \in 0 .. MAX_LOG_SIZE_PAGES * LOG_PAGE_SIZE - 1
         /\ data_log_pointer(n) \in 0 .. MAX_LOG_SIZE_PAGES * LOG_PAGE_SIZE - 1
         /\ data_log_pointer(n) \in DataWords(data_log_pointer(n))
<1> DEFINE P == LOG_PAGE_SIZE
           E == LOG_ENTRIES_PER_PAGE
           M == MAX_LOG_SIZE_PAGES
<1>0. P \in Nat \ {0} /\ E \in Nat \ {0} /\ M \in Nat \ {0} /\ E <= P
      /\ LOG_CACHE_BLOCK_SIZE \in Nat \ {0} /\ M * E \in Nat /\ M * P \in Nat
  BY LayoutAssumption
<1>1. n \in Nat /\ n < M * E
  BY <1>0 DEF LogEntries
<1>2. PICK q \in Nat, r \in 0 .. E - 1 :
        /\ n = (E * q) + r
        /\ data_log_pointer(n) = (P * q) + (r * LOG_CACHE_BLOCK_SIZE)
        /\ addr_log_pointer(n) = (P * q) + (P - (r + 1))
        /\ r * LOG_CACHE_BLOCK_SIZE \in 0 .. P - 1
  BY Zenon, <1>1, Entry
<1>3. q < M
  <2> SUFFICES ASSUME M <= q
               PROVE  FALSE
    BY <1>0
  <2>1. PICK k \in Nat : q = M + k
    <3>1. q - M \in Nat /\ q = M + (q - M)
      BY <1>0
    <3> QED
      BY Zenon, <3>1
  <2>2. E * q = (M * E) + (E * k) /\ E * k \in Nat
    BY <1>0, <2>1
  <2> QED
    BY <1>0, <1>1, <1>2, <2>2
<1>4. (P * q) + P <= M * P
  BY Zenon, <1>0, <1>3, PageWithin
<1>5. P * q \in Nat
  BY <1>0
<1> HIDE DEF P, E, M
<1>6. /\ addr_log_pointer(n) \in 0 .. (M * P) - 1
      /\ data_log_pointer(n) \in 0 .. (M * P) - 1
  BY <1>0, <1>2, <1>4, <1>5
<1>7. data_log_pointer(n) \in DataWords(data_log_pointer(n))
  BY <1>0, <1>2, <1>5 DEF DataWords
<1> QED
  BY Zenon, <1>6, <1>7 DEF M, P

-----------------------------------------------------------------------------
(* The control of LogTM is that of StallConflict                           *)

\* Every step with data is a step of the conflict manager or none.
LEMMA ControlOfData ==
  ASSUME TypeOK, NEW p \in Proc, DataStep(p)
  PROVE  Step(p) \/ UNCHANGED vars
<1>1. CASE ControlStep(p)
  BY Zenon, <1>1 DEF ControlStep, Step
<1>2. CASE commit(p) \/ abort(p) \/ simEndLogUnroll(p)
  BY Zenon, <1>2 DEF commit, abort, simEndLogUnroll, Step
<1>3. CASE logtm_log_unroll(p)
  <2>1. issueRestore(p, log[p][addr_log_ptr[p]])
    BY Zenon, <1>3 DEF logtm_log_unroll
  <2>2. log[p][addr_log_ptr[p]] \in Addr
    BY Zenon, <2>1 DEF issueRestore, TypeOK
  <2> QED
    BY Zenon, <2>1, <2>2 DEF Step
<1>4. ASSUME NEW a \in Addr,
             issueLoad(p, a) \/ issueStore(p, a) \/ issueOutside(p, a)
      PROVE  Step(p)
  BY Zenon, <1>4, LogAssumption DEF issueLoad, issueStore, issueOutside, Step
<1>5. ASSUME NEW a \in Addr, NEW v \in Val,
             \/ loadCallback(p, a) \/ logTransactionalStores(p, a)
             \/ outsideStore(p, a, v) \/ restored(p, a)
      PROVE  Step(p)
  BY Zenon, <1>5
  DEF loadCallback, logTransactionalStores, outsideStore, restored, Step
<1>6. ASSUME NEW a \in Addr, NEW v \in Val, NEW part \in {"addr", "data"},
             handleStoresToLog(p, a, part) \/ storeHit(p, a, v)
      PROVE  UNCHANGED vars
  BY Zenon, <1>6 DEF handleStoresToLog, storeHit
<1> QED
  BY Zenon, <1>1, <1>2, <1>3, <1>4, <1>5, <1>6, ValAssumption DEF DataStep

\* The control of LogTM with data is that of StallConflict: what is proved of
\* the conflict manager holds here (every handler of LogData calls one of the
\* conflict manager's or leaves it alone).
THEOREM DataRefinesControl == DataSpec => Spec
<1>1. DataInit => Init /\ TypeOK
  BY Zenon, InitInv DEF DataInit, UInv
<1>2. TypeOK /\ [DataNext]_<<vars, dataVars>> => [Next]_vars
  BY Zenon, ControlOfData DEF DataNext, Next
<1>3. TypeOK /\ [Next]_vars => TypeOK'
  <2>1. ASSUME TypeOK, Next
        PROVE  TypeOK'
    BY Zenon, <2>1, TypeStep DEF Next
  <2>2. ASSUME TypeOK, UNCHANGED vars
        PROVE  TypeOK'
    BY Zenon, <2>2 DEF vars, tsVars, logVars, setVars, TypeOK
  <2> QED
    BY Zenon, <2>1, <2>2
<1> QED
  BY <1>1, <1>2, <1>3, PTL DEF DataSpec, Spec

-----------------------------------------------------------------------------
(* Requests that can be issued                                             *)

\* The blocks with a request or a log store, the log packets on their way, and
\* the entries that they and the reservations take together.
Held(p) == {a \in Addr : req[p][a] # None \/ logReq[p][a] # None}

Packets(p) ==
  {s \in Addr \X {"addr", "data"} :
     logReq[p][s[1]] # None /\ s[2] \in logReq[p][s[1]].left}

Count(H, K, P) == Cardinality(H) + Cardinality(K) + 2 * Cardinality(P)

Charge(p) == Count(Held(p), Packets(p), pendingLogging(p))

Charged == \A p \in Proc : Charge(p) <= MaxOutstanding[p]

\* What is used of the sizes of the sets of blocks and of log packets.
CountsIn(U) ==
  \A S \in SUBSET U :
    /\ Cardinality(S) \in Nat
    /\ \A T \in SUBSET S : Cardinality(T) <= Cardinality(S)
    /\ \A x \in U \ S : Cardinality(S \cup {x}) = Cardinality(S) + 1

CountFacts ==
  /\ Cardinality({}) = 0
  /\ CountsIn(Addr) /\ CountsIn(Addr \X {"addr", "data"})

\* Sizes are numbers.
LEMMA CountType ==
  ASSUME CountFacts, NEW H \in SUBSET Addr, NEW P \in SUBSET Addr,
         NEW K \in SUBSET (Addr \X {"addr", "data"})
  PROVE  /\ Cardinality(H) \in Nat /\ Cardinality(K) \in Nat
         /\ Cardinality(P) \in Nat
BY Zenon DEF CountFacts, CountsIn

\* The count does not grow with smaller sets.
LEMMA CountShrinks ==
  ASSUME CountFacts, NEW H \in SUBSET Addr, NEW P \in SUBSET Addr,
         NEW K \in SUBSET (Addr \X {"addr", "data"}),
         NEW H2 \in SUBSET H, NEW K2 \in SUBSET K, NEW P2 \in SUBSET P
  PROVE  Count(H2, K2, P2) <= Count(H, K, P)
<1>1. /\ Cardinality(H2) <= Cardinality(H) /\ Cardinality(K2) <= Cardinality(K)
      /\ Cardinality(P2) <= Cardinality(P)
  BY Zenon DEF CountFacts, CountsIn
<1>2. /\ Cardinality(H) \in Nat /\ Cardinality(K) \in Nat
      /\ Cardinality(P) \in Nat
  BY Zenon, CountType
<1>3. /\ Cardinality(H2) \in Nat /\ Cardinality(K2) \in Nat
      /\ Cardinality(P2) \in Nat
  <2>1. /\ H2 \in SUBSET Addr /\ P2 \in SUBSET Addr
        /\ K2 \in SUBSET (Addr \X {"addr", "data"})
    OBVIOUS
  <2> QED
    BY Zenon, <2>1, CountType
<1> QED
  BY <1>1, <1>2, <1>3 DEF Count

\* The sets that a core's charge counts, and what the sequencer makes of it.
LEMMA ChargeSets ==
  ASSUME CountFacts, NEW p \in Proc
  PROVE  /\ Held(p) \in SUBSET Addr /\ pendingLogging(p) \in SUBSET Addr
         /\ Packets(p) \in SUBSET (Addr \X {"addr", "data"})
         /\ Held(p)' \in SUBSET Addr /\ pendingLogging(p)' \in SUBSET Addr
         /\ Packets(p)' \in SUBSET (Addr \X {"addr", "data"})
         /\ Charge(p) \in Nat
         /\ \A extra \in Int :
              canMakeRequest(p, extra) <=> Charge(p) + extra < MaxOutstanding[p]
<1>1. /\ Held(p) \in SUBSET Addr /\ pendingLogging(p) \in SUBSET Addr
      /\ Packets(p) \in SUBSET (Addr \X {"addr", "data"})
      /\ Held(p)' \in SUBSET Addr /\ pendingLogging(p)' \in SUBSET Addr
      /\ Packets(p)' \in SUBSET (Addr \X {"addr", "data"})
  BY Zenon DEF Held, pendingLogging, Packets
<1>2. Charge(p) \in Nat
  <2>1. /\ Cardinality(Held(p)) \in Nat /\ Cardinality(Packets(p)) \in Nat
        /\ Cardinality(pendingLogging(p)) \in Nat
    BY Zenon, <1>1, CountType
  <2> QED
    BY <2>1 DEF Charge, Count
<1>3. \A extra \in Int :
        canMakeRequest(p, extra) <=> Charge(p) + extra < MaxOutstanding[p]
  BY Zenon DEF canMakeRequest, outstanding_count, logReservation, Charge, Count,
         Held, Packets
<1> QED
  BY Zenon, <1>1, <1>2, <1>3

\* A core whose sets do not grow keeps within its sequencer.
LEMMA ChargeShrinks ==
  ASSUME CountFacts, Charged, NEW p \in Proc, Held(p)' \subseteq Held(p),
         Packets(p)' \subseteq Packets(p),
         pendingLogging(p)' \subseteq pendingLogging(p)
  PROVE  Charge(p)' <= MaxOutstanding[p]
<1>1. Charge(p)' <= Charge(p)
  BY Zenon, ChargeSets, CountShrinks DEF Charge
<1>2. Charge(p)' \in Nat
  <2>1. /\ Cardinality(Held(p)') \in Nat /\ Cardinality(Packets(p)') \in Nat
        /\ Cardinality(pendingLogging(p)') \in Nat
    BY Zenon, ChargeSets, CountType
  <2> QED
    BY <2>1 DEF Charge, Count
<1> QED
  BY <1>1, <1>2, ChargeSets, LogAssumption DEF Charged

\* What a step does not change of core q.
ControlStands(q) ==
  /\ inTx'[q] = inTx[q] /\ abortFlag'[q] = abortFlag[q]
  /\ unrolling'[q] = unrolling[q] /\ toRestore'[q] = toRestore[q]
  /\ readSet'[q] = readSet[q] /\ writeSet'[q] = writeSet[q]
  /\ req'[q] = req[q]

DataStands(q) ==
  /\ log'[q] = log[q] /\ logNumEntries'[q] = logNumEntries[q]
  /\ logReq'[q] = logReq[q] /\ logSize'[q] = logSize[q]
  /\ data_log_ptr'[q] = data_log_ptr[q]
  /\ addr_log_ptr'[q] = addr_log_ptr[q]
  /\ loaded'[q] = loaded[q] /\ stored'[q] = stored[q]
  /\ outcome'[q] = outcome[q]

\* A step of one core leaves the state of the others alone.
LEMMA OthersStand ==
  ASSUME TypeOK, DataTypeOK, NEW p \in Proc, DataStep(p), NEW q \in Proc, q # p
  PROVE  ControlStands(q) /\ DataStands(q)
<1>1. ControlStands(q)
  <2> USE DEF ControlStands
  <2>1. CASE UNCHANGED vars
    BY Zenon, <2>1 DEF vars, logVars, setVars
  <2>2. CASE beginTransaction(p) \/ commitTransaction(p) \/ endLogUnroll(p)
    BY <2>2
    DEF beginTransaction, commitTransaction, endLogUnroll, TypeOK, logVars,
        setVars
  <2>3. CASE abortTransaction(p)
    BY Zenon, <2>3 DEF abortTransaction, TypeOK
  <2>4. ASSUME NEW a \in Addr, NEW kind \in Kinds,
               \/ issueRequest(p, a, kind) \/ issueNonTransactional(p, a, kind)
               \/ issueRestore(p, a) \/ serveRequest(p, a)
        PROVE  ControlStands(q)
    BY Zenon, <2>4
    DEF issueRequest, issueNonTransactional, issueRestore, serveRequest, TypeOK,
        logVars, setVars
  <2>5. ASSUME NEW a \in Addr,
               answer(p, a) \/ receiveNack(p, a) \/ xactReplacement(p, a)
        PROVE  ControlStands(q)
    <3>1. CASE answer(p, a)
      <4>1. UNCHANGED <<inTx, logVars, setVars, req>>
        BY Zenon, <3>1 DEF answer
      <4>2. abortFlag \in [Proc -> BOOLEAN]
        BY Zenon DEF TypeOK
      <4>3. PICK b : abortFlag' = [abortFlag EXCEPT ![p] = @ \/ b]
        BY Zenon, <3>1 DEF answer
      <4> QED
        BY Zenon, <4>1, <4>2, <4>3 DEF logVars, setVars
    <3>2. CASE receiveNack(p, a) \/ xactReplacement(p, a)
      BY <3>2 DEF receiveNack, xactReplacement, TypeOK, logVars, setVars
    <3> QED
      BY Zenon, <2>5, <3>1, <3>2
  <2>6. ASSUME NEW a \in Addr, receiveData(p, a)
        PROVE  ControlStands(q)
    BY Zenon, <2>6 DEF receiveData, TypeOK
  <2> QED
    BY Zenon, <2>1, <2>2, <2>3, <2>4, <2>5, <2>6, ControlOfData, LogAssumption
    DEF Step
<1>2. DataStands(q)
  <2> USE DEF dataVars, undoVars, unrollVars, txVars, DataTypeOK, DataStands
  <2>1. CASE UNCHANGED dataVars
    BY Zenon, <2>1
  <2>2. CASE commit(p) \/ abort(p) \/ simEndLogUnroll(p)
    BY <2>2 DEF commit, abort, simEndLogUnroll
  <2>3. ASSUME NEW a \in Addr,
               loadCallback(p, a) \/ logTransactionalStores(p, a)
        PROVE  DataStands(q)
    BY Zenon, <2>3 DEF loadCallback, logTransactionalStores
  <2>4. ASSUME NEW a \in Addr, NEW part \in {"addr", "data"},
               handleStoresToLog(p, a, part)
        PROVE  DataStands(q)
    <3>1. logReq'[q] = logReq[q] /\ stored'[q] = stored[q]
      BY Zenon, <2>4 DEF handleStoresToLog
    <3>2. log'[q] = log[q]
      BY Zenon, <2>4 DEF handleStoresToLog
    <3> QED
      BY Zenon, <2>4, <3>1, <3>2 DEF handleStoresToLog
  <2>5. ASSUME NEW a \in Addr, NEW v \in Val,
               storeHit(p, a, v) \/ outsideStore(p, a, v)
        PROVE  DataStands(q)
    BY Zenon, <2>5 DEF storeHit, outsideStore
  <2>6. ASSUME NEW a \in Addr, restored(p, a)
        PROVE  DataStands(q)
    BY Zenon, <2>6 DEF restored
  <2> QED
    BY Zenon, <2>1, <2>2, <2>3, <2>4, <2>5, <2>6
    DEF DataStep, ControlStep, logtm_log_unroll, issueLoad, issueStore,
        issueOutside
<1> QED
  BY Zenon, <1>1, <1>2

\* A set with one more element.
LEMMA OneMore ==
  ASSUME NEW U, CountsIn(U), NEW S \in SUBSET U, NEW x \in U
  PROVE  /\ S \cup {x} \in SUBSET U
         /\ Cardinality(S) \in Nat /\ Cardinality(S \cup {x}) \in Nat
         /\ Cardinality(S \cup {x}) <= Cardinality(S) + 1
<1>1. S \cup {x} \in SUBSET U
  OBVIOUS
<1>2. Cardinality(S) \in Nat /\ Cardinality(S \cup {x}) \in Nat
  BY Zenon, <1>1 DEF CountsIn
<1>3. CASE x \in S
  <2>1. S \cup {x} = S
    BY Zenon, <1>3
  <2> QED
    BY <1>1, <1>2, <2>1
<1>4. CASE x \notin S
  <2>1. Cardinality(S \cup {x}) = Cardinality(S) + 1
    BY Zenon, <1>4 DEF CountsIn
  <2> QED
    BY <1>1, <1>2, <2>1
<1> QED
  BY Zenon, <1>3, <1>4

\* A core that issues a request, of the kind that is logged (n = 1) or not,
\* keeps within its sequencer.
LEMMA ChargeIssued ==
  ASSUME CountFacts, TypeOK, Charged, NEW p \in Proc, NEW a \in Addr,
         NEW r \in Requests, req[p][a] = None, req' = [req EXCEPT ![p][a] = r], logReq' = logReq,
         canMakeRequest(p, IF r.kind = "GETX" /\ r.trans THEN 2 ELSE 0)
  PROVE  Charge(p)' <= MaxOutstanding[p]
<1> DEFINE H == Held(p)
           K == Packets(p)
           P == pendingLogging(p)
           logged == r.kind = "GETX" /\ r.trans
<1>1. /\ H \in SUBSET Addr /\ P \in SUBSET Addr
      /\ K \in SUBSET (Addr \X {"addr", "data"})
      /\ Charge(p) \in Nat
      /\ Charge(p) + (IF logged THEN 2 ELSE 0) < MaxOutstanding[p]
  BY ChargeSets
<1>2. \A b \in Addr : req'[p][b] = IF b = a THEN r ELSE req[p][b]
  BY Zenon DEF TypeOK
<1>3. Held(p)' \subseteq H \cup {a} /\ Packets(p)' = K
  BY Zenon, <1>2 DEF Held, Packets
<1>4. pendingLogging(p)' \subseteq IF logged THEN P \cup {a} ELSE P
  BY Zenon, <1>2 DEF pendingLogging
<1>5. /\ Cardinality(H) \in Nat /\ Cardinality(K) \in Nat
      /\ Cardinality(P) \in Nat
  BY Zenon, <1>1, CountType
<1>6. /\ Cardinality(H \cup {a}) <= Cardinality(H) + 1
      /\ Cardinality(P \cup {a}) <= Cardinality(P) + 1
      /\ Cardinality(H \cup {a}) \in Nat /\ Cardinality(P \cup {a}) \in Nat
  <2>1. CountsIn(Addr)
    BY Zenon DEF CountFacts
  <2> HIDE DEF H, P
  <2> QED
    BY Zenon, <1>1, <2>1, OneMore
<1>7. H \cup {a} \in SUBSET Addr /\ P \cup {a} \in SUBSET Addr
  BY Zenon, <1>1
<1>9. Charge(p)' <= Count(H \cup {a}, K, IF logged THEN P \cup {a} ELSE P)
  BY Zenon, <1>1, <1>3, <1>4, <1>7, ChargeSets, CountShrinks DEF Charge
<1>10. Charge(p)' \in Nat
  <2>1. /\ Cardinality(Held(p)') \in Nat /\ Cardinality(Packets(p)') \in Nat
        /\ Cardinality(pendingLogging(p)') \in Nat
    BY Zenon, ChargeSets, CountType
  <2> QED
    BY <2>1 DEF Charge, Count
<1>11. Charge(p) = Cardinality(H) + Cardinality(K) + 2 * Cardinality(P)
  BY Zenon DEF Charge, Count
<1>12. MaxOutstanding[p] \in Nat
  BY Zenon, LogAssumption
<1> HIDE DEF H, K, P, logged
<1>13. CASE logged
  BY <1>1, <1>5, <1>6, <1>9, <1>10, <1>11, <1>12, <1>13 DEF Count
<1>14. CASE ~logged
  BY <1>1, <1>5, <1>6, <1>9, <1>10, <1>11, <1>12, <1>14 DEF Count
<1> QED
  BY Zenon, <1>13, <1>14

\* The two log packets take the entries that their store has reserved.
LEMMA ChargeLogged ==
  ASSUME CountFacts, TypeOK, DataTypeOK, Serving, Charged, NEW p \in Proc,
         NEW a \in Addr, logTransactionalStores(p, a)
  PROVE  Charge(p)' <= MaxOutstanding[p]
<1> DEFINE H == Held(p)
           K == Packets(p)
           P == pendingLogging(p)
<1>1. /\ H \in SUBSET Addr /\ P \in SUBSET Addr
      /\ K \in SUBSET (Addr \X {"addr", "data"})
  BY Zenon, ChargeSets
<1>2. /\ req[p][a] # None /\ req[p][a].kind = "GETX" /\ req[p][a].trans
  BY Zenon DEF logTransactionalStores, receiveData, Answered, Serving
<1>3. \A b \in Addr : req'[p][b] = IF b = a THEN None ELSE req[p][b]
  BY Zenon DEF logTransactionalStores, receiveData, TypeOK
<1>4. \A b \in Addr : b # a => logReq'[p][b] = logReq[p][b]
  BY Zenon DEF logTransactionalStores, DataTypeOK
<1>5. Held(p)' \subseteq H /\ pendingLogging(p)' = P \ {a} /\ a \in P
  BY Zenon, <1>2, <1>3, <1>4 DEF Held, pendingLogging
<1>6. Packets(p)' \subseteq (K \cup {<<a, "addr">>}) \cup {<<a, "data">>}
  BY <1>4 DEF Packets
<1>7. /\ Cardinality(H) \in Nat /\ Cardinality(K) \in Nat
      /\ Cardinality(P) \in Nat
  BY Zenon, <1>1, CountType
<1> DEFINE K1 == K \cup {<<a, "addr">>}
           K2 == K1 \cup {<<a, "data">>}
<1>8. K1 \in SUBSET (Addr \X {"addr", "data"})
      /\ K2 \in SUBSET (Addr \X {"addr", "data"})
  BY <1>1
<1>9. CountsIn(Addr) /\ CountsIn(Addr \X {"addr", "data"})
  BY Zenon DEF CountFacts
<1>10. /\ Cardinality(K1) \in Nat /\ Cardinality(K2) \in Nat
       /\ Cardinality(K1) <= Cardinality(K) + 1
       /\ Cardinality(K2) <= Cardinality(K1) + 1
  <2>1. /\ <<a, "addr">> \in Addr \X {"addr", "data"}
        /\ <<a, "data">> \in Addr \X {"addr", "data"}
    OBVIOUS
  <2>2. Cardinality(K1) \in Nat /\ Cardinality(K1) <= Cardinality(K) + 1
    <3> HIDE DEF K
    <3> QED
      BY <1>1, <1>9, <2>1, OneMore
  <2>3. Cardinality(K2) \in Nat /\ Cardinality(K2) <= Cardinality(K1) + 1
    <3> HIDE DEF K1
    <3> QED
      BY <1>8, <1>9, <2>1, OneMore
  <2> QED
    BY Zenon, <2>2, <2>3
<1>12. Cardinality(P \ {a}) \in Nat /\ Cardinality(P) = Cardinality(P \ {a}) + 1
  <2>1. /\ P \ {a} \in SUBSET Addr /\ a \in Addr \ (P \ {a})
        /\ (P \ {a}) \cup {a} = P
    BY Zenon, <1>1, <1>5
  <2> HIDE DEF P
  <2>2. Cardinality((P \ {a}) \cup {a}) = Cardinality(P \ {a}) + 1
    BY Zenon, <1>9, <2>1 DEF CountsIn
  <2>3. Cardinality(P \ {a}) \in Nat
    BY Zenon, <1>9, <2>1 DEF CountsIn
  <2> QED
    BY Zenon, <2>1, <2>2, <2>3
<1>13. Charge(p)' <= Count(H, K2, P \ {a})
  <2>1. P \ {a} \in SUBSET Addr /\ Packets(p)' \subseteq K2
    BY Zenon, <1>1, <1>6
  <2> HIDE DEF K2
  <2> QED
    BY Zenon, <1>1, <1>5, <1>8, <2>1, ChargeSets, CountShrinks DEF Charge
<1>14. Charge(p)' \in Nat
  <2>1. /\ Cardinality(Held(p)') \in Nat /\ Cardinality(Packets(p)') \in Nat
        /\ Cardinality(pendingLogging(p)') \in Nat
    BY Zenon, ChargeSets, CountType
  <2> QED
    BY <2>1 DEF Charge, Count
<1>15. Charge(p) = Cardinality(H) + Cardinality(K) + 2 * Cardinality(P)
  BY Zenon DEF Charge, Count
<1>16. MaxOutstanding[p] \in Nat /\ Charge(p) <= MaxOutstanding[p]
  BY Zenon, LogAssumption DEF Charged
<1> HIDE DEF H, K, P, K1, K2
<1> QED
  BY <1>7, <1>10, <1>12, <1>13, <1>14, <1>15, <1>16 DEF Count

\* What the completion of a log store does to the table of log requests.
LogRequestEnds(p, a, part) ==
  /\ logReq[p][a].left = {part}
  /\ logReq'[p][a] = None

LogRequestGoesOn(p, a, part) ==
  /\ logReq[p][a].left # {part}
  /\ logReq'[p][a] # None /\ logReq'[p][a] \in LogRequests
  /\ logReq'[p][a].index = logReq[p][a].index
  /\ logReq'[p][a].old = logReq[p][a].old
  /\ logReq'[p][a].left = logReq[p][a].left \ {part}

\* One or the other happens, and nothing to the other log requests.
LEMMA LogRequestEffect ==
  ASSUME DataTypeOK, NEW p \in Proc, NEW a \in Addr,
         NEW part \in {"addr", "data"}, handleStoresToLog(p, a, part)
  PROVE  /\ logReq[p][a] # None /\ logReq[p][a] \in LogRequests
         /\ part \in logReq[p][a].left
         /\ \A b \in Addr : b # a => logReq'[p][b] = logReq[p][b]
         /\ LogRequestEnds(p, a, part) \/ LogRequestGoesOn(p, a, part)
<1> DEFINE r == logReq[p][a]
<1>1. r # None /\ part \in r.left
  BY Zenon DEF handleStoresToLog
<1>2. r \in LogRequests
  BY Zenon, <1>1 DEF DataTypeOK
<1>3. CASE r.left = {part}
  <2>1. logReq' = [logReq EXCEPT ![p][a] = None]
    BY Zenon, <1>3 DEF handleStoresToLog
  <2> QED
    BY Zenon, <1>1, <1>2, <1>3, <2>1 DEF DataTypeOK, LogRequestEnds
<1>4. CASE r.left # {part}
  <2>1. logReq' = [logReq EXCEPT ![p][a].left = @ \ {part}]
    BY Zenon, <1>4 DEF handleStoresToLog
  <2>2. /\ logReq'[p][a] = [r EXCEPT !.left = @ \ {part}]
        /\ \A b \in Addr : b # a => logReq'[p][b] = logReq[p][b]
    BY Zenon, <2>1 DEF DataTypeOK
  <2>3. [r EXCEPT !.left = @ \ {part}] =
          [index |-> r.index, old |-> r.old, left |-> r.left \ {part}]
    BY <1>2 DEF LogRequests
  <2>4. [index |-> r.index, old |-> r.old, left |-> r.left \ {part}]
          \in LogRequests
    BY Zenon, <1>2 DEF LogRequests
  <2>5. LogRequestGoesOn(p, a, part)
    <3> HIDE DEF r
    <3> QED
      BY Zenon, <1>4, <2>2, <2>3, <2>4, NoLogRequestAssumption DEF LogRequestGoesOn, r
  <2> QED
    BY Zenon, <1>1, <1>2, <2>2, <2>5
<1> QED
  BY Zenon, <1>3, <1>4

\* Every step keeps each core within its sequencer.
LEMMA ChargeStep ==
  ASSUME CountFacts, TypeOK, DataTypeOK, Serving, Charged, NEW p \in Proc,
         DataStep(p)
  PROVE  Charged'
<1>1. ASSUME NEW q \in Proc, req'[q] = req[q], logReq'[q] = logReq[q]
      PROVE  Charge(q)' <= MaxOutstanding[q]
  <2>1. /\ Held(q)' = Held(q) /\ Packets(q)' = Packets(q)
        /\ pendingLogging(q)' = pendingLogging(q)
    BY Zenon, <1>1 DEF Held, Packets, pendingLogging
  <2> QED
    BY Zenon, <2>1, ChargeShrinks
<1>2. \A q \in Proc : q # p => Charge(q)' <= MaxOutstanding[q]
  BY Zenon, <1>1, OthersStand DEF ControlStands, DataStands
<1> SUFFICES Charge(p)' <= MaxOutstanding[p]
  BY Zenon, <1>2 DEF Charged
<1> USE DEF dataVars, undoVars
<1>3. CASE ControlStep(p) /\ req' = req
  BY Zenon, <1>1, <1>3 DEF ControlStep
<1>4. CASE commit(p) \/ simEndLogUnroll(p)
  BY Zenon, <1>1, <1>4 DEF commit, simEndLogUnroll, commitTransaction, endLogUnroll
<1>5. CASE abort(p)
  <2>1. \A a \in Addr : req[p][a] # None =>
          /\ aged(req[p][a]) # None /\ aged(req[p][a]).kind = req[p][a].kind
          /\ aged(req[p][a]).trans = req[p][a].trans
    BY Zenon, AgedFacts DEF TypeOK
  <2>2. \A a \in Addr : req'[p][a] = aged(req[p][a])
    BY Zenon, <1>5 DEF abort, abortTransaction, TypeOK
  <2>3. \A a \in Addr : req[p][a] = None => req'[p][a] = None
    BY Zenon, <2>2 DEF aged
  <2>4. logReq' = logReq
    BY Zenon, <1>5 DEF abort
  <2>5. Held(p)' = Held(p) /\ pendingLogging(p)' = pendingLogging(p)
    BY <2>1, <2>2, <2>3, <2>4 DEF Held, pendingLogging
  <2>6. Packets(p)' = Packets(p)
    BY Zenon, <2>4 DEF Packets
  <2> QED
    BY Zenon, <2>5, <2>6, ChargeShrinks
<1>6. CASE logtm_log_unroll(p)
  <2> DEFINE a == log[p][addr_log_ptr[p]]
             r == [kind |-> "GETX", trans |-> FALSE, ts |-> clock, age |-> 0]
  <2>1. a \in Addr /\ req[p][a] = None /\ req' = [req EXCEPT ![p][a] = r]
    BY Zenon, <1>6 DEF logtm_log_unroll, issueRestore, TypeOK
  <2>2. r \in Requests /\ r.trans = FALSE
    BY Zenon, RequestTypes
  <2>3. logReq' = logReq /\ canMakeRequest(p, 0)
    BY Zenon, <1>6 DEF logtm_log_unroll
  <2> HIDE DEF a, r
  <2> QED
    BY Zenon, <2>1, <2>2, <2>3, ChargeIssued
<1>7. ASSUME NEW a \in Addr, issueLoad(p, a)
      PROVE  Charge(p)' <= MaxOutstanding[p]
  <2> DEFINE r == [kind |-> "GETS", trans |-> TRUE, ts |-> timestamp[p], age |-> 0]
  <2>1. r \in Requests /\ r.kind # "GETX"
    BY Zenon, RequestTypes
  <2>2. /\ req[p][a] = None /\ req' = [req EXCEPT ![p][a] = r]
        /\ logReq' = logReq /\ canMakeRequest(p, 0)
    BY Zenon, <1>7 DEF issueLoad, issueRequest
  <2> HIDE DEF r
  <2> QED
    BY Zenon, <2>1, <2>2, ChargeIssued
<1>8. ASSUME NEW a \in Addr, issueStore(p, a)
      PROVE  Charge(p)' <= MaxOutstanding[p]
  <2> DEFINE r == [kind |-> "GETX", trans |-> TRUE, ts |-> timestamp[p], age |-> 0]
  <2>1. r \in Requests /\ r.kind = "GETX" /\ r.trans
    BY Zenon, RequestTypes
  <2>2. /\ req[p][a] = None /\ req' = [req EXCEPT ![p][a] = r]
        /\ logReq' = logReq /\ canMakeRequest(p, 2)
    BY Zenon, <1>8 DEF issueStore, issueRequest, logReservation
  <2> HIDE DEF r
  <2> QED
    BY Zenon, <2>1, <2>2, ChargeIssued
<1>9. ASSUME NEW a \in Addr, issueOutside(p, a)
      PROVE  Charge(p)' <= MaxOutstanding[p]
  <2> DEFINE r == [kind |-> "GETX", trans |-> FALSE, ts |-> clock, age |-> 0]
  <2>1. r \in Requests /\ r.trans = FALSE
    BY Zenon, RequestTypes
  <2>2. /\ req[p][a] = None /\ req' = [req EXCEPT ![p][a] = r]
        /\ logReq' = logReq /\ canMakeRequest(p, 0)
    BY Zenon, <1>9 DEF issueOutside, issueNonTransactional
  <2> HIDE DEF r
  <2> QED
    BY Zenon, <2>1, <2>2, ChargeIssued
<1>10. ASSUME NEW a \in Addr, req' = [req EXCEPT ![p][a] = None],
              logReq' = logReq
       PROVE  Charge(p)' <= MaxOutstanding[p]
  <2>1. \A b \in Addr : req'[p][b] = IF b = a THEN None ELSE req[p][b]
    BY Zenon, <1>10 DEF TypeOK
  <2>2. /\ Held(p)' \subseteq Held(p)
        /\ pendingLogging(p)' \subseteq pendingLogging(p)
    BY Zenon, <1>10, <2>1 DEF Held, pendingLogging
  <2>3. Packets(p)' = Packets(p)
    BY Zenon, <1>10 DEF Packets
  <2> QED
    BY Zenon, <2>2, <2>3, ChargeShrinks
<1>11. ASSUME NEW a \in Addr, NEW part \in {"addr", "data"},
              handleStoresToLog(p, a, part)
       PROVE  Charge(p)' <= MaxOutstanding[p]
  <2>1. req' = req
    BY Zenon, <1>11 DEF handleStoresToLog, vars
  <2>2. \A b \in Addr : b # a => logReq'[p][b] = logReq[p][b]
    BY Zenon, <1>11, LogRequestEffect
  <2>3. /\ logReq[p][a] # None
        /\ logReq'[p][a] # None => logReq'[p][a].left \subseteq logReq[p][a].left
    <3>1. /\ logReq[p][a] # None
          /\ LogRequestEnds(p, a, part) \/ LogRequestGoesOn(p, a, part)
      BY Zenon, <1>11, LogRequestEffect
    <3> QED
      BY Zenon, <3>1 DEF LogRequestEnds, LogRequestGoesOn
  <2>4. Held(p)' \subseteq Held(p) /\ pendingLogging(p)' = pendingLogging(p)
    BY Zenon, <2>1, <2>2, <2>3 DEF Held, pendingLogging
  <2>5. Packets(p)' \subseteq Packets(p)
    BY Zenon, <2>2, <2>3 DEF Packets
  <2> QED
    BY Zenon, <2>4, <2>5, ChargeShrinks
<1>12. ASSUME NEW a \in Addr, NEW v \in Val,
              \/ receiveNack(p, a) /\ UNCHANGED dataVars
              \/ loadCallback(p, a) \/ storeHit(p, a, v)
              \/ outsideStore(p, a, v) \/ restored(p, a)
       PROVE  Charge(p)' <= MaxOutstanding[p]
  <2>1. /\ logReq' = logReq
        /\ req' = req \/ req' = [req EXCEPT ![p][a] = None]
    BY Zenon, <1>12
    DEF receiveNack, loadCallback, storeHit, outsideStore, restored, receiveData,
        vars
  <2> QED
    BY Zenon, <1>1, <1>10, <2>1
<1>13. CASE ControlStep(p)
  <2>1. ASSUME NEW a \in Addr, receiveNack(p, a), UNCHANGED dataVars
        PROVE  Charge(p)' <= MaxOutstanding[p]
    BY Zenon, <1>12, <2>1, ValAssumption
  <2>2. CASE ~\E a \in Addr : receiveNack(p, a)
    <3>1. req' = req
      BY Zenon, <1>13, <2>2
      DEF ControlStep, beginTransaction, serveRequest, answer, xactReplacement
    <3> QED
      BY Zenon, <1>3, <1>13, <3>1
  <2> QED
    BY Zenon, <1>13, <2>1, <2>2 DEF ControlStep
<1> QED
  BY Zenon, <1>4, <1>5, <1>6, <1>7, <1>8, <1>9, <1>11, <1>12, <1>13, ChargeLogged,
     ValAssumption DEF DataStep

-----------------------------------------------------------------------------
(* The log                                                                 *)

\* What entry i of core p's log holds.
AddrAt(p, i) == log[p][addr_log_pointer(i)]
DataAt(p, i) == log[p][data_log_pointer(i)]

\* The entries whose two log stores have completed.
Kept(p) ==
  {i \in Index : /\ i < logNumEntries[p]
                 /\ \A a \in Addr :
                      logReq[p][a] # None => logReq[p][a].index # i}

\* The request of a store belongs to the running transaction and is its only
\* store; the block is not logged yet.
StoreRequests(p) ==
  \A a \in Addr :
    req[p][a] # None /\ req[p][a].kind = "GETX" /\ req[p][a].trans =>
      /\ inTx[p] /\ ~unrolling[p] /\ req[p][a].age = 0
      /\ a \notin writeSet[p] /\ storesDone(p)
      /\ \A b \in Addr :
           req[p][b] # None /\ b # a => req[p][b].kind = "GETS"

\* A load is of a block that the transaction does not hold.
LoadRequests(p) ==
  \A a \in Addr : req[p][a] # None /\ req[p][a].kind = "GETS" =>
    req[p][a].trans /\ a \notin readSet[p] \cup writeSet[p]

\* Any other request is a store outside transactions or restores the block of
\* the entry that the handler's pointers are at.
PlainRequests(p) ==
  \A a \in Addr : req[p][a] # None /\ ~req[p][a].trans =>
    /\ inTx[p] => unrolling[p]
    /\ unrolling[p] => logSize[p] > 0 /\ a = log[p][addr_log_ptr[p]]

\* Nothing is left of a transaction that has ended, and only the write set of
\* one that is being undone.
Outside(p) ==
  /\ ~inTx[p] => readSet[p] = {} /\ writeSet[p] = {} /\ ~abortFlag[p]
  /\ ~inTx[p] \/ unrolling[p] => loaded[p] = NoBlocks /\ stored[p] = NoBlocks

\* A store whose log stores are under way is the only one, and its entry is
\* the last; a log store that has completed is in the log.
LogStores(p) ==
  \A a \in Addr : logReq[p][a] # None =>
    /\ inTx[p] /\ ~unrolling[p] /\ a \in writeSet[p]
    /\ logReq[p][a].index = logNumEntries[p] - 1 /\ logReq[p][a].left # {}
    /\ "addr" \notin logReq[p][a].left =>
         AddrAt(p, logReq[p][a].index) = a
    /\ "data" \notin logReq[p][a].left =>
         DataAt(p, logReq[p][a].index) = logReq[p][a].old
    /\ \A b \in Addr : logReq[p][b] # None => b = a

\* The entries are the blocks of the write set, each once.
Entries(p) ==
  /\ logNumEntries[p] = Cardinality(writeSet[p])
  /\ \A i \in Kept(p) : /\ AddrAt(p, i) \in writeSet[p]
                        /\ logReq[p][AddrAt(p, i)] = None
                        /\ DataAt(p, i) \in Val
  /\ \A i, j \in Kept(p) : AddrAt(p, i) = AddrAt(p, j) => i = j
  /\ \A a \in writeSet[p] :
       logReq[p][a] = None => \E i \in Kept(p) : AddrAt(p, i) = a

\* The handler is at the last entry that is not restored.
UnrollPosition(p) ==
  IF unrolling[p]
  THEN /\ logSize[p] <= logNumEntries[p]
       /\ toRestore[p] = {AddrAt(p, i) : i \in 0 .. logSize[p] - 1}
       /\ logSize[p] > 0 =>
            /\ data_log_ptr[p] = data_log_pointer(logSize[p] - 1)
            /\ addr_log_ptr[p] = addr_log_pointer(logSize[p] - 1)
  ELSE logSize[p] = 0 /\ toRestore[p] = {}

\* What holds of the requests, of the log and of the handler of a core.
RequestInv(p) ==
  StoreRequests(p) /\ LoadRequests(p) /\ PlainRequests(p) /\ Outside(p)

LogInv(p) == LogStores(p) /\ Entries(p) /\ UnrollPosition(p)

CoreInv == \A p \in Proc : RequestInv(p) /\ LogInv(p)

\* Facts about every core that the steps rely on.
LEMMA LogControl ==
  ASSUME TypeOK
  PROVE  lazyVM = FALSE
BY Zenon, LogAssumption DEF TypeOK

\* Steps that leave the log, the write set and the handler alone.
LEMMA LogKept ==
  ASSUME NEW p \in Proc, LogInv(p), inTx[p] => inTx'[p],
         unrolling'[p] = unrolling[p], toRestore'[p] = toRestore[p],
         writeSet'[p] = writeSet[p], log'[p] = log[p],
         logNumEntries'[p] = logNumEntries[p], logReq'[p] = logReq[p],
         logSize'[p] = logSize[p], data_log_ptr'[p] = data_log_ptr[p],
         addr_log_ptr'[p] = addr_log_ptr[p]
  PROVE  LogInv(p)'
<1>1. LogStores(p)'
  <2> SUFFICES ASSUME NEW a \in Addr, logReq'[p][a] # None
               PROVE  /\ inTx'[p] /\ ~unrolling'[p] /\ a \in writeSet'[p]
                      /\ logReq'[p][a].index = logNumEntries'[p] - 1
                      /\ logReq'[p][a].left # {}
                      /\ "addr" \notin logReq'[p][a].left =>
                           AddrAt(p, logReq[p][a].index)' = a
                      /\ "data" \notin logReq'[p][a].left =>
                           DataAt(p, logReq[p][a].index)' = logReq'[p][a].old
                      /\ \A b \in Addr : logReq'[p][b] # None => b = a
    BY Zenon DEF LogStores
  <2>1. /\ AddrAt(p, logReq[p][a].index)' = AddrAt(p, logReq[p][a].index)
        /\ DataAt(p, logReq[p][a].index)' = DataAt(p, logReq[p][a].index)
    BY Zenon DEF AddrAt, DataAt
  <2> QED
    BY Zenon, <2>1 DEF LogInv, LogStores
<1>2. Kept(p)' = Kept(p)
  BY Zenon DEF Kept
<1>3. Entries(p)'
  <2>1. logNumEntries'[p] = Cardinality(writeSet'[p])
    BY Zenon DEF LogInv, Entries
  <2>2. \A i \in Kept(p)' : /\ AddrAt(p, i)' \in writeSet'[p]
                            /\ logReq'[p][AddrAt(p, i)'] = None
                            /\ DataAt(p, i)' \in Val
    BY Zenon, <1>2 DEF LogInv, Entries, AddrAt, DataAt
  <2>3. \A i, j \in Kept(p)' : AddrAt(p, i)' = AddrAt(p, j)' => i = j
    <3> SUFFICES ASSUME NEW i \in Kept(p), NEW j \in Kept(p),
                        AddrAt(p, i)' = AddrAt(p, j)'
                 PROVE  i = j
      BY Zenon, <1>2
    <3>1. AddrAt(p, i) = AddrAt(p, j)
      BY Zenon DEF AddrAt
    <3> QED
      BY Zenon, <3>1 DEF LogInv, Entries
  <2>4. \A a \in writeSet'[p] :
          logReq'[p][a] = None => \E i \in Kept(p)' : AddrAt(p, i)' = a
    <3> SUFFICES ASSUME NEW a \in writeSet[p], logReq[p][a] = None
                 PROVE  \E i \in Kept(p) : AddrAt(p, i)' = a
      BY Zenon, <1>2
    <3>1. PICK i \in Kept(p) : AddrAt(p, i) = a
      BY Zenon DEF LogInv, Entries
    <3>2. AddrAt(p, i)' = a
      BY Zenon, <3>1 DEF AddrAt
    <3> QED
      BY Zenon, <3>2
  <2> QED
    BY Zenon, <2>1, <2>2, <2>3, <2>4 DEF Entries
<1>4. UnrollPosition(p)'
  BY Zenon DEF LogInv, UnrollPosition, AddrAt
<1> QED
  BY Zenon, <1>1, <1>3, <1>4 DEF LogInv

\* What holds of a core is not disturbed by the steps of the others.
LEMMA CoreStands ==
  ASSUME NEW q \in Proc, RequestInv(q), LogInv(q), ControlStands(q),
         DataStands(q)
  PROVE  RequestInv(q)' /\ LogInv(q)'
<1>1. RequestInv(q)'
  BY DEF RequestInv, StoreRequests, LoadRequests, PlainRequests, Outside,
         storesDone, ControlStands, DataStands
<1>2. LogInv(q)'
  BY Zenon, LogKept DEF ControlStands, DataStands
<1> QED
  BY Zenon, <1>1, <1>2

-----------------------------------------------------------------------------
(* The requests of a core                                                  *)

\* Requests that stay or go leave what holds of them, as long as the
\* transaction, its sets and its log stand.
LEMMA RequestsKept ==
  ASSUME NEW p \in Proc, RequestInv(p),
         \A b \in Addr : req'[p][b] = None \/ req'[p][b] = req[p][b],
         inTx'[p] = inTx[p], unrolling'[p] = unrolling[p],
         \A b \in Addr : b \in readSet'[p] =>
           b \in readSet[p] \/ req'[p][b] = None,
         writeSet'[p] = writeSet[p],
         logReq'[p] = logReq[p], logSize'[p] = logSize[p],
         log'[p] = log[p], addr_log_ptr'[p] = addr_log_ptr[p]
  PROVE  StoreRequests(p)' /\ LoadRequests(p)' /\ PlainRequests(p)'
<1>1. StoreRequests(p)'
  BY Zenon DEF RequestInv, StoreRequests, storesDone
<1>2. LoadRequests(p)'
  BY Zenon DEF RequestInv, LoadRequests
<1>3. PlainRequests(p)'
  BY Zenon DEF RequestInv, PlainRequests
<1> QED
  BY Zenon, <1>1, <1>2, <1>3

\* Every step of a core keeps what holds of its requests.
LEMMA RequestStep ==
  ASSUME TypeOK, DataTypeOK, Serving, Lingering, UnrollState,
         NEW p \in Proc, RequestInv(p), LogInv(p), DataStep(p)
  PROVE  RequestInv(p)'
<1> USE DEF dataVars, undoVars, unrollVars, txVars
<1>a. ASSUME UNCHANGED dataVars, beginTransaction(p)
      PROVE  RequestInv(p)'
  <2>1. ~inTx[p] /\ ~unrolling[p]
    BY Zenon, <1>a DEF beginTransaction, UnrollState
  <2>2. \A b \in Addr : req[p][b] # None => req[p][b].trans
    BY Zenon, <1>a DEF beginTransaction
  <2>3. \A b \in Addr : req[p][b] # None => req[p][b].kind # "GETX"
    BY Zenon, <2>1, <2>2 DEF RequestInv, StoreRequests
  <2>4. /\ req' = req /\ readSet' = readSet /\ writeSet' = writeSet
        /\ inTx'[p] /\ unrolling' = unrolling
    BY Zenon, <1>a DEF beginTransaction, setVars, logVars, TypeOK
  <2>5. StoreRequests(p)'
    BY Zenon, <2>3, <2>4 DEF StoreRequests
  <2>6. LoadRequests(p)'
    BY Zenon, <2>4 DEF RequestInv, LoadRequests
  <2>7. PlainRequests(p)'
    BY Zenon, <2>2, <2>4 DEF PlainRequests
  <2> QED
    BY Zenon, <1>a, <2>1, <2>4, <2>5, <2>6, <2>7 DEF RequestInv, Outside
<1>1. ASSUME NEW a \in Addr, UNCHANGED dataVars,
             serveRequest(p, a) \/ receiveNack(p, a) \/ xactReplacement(p, a)
      PROVE  RequestInv(p)'
  <2>1. /\ inTx' = inTx /\ unrolling' = unrolling /\ readSet' = readSet
        /\ writeSet' = writeSet
        /\ \A b \in Addr : req'[p][b] = None \/ req'[p][b] = req[p][b]
    BY <1>1
    DEF serveRequest, receiveNack, xactReplacement, logVars, setVars, TypeOK
  <2>2. StoreRequests(p)' /\ LoadRequests(p)' /\ PlainRequests(p)'
    BY Zenon, <1>1, <2>1, RequestsKept
  <2>3. ~inTx[p] => (abortFlag'[p] <=> abortFlag[p])
    BY Zenon, <1>1
    DEF serveRequest, receiveNack, xactReplacement, TypeOK
  <2> QED
    BY Zenon, <1>1, <2>1, <2>2, <2>3 DEF RequestInv, Outside
<1>2. ASSUME NEW a \in Addr, UNCHANGED dataVars, answer(p, a)
      PROVE  RequestInv(p)'
  <2>1. /\ inTx' = inTx /\ unrolling' = unrolling /\ readSet' = readSet
        /\ writeSet' = writeSet /\ req' = req
    BY Zenon, <1>2 DEF answer, logVars, setVars
  <2>2. StoreRequests(p)' /\ LoadRequests(p)' /\ PlainRequests(p)'
    BY Zenon, <1>2, <2>1, RequestsKept
  <2>3. ~inTx[p] => (abortFlag'[p] <=> abortFlag[p])
    <3> SUFFICES ASSUME ~inTx[p]
                 PROVE  abortFlag'[p] <=> abortFlag[p]
      OBVIOUS
    <3>1. readSet[p] = {} /\ writeSet[p] = {}
      BY Zenon DEF RequestInv, Outside
    <3>2. \A r : ~callsSetAbortFlag(p, a, r)
      BY Zenon, <3>1 DEF callsSetAbortFlag, existConflict, isWriter
    <3> QED
      BY Zenon, <1>2, <3>2 DEF answer, TypeOK
  <2> QED
    BY Zenon, <1>2, <2>1, <2>2, <2>3 DEF RequestInv, Outside
<1>3. CASE commit(p)
  <2>1. /\ inTx[p] /\ ~unrolling[p] /\ ~abortFlag[p]
        /\ \A b \in Addr : req[p][b] # None => req[p][b].age > 0
        /\ req' = req /\ ~inTx'[p] /\ ~abortFlag'[p] /\ unrolling' = unrolling
        /\ readSet'[p] = {} /\ writeSet'[p] = {}
        /\ loaded'[p] = NoBlocks /\ stored'[p] = NoBlocks
    BY Zenon, <1>3 DEF commit, commitTransaction, isDoomed, logVars, TypeOK, DataTypeOK
  <2>2. \A b \in Addr : req[p][b] # None =>
          req[p][b].trans /\ req[p][b].kind # "GETX"
    <3>1. \A b \in Addr : req[p][b] # None => req[p][b].age # 0
      BY <2>1
    <3> QED
      BY Zenon, <2>1, <3>1 DEF RequestInv, PlainRequests, StoreRequests
  <2>3. \A b \in Addr : req[p][b] # None => req[p][b].kind = "GETS"
    BY Zenon, <2>2 DEF TypeOK, Requests
  <2> QED
    BY Zenon, <2>1, <2>2, <2>3
    DEF RequestInv, StoreRequests, LoadRequests, PlainRequests, Outside
<1>4. CASE abort(p)
  <2>1. /\ inTx[p] /\ ~unrolling[p]
        /\ \A b \in Addr : req[p][b] # None => req[p][b].kind = "GETS"
        /\ \A b \in Addr : req'[p][b] = aged(req[p][b])
        /\ readSet'[p] = {} /\ ~abortFlag'[p]
    BY Zenon, <1>4 DEF abort, abortTransaction, TypeOK
  <2>2. writeSet'[p] = writeSet[p] /\ (~inTx'[p] => writeSet'[p] = {})
    BY Zenon, <1>4, LogControl DEF abort, abortTransaction, writeSetAfterAbort, TypeOK
  <2>3. loaded'[p] = NoBlocks /\ stored'[p] = NoBlocks
    BY Zenon, <1>4 DEF abort, DataTypeOK
  <2>4. \A b \in Addr : req'[p][b] # None =>
          /\ req[p][b] # None /\ req'[p][b].kind = "GETS" /\ req'[p][b].trans
    <3> SUFFICES ASSUME NEW b \in Addr, req'[p][b] # None
                 PROVE  /\ req[p][b] # None /\ req'[p][b].kind = "GETS"
                        /\ req'[p][b].trans
      OBVIOUS
    <3>1. req[p][b] # None
      BY Zenon, <2>1 DEF aged
    <3>2. req[p][b] \in Requests
      BY <3>1 DEF TypeOK
    <3>3. req[p][b].trans
      BY Zenon, <2>1, <3>1 DEF RequestInv, LoadRequests
    <3> QED
      BY Zenon, <2>1, <3>1, <3>2, <3>3, AgedFacts
  <2>5. LoadRequests(p)'
    BY Zenon, <2>1, <2>2, <2>4 DEF RequestInv, LoadRequests
  <2>6. StoreRequests(p)' /\ PlainRequests(p)'
    BY Zenon, <2>4 DEF StoreRequests, PlainRequests
  <2> QED
    BY Zenon, <2>1, <2>2, <2>3, <2>5, <2>6 DEF RequestInv, Outside
<1>5. CASE simEndLogUnroll(p)
  <2>1. /\ unrolling[p] /\ logSize[p] = 0 /\ readSet[p] = {} /\ ~abortFlag[p]
    BY Zenon, <1>5 DEF simEndLogUnroll, endLogUnroll, UnrollState
  <2>2. /\ req' = req /\ ~inTx'[p] /\ ~unrolling'[p] /\ writeSet'[p] = {}
        /\ readSet' = readSet /\ abortFlag' = abortFlag
        /\ loaded' = loaded /\ stored' = stored
    BY Zenon, <1>5 DEF simEndLogUnroll, endLogUnroll, TypeOK
  <2>3. \A b \in Addr : req[p][b] # None =>
          req[p][b].trans /\ req[p][b].kind # "GETX"
    BY <2>1 DEF RequestInv, StoreRequests, PlainRequests
  <2> QED
    BY Zenon, <2>1, <2>2, <2>3
    DEF RequestInv, StoreRequests, LoadRequests, PlainRequests, Outside

<1>6. CASE logtm_log_unroll(p)
  <2> DEFINE a == log[p][addr_log_ptr[p]]
             r == [kind |-> "GETX", trans |-> FALSE, ts |-> clock, age |-> 0]
  <2>1. logSize[p] > 0 /\ UNCHANGED dataVars /\ issueRestore(p, a)
    BY Zenon, <1>6 DEF logtm_log_unroll
  <2>2. unrolling[p]
    BY <2>1 DEF LogInv, UnrollPosition, DataTypeOK
  <2>3. /\ a \in Addr /\ inTx' = inTx /\ unrolling' = unrolling
        /\ abortFlag' = abortFlag /\ readSet' = readSet /\ writeSet' = writeSet
        /\ \A b \in Addr : req'[p][b] = IF b = a THEN r ELSE req[p][b]
    BY Zenon, <2>1 DEF issueRestore, TypeOK, logVars, setVars
  <2>4. r.kind = "GETX" /\ r.trans = FALSE
    OBVIOUS
  <2> HIDE DEF a, r
  <2>5. StoreRequests(p)'
    BY Zenon, <2>2, <2>3, <2>4 DEF RequestInv, StoreRequests
  <2>6. LoadRequests(p)'
    BY Zenon, <2>3, <2>4 DEF RequestInv, LoadRequests
  <2>7. PlainRequests(p)'
    BY Zenon, <2>1, <2>2, <2>3, <2>4 DEF RequestInv, PlainRequests, a
  <2> QED
    BY Zenon, <2>1, <2>3, <2>5, <2>6, <2>7 DEF RequestInv, Outside
<1>7. ASSUME NEW a \in Addr, issueLoad(p, a)
      PROVE  RequestInv(p)'
  <2> DEFINE r == [kind |-> "GETS", trans |-> TRUE, ts |-> timestamp[p], age |-> 0]
  <2>1. UNCHANGED dataVars /\ issueRequest(p, a, "GETS")
    BY Zenon, <1>7 DEF issueLoad
  <2>2. /\ inTx' = inTx /\ unrolling' = unrolling
        /\ abortFlag' = abortFlag /\ readSet' = readSet /\ writeSet' = writeSet
        /\ \A b \in Addr : req'[p][b] = IF b = a THEN r ELSE req[p][b]
        /\ a \notin readSet[p] \cup writeSet[p]
    BY Zenon, <2>1 DEF issueRequest, TypeOK, logVars, setVars
  <2>3. r.kind = "GETS" /\ r.trans = TRUE
    OBVIOUS
  <2> HIDE DEF r
  <2>4. StoreRequests(p)'
    BY Zenon, <2>1, <2>2, <2>3 DEF RequestInv, StoreRequests, storesDone
  <2>5. LoadRequests(p)'
    BY Zenon, <2>2, <2>3 DEF RequestInv, LoadRequests
  <2>6. PlainRequests(p)'
    BY Zenon, <2>1, <2>2, <2>3 DEF RequestInv, PlainRequests
  <2> QED
    BY Zenon, <2>1, <2>2, <2>4, <2>5, <2>6 DEF RequestInv, Outside
<1>8. ASSUME NEW a \in Addr, issueStore(p, a)
      PROVE  RequestInv(p)'
  <2> DEFINE r == [kind |-> "GETX", trans |-> TRUE, ts |-> timestamp[p], age |-> 0]
  <2>1. /\ UNCHANGED dataVars /\ issueRequest(p, a, "GETX") /\ storesDone(p)
        /\ \A b \in Addr : req[p][b] # None => req[p][b].kind = "GETS"
    BY Zenon, <1>8 DEF issueStore
  <2>2. /\ inTx' = inTx /\ unrolling' = unrolling
        /\ abortFlag' = abortFlag /\ readSet' = readSet /\ writeSet' = writeSet
        /\ \A b \in Addr : req'[p][b] = IF b = a THEN r ELSE req[p][b]
        /\ a \notin writeSet[p] /\ inTx[p] /\ ~unrolling[p]
    BY Zenon, <2>1 DEF issueRequest, isDoomed, TypeOK, logVars, setVars
  <2>3. r.kind = "GETX" /\ r.trans = TRUE /\ r.age = 0
    OBVIOUS
  <2> HIDE DEF r
  <2>4. StoreRequests(p)'
    <3>1. \A b \in Addr : b # a /\ req'[p][b] # None => req'[p][b].kind = "GETS"
      BY Zenon, <2>1, <2>2
    <3>2. req'[p][a] = r /\ storesDone(p)'
      BY Zenon, <2>1, <2>2 DEF storesDone, dataVars, undoVars
    <3>3. "GETS" # "GETX"
      OBVIOUS
    <3> QED
      BY Zenon, <2>2, <2>3, <3>1, <3>2, <3>3 DEF StoreRequests
  <2>5. LoadRequests(p)'
    BY Zenon, <2>2, <2>3 DEF RequestInv, LoadRequests
  <2>6. PlainRequests(p)'
    BY Zenon, <2>1, <2>2, <2>3 DEF RequestInv, PlainRequests
  <2> QED
    BY Zenon, <2>1, <2>2, <2>4, <2>5, <2>6 DEF RequestInv, Outside
<1>9. ASSUME NEW a \in Addr, issueOutside(p, a)
      PROVE  RequestInv(p)'
  <2> DEFINE r == [kind |-> "GETX", trans |-> FALSE, ts |-> clock, age |-> 0]
  <2>1. UNCHANGED dataVars /\ issueNonTransactional(p, a, "GETX")
    BY Zenon, <1>9 DEF issueOutside
  <2>2. /\ inTx' = inTx /\ unrolling' = unrolling
        /\ abortFlag' = abortFlag /\ readSet' = readSet /\ writeSet' = writeSet
        /\ \A b \in Addr : req'[p][b] = IF b = a THEN r ELSE req[p][b]
        /\ ~inTx[p]
    BY Zenon, <2>1 DEF issueNonTransactional, TypeOK, logVars, setVars
  <2>3. r.kind = "GETX" /\ r.trans = FALSE /\ ~unrolling[p]
    BY Zenon, <2>2 DEF UnrollState
  <2> HIDE DEF r
  <2>4. StoreRequests(p)'
    BY Zenon, <2>2, <2>3 DEF RequestInv, StoreRequests
  <2>5. LoadRequests(p)'
    BY Zenon, <2>2, <2>3 DEF RequestInv, LoadRequests
  <2>6. PlainRequests(p)'
    BY Zenon, <2>2, <2>3 DEF RequestInv, PlainRequests
  <2> QED
    BY Zenon, <2>1, <2>2, <2>4, <2>5, <2>6 DEF RequestInv, Outside

<1>10. ASSUME NEW a \in Addr, receiveData(p, a)
       PROVE  /\ \A b \in Addr : req'[p][b] = IF b = a THEN None ELSE req[p][b]
              /\ inTx' = inTx /\ unrolling' = unrolling /\ abortFlag' = abortFlag
              /\ req[p][a] # None /\ req[p][a] \in Requests
              /\ readSet'[p] \subseteq readSet[p] \cup {a}
              /\ ~inTx[p] \/ ~req[p][a].trans => readSet' = readSet
              /\ req[p][a].kind = "GETS" \/ ~req[p][a].trans =>
                   writeSet' = writeSet
              /\ req[p][a].kind = "GETX" => readSet' = readSet
              /\ \A b \in Addr : b # a =>
                   (b \in writeSet'[p] <=> b \in writeSet[p])
  <2>1. req[p][a] # None
    BY Zenon, <1>10 DEF receiveData, Answered, Serving
  <2>2. req[p][a] \in Requests
    BY <2>1 DEF TypeOK
  <2>3. req[p][a].trans \in BOOLEAN /\ req[p][a].kind \in {"GETS", "GETX"}
    BY Zenon, <2>2 DEF Requests
  <2>4. ~inTx[p] /\ req[p][a].trans => req[p][a].age # 0
    BY <2>1, <2>2 DEF Lingering, Requests
  <2> QED
    BY Zenon, <1>10, <2>1, <2>2, <2>3, <2>4 DEF receiveData, TypeOK
<1>11. ASSUME NEW a \in Addr, loadCallback(p, a)
       PROVE  RequestInv(p)'
  <2>1. /\ receiveData(p, a) /\ req[p][a].kind = "GETS"
        /\ UNCHANGED <<mem, undoVars, stored, outcome>>
        /\ loaded' = IF a \in readSet'[p] THEN [loaded EXCEPT ![p][a] = mem[a]]
                     ELSE loaded
    BY Zenon, <1>11 DEF loadCallback
  <2>2. StoreRequests(p)' /\ LoadRequests(p)' /\ PlainRequests(p)'
    BY Zenon, <1>10, <2>1, RequestsKept
  <2>3. unrolling[p] => readSet' = readSet /\ readSet[p] = {}
    <3>1. unrolling[p] => readSet[p] = {}
      BY Zenon DEF UnrollState
    <3>2. unrolling[p] /\ req[p][a].trans => req[p][a].age # 0
      BY <1>10, <2>1 DEF Lingering, Requests
    <3> QED
      BY Zenon, <2>1, <3>1, <3>2 DEF receiveData
  <2>4. ~inTx[p] => readSet' = readSet /\ readSet[p] = {}
    BY Zenon, <1>10, <2>1 DEF RequestInv, Outside
  <2>5. ~inTx[p] \/ unrolling[p] => loaded' = loaded
    BY Zenon, <2>1, <2>3, <2>4
  <2> QED
    BY Zenon, <1>10, <2>1, <2>2, <2>4, <2>5 DEF RequestInv, Outside
<1>12. ASSUME NEW a \in Addr, logTransactionalStores(p, a)
       PROVE  RequestInv(p)'
  <2>1. /\ receiveData(p, a) /\ req[p][a].kind = "GETX" /\ req[p][a].trans
        /\ loaded' = loaded /\ stored' = stored
    BY Zenon, <1>12 DEF logTransactionalStores
  <2>2. /\ inTx[p] /\ ~unrolling[p]
        /\ \A b \in Addr : req[p][b] # None /\ b # a => req[p][b].kind = "GETS"
    BY Zenon, <1>10, <2>1 DEF RequestInv, StoreRequests
  <2>3. \A b \in Addr : req'[p][b] # None =>
          b # a /\ req'[p][b] = req[p][b] /\ req[p][b].kind = "GETS"
    BY Zenon, <1>10, <2>1, <2>2
  <2>4. LoadRequests(p)'
    BY Zenon, <1>10, <2>1, <2>3 DEF RequestInv, LoadRequests
  <2>5. PlainRequests(p)' /\ StoreRequests(p)'
    BY Zenon, <2>3, <2>4 DEF LoadRequests, PlainRequests, StoreRequests
  <2> QED
    BY Zenon, <1>10, <2>1, <2>2, <2>4, <2>5 DEF RequestInv, Outside
<1>13. ASSUME NEW a \in Addr, NEW part \in {"addr", "data"},
              handleStoresToLog(p, a, part)
       PROVE  RequestInv(p)'
  <2>1. /\ inTx' = inTx /\ unrolling' = unrolling /\ abortFlag' = abortFlag
        /\ readSet' = readSet /\ writeSet' = writeSet /\ req' = req
        /\ loaded' = loaded /\ logSize' = logSize
        /\ logReq[p][a] # None
    BY Zenon, <1>13 DEF handleStoresToLog, vars, logVars, setVars
  <2>2. inTx[p] /\ ~unrolling[p]
    BY Zenon, <2>1 DEF LogInv, LogStores
  <2>3. ~storesDone(p)
    BY Zenon, <2>1 DEF storesDone
  <2>4. StoreRequests(p)'
    BY Zenon, <2>1, <2>3 DEF RequestInv, StoreRequests
  <2>5. LoadRequests(p)' /\ PlainRequests(p)'
    BY Zenon, <2>1, <2>2 DEF RequestInv, LoadRequests, PlainRequests
  <2> QED
    BY Zenon, <2>1, <2>2, <2>4, <2>5 DEF RequestInv, Outside
<1>14. ASSUME NEW a \in Addr, NEW v \in Val, storeHit(p, a, v)
       PROVE  RequestInv(p)'
  <2>1. /\ inTx' = inTx /\ unrolling' = unrolling /\ abortFlag' = abortFlag
        /\ readSet' = readSet /\ writeSet' = writeSet /\ req' = req
        /\ UNCHANGED undoVars /\ inTx[p] /\ ~unrolling[p]
    BY Zenon, <1>14 DEF storeHit, isDoomed, vars, logVars, setVars
  <2>2. StoreRequests(p)' /\ LoadRequests(p)' /\ PlainRequests(p)'
    BY Zenon, <2>1, RequestsKept
  <2> QED
    BY Zenon, <2>1, <2>2 DEF RequestInv, Outside
<1>15. ASSUME NEW a \in Addr, NEW v \in Val, outsideStore(p, a, v)
       PROVE  RequestInv(p)'
  <2>1. /\ receiveData(p, a) /\ ~req[p][a].trans /\ UNCHANGED <<undoVars, txVars>>
    BY Zenon, <1>15 DEF outsideStore
  <2>2. StoreRequests(p)' /\ LoadRequests(p)' /\ PlainRequests(p)'
    BY Zenon, <1>10, <2>1, RequestsKept
  <2> QED
    BY Zenon, <1>10, <2>1, <2>2 DEF RequestInv, Outside
<1>16. ASSUME NEW a \in Addr, restored(p, a)
       PROVE  RequestInv(p)'
  <2>1. /\ receiveData(p, a) /\ ~req[p][a].trans /\ unrolling[p]
        /\ UNCHANGED <<log, logReq, txVars>>
    BY Zenon, <1>16 DEF restored
  <2>2. \A b \in Addr : req'[p][b] # None => b # a /\ req'[p][b] = req[p][b]
    BY Zenon, <1>10, <2>1
  <2>3. \A b \in Addr : req'[p][b] # None => req'[p][b].trans
    <3>1. \A b \in Addr : req[p][b] # None /\ ~req[p][b].trans => b = a
      BY Zenon, <1>10, <2>1 DEF RequestInv, PlainRequests
    <3> QED
      BY Zenon, <2>2, <3>1
  <2>4. StoreRequests(p)'
    BY Zenon, <1>10, <2>1, <2>2 DEF RequestInv, StoreRequests
  <2>5. LoadRequests(p)'
    BY Zenon, <1>10, <2>1, <2>2 DEF RequestInv, LoadRequests
  <2>6. PlainRequests(p)'
    BY Zenon, <2>3 DEF PlainRequests
  <2> QED
    BY Zenon, <1>10, <2>1, <2>4, <2>5, <2>6 DEF RequestInv, Outside
<1> QED
  <2>1. CASE ControlStep(p)
    BY Zenon, <1>a, <1>1, <1>2, <2>1 DEF ControlStep
  <2> QED
    BY Zenon, <1>3, <1>4, <1>5, <1>6, <1>7, <1>8, <1>9, <1>11, <1>12, <1>13, <1>14,
       <1>15, <1>16, <2>1 DEF DataStep

-----------------------------------------------------------------------------
(* The entries of the log                                                  *)

\* The log has entries.
LEMMA EntriesExist == LogEntries \in Nat
BY LayoutAssumption DEF LogEntries

\* The log has a first word.
LEMMA FirstWord == 0 \in LogWords
BY LayoutAssumption DEF LogWords

\* The words of an entry are words of the log, apart from those of the others.
LEMMA EntryWords ==
  ASSUME NEW i \in Index
  PROVE  /\ i \in Nat
         /\ addr_log_pointer(i) \in LogWords /\ data_log_pointer(i) \in LogWords
         /\ addr_ptr_from_data_ptr(data_log_pointer(i)) = addr_log_pointer(i)
         /\ data_log_pointer(i) \in DataWords(data_log_pointer(i))
         /\ \A j \in Index :
              /\ addr_log_pointer(j) \notin DataWords(data_log_pointer(i))
              /\ data_log_pointer(j) # addr_log_pointer(i)
              /\ j # i =>
                   /\ addr_log_pointer(j) # addr_log_pointer(i)
                   /\ data_log_pointer(j) \notin DataWords(data_log_pointer(i))
<1>1. Index \subseteq Nat
  BY EntriesExist DEF Index
<1>2. \A j \in Index :
        /\ addr_log_pointer(j) \in LogWords /\ data_log_pointer(j) \in LogWords
        /\ data_log_pointer(j) \in DataWords(data_log_pointer(j))
  BY Zenon, EntryWithinLog DEF Index, LogWords
<1>3. addr_ptr_from_data_ptr(data_log_pointer(i)) = addr_log_pointer(i)
  BY Zenon, <1>1, SequencerAndHandlerAgree
<1>4. ASSUME NEW j \in Index
      PROVE  /\ addr_log_pointer(j) \notin DataWords(data_log_pointer(i))
             /\ data_log_pointer(j) # addr_log_pointer(i)
             /\ j # i =>
                  /\ addr_log_pointer(j) # addr_log_pointer(i)
                  /\ data_log_pointer(j) \notin DataWords(data_log_pointer(i))
  <2>1. /\ addr_log_pointer(j) \notin DataWords(data_log_pointer(i))
        /\ addr_log_pointer(i) \notin DataWords(data_log_pointer(j))
        /\ j # i => /\ addr_log_pointer(j) # addr_log_pointer(i)
                    /\ DataWords(data_log_pointer(j))
                         \cap DataWords(data_log_pointer(i)) = {}
    BY Zenon, <1>1, EntriesDisjoint
  <2> QED
    BY Zenon, <1>2, <2>1
<1> QED
  BY Zenon, <1>1, <1>2, <1>3, <1>4

\* A log store that completes writes its part of its entry and nothing else.
EntryWritten(p, a, part, n) ==
  /\ part = "addr" => AddrAt(p, n)' = a /\ DataAt(p, n)' = DataAt(p, n)
  /\ part = "data" =>
       AddrAt(p, n)' = AddrAt(p, n) /\ DataAt(p, n)' = logReq[p][a].old
  /\ \A i \in Index : i # n =>
       AddrAt(p, i)' = AddrAt(p, i) /\ DataAt(p, i)' = DataAt(p, i)

\* The words of the other entries stand (EntriesDisjoint).
LEMMA LogWordEffect ==
  ASSUME DataTypeOK, NEW p \in Proc, NEW a \in Addr,
         NEW part \in {"addr", "data"}, handleStoresToLog(p, a, part),
         NEW n \in Index, n = logReq[p][a].index
  PROVE  /\ EntryWritten(p, a, part, n)
         /\ log' \in [Proc -> [LogWords -> Addr \cup Val \cup {None}]]
<1>1. log \in [Proc -> [LogWords -> Addr \cup Val \cup {None}]]
      /\ logReq[p][a].old \in Val
  <2>1. logReq[p][a] \in LogRequests
    BY Zenon, LogRequestEffect
  <2> QED
    BY Zenon, <2>1 DEF DataTypeOK, LogRequests
<1>2. CASE part = "addr"
  <2>1. log' = [log EXCEPT ![p][addr_log_pointer(n)] = a]
    BY Zenon, <1>2, EntryWords DEF handleStoresToLog
  <2> QED
    BY Zenon, <1>1, <1>2, <2>1, EntryWords DEF EntryWritten, AddrAt, DataAt
<1>3. CASE part = "data"
  <2> DEFINE W == DataWords(data_log_pointer(n))
             f == [w \in LogWords |-> IF w \in W THEN logReq[p][a].old
                                      ELSE log[p][w]]
  <2>1. log' = [log EXCEPT ![p] = f]
    BY Zenon, <1>3 DEF handleStoresToLog
  <2>2. /\ \A w \in LogWords : f[w] = IF w \in W THEN logReq[p][a].old
                                      ELSE log[p][w]
        /\ f \in [LogWords -> Addr \cup Val \cup {None}]
    BY Zenon, <1>1
  <2> HIDE DEF f
  <2>3. log'[p] = f /\ log' \in [Proc -> [LogWords -> Addr \cup Val \cup {None}]]
    BY Zenon, <1>1, <2>1, <2>2
  <2>4. data_log_pointer(n) \in W /\ addr_log_pointer(n) \notin W
    BY Zenon, EntryWords
  <2>5. \A i \in Index : i # n =>
          addr_log_pointer(i) \notin W /\ data_log_pointer(i) \notin W
    BY Zenon, EntryWords
  <2>6. \A i \in Index :
          addr_log_pointer(i) \in LogWords /\ data_log_pointer(i) \in LogWords
    BY Zenon, EntryWords
  <2> HIDE DEF W
  <2> QED
    BY Zenon, <1>3, <2>2, <2>3, <2>4, <2>5, <2>6 DEF EntryWritten, AddrAt, DataAt
<1> QED
  BY Zenon, <1>2, <1>3

\* Once the stores have completed, every entry in use is kept.
LEMMA KeptDone ==
  ASSUME DataTypeOK, NEW p \in Proc, storesDone(p)
  PROVE  Kept(p) = 0 .. logNumEntries[p] - 1
BY EntriesExist DEF Kept, storesDone, Index, DataTypeOK

\* An empty log fits an empty write set.
LEMMA EmptyLog ==
  ASSUME CountFacts, NEW p \in Proc, storesDone(p)', writeSet'[p] = {},
         logNumEntries'[p] = 0, ~unrolling'[p], logSize'[p] = 0,
         toRestore'[p] = {}
  PROVE  LogInv(p)'
<1>1. LogStores(p)'
  BY Zenon DEF LogStores, storesDone
<1>2. Kept(p)' = {}
  BY EntriesExist DEF Kept, Index
<1>3. Entries(p)'
  BY Zenon, <1>2 DEF Entries, CountFacts
<1>4. UnrollPosition(p)'
  BY Zenon DEF UnrollPosition
<1> QED
  BY Zenon, <1>1, <1>3, <1>4 DEF LogInv

\* The handler starts at the last entry; every block of the write set is in
\* the log.
LEMMA LogAborted ==
  ASSUME CountFacts, TypeOK, DataTypeOK, NEW p \in Proc, LogInv(p), abort(p)
  PROVE  LogInv(p)'
<1> DEFINE n == logNumEntries[p]
<1>1. storesDone(p) /\ n \in Nat
  BY EntriesExist DEF abort, DataTypeOK
<1>2. /\ log' = log /\ logNumEntries' = logNumEntries /\ logReq' = logReq
      /\ logSize'[p] = n
      /\ n # 0 => /\ data_log_ptr'[p] = data_log_pointer(n - 1)
                  /\ addr_log_ptr'[p] = addr_log_pointer(n - 1)
  BY Zenon DEF abort, lastEntry, DataTypeOK
<1>3. /\ writeSet'[p] = writeSet[p] /\ toRestore'[p] = writeSet[p]
      /\ unrolling'[p] <=> writeSet[p] # {}
  BY Zenon, LogControl DEF abort, abortTransaction, writeSetAfterAbort, TypeOK
<1>4. LogStores(p)'
  BY Zenon, <1>1, <1>2 DEF LogStores, storesDone
<1>5. Kept(p)' = Kept(p) /\ Kept(p) = 0 .. n - 1
  BY Zenon, <1>1, <1>2, KeptDone DEF Kept
<1>6. Entries(p)'
  BY <1>2, <1>3, <1>5 DEF LogInv, Entries, AddrAt, DataAt
<1>7. writeSet[p] = {AddrAt(p, i) : i \in 0 .. n - 1}
  BY <1>1, <1>5 DEF LogInv, Entries, storesDone, TypeOK
<1>8. toRestore'[p] = {log'[p][addr_log_pointer(i)] : i \in 0 .. logSize'[p] - 1}
  BY Zenon, <1>2, <1>3, <1>7 DEF AddrAt
<1>9. writeSet[p] = {} => n = 0
  BY Zenon DEF LogInv, Entries, CountFacts
<1> HIDE DEF n
<1>10. UnrollPosition(p)'
  <2>1. CASE writeSet[p] # {}
    BY <1>1, <1>2, <1>3, <1>8, <2>1 DEF UnrollPosition, AddrAt, n
  <2>2. CASE writeSet[p] = {}
    BY Zenon, <1>2, <1>3, <1>9, <2>2 DEF UnrollPosition
  <2> QED
    BY Zenon, <2>1, <2>2
<1> QED
  BY Zenon, <1>4, <1>6, <1>10 DEF LogInv

\* A new entry is for a block that the log does not hold.
LEMMA LogStarted ==
  ASSUME CountFacts, TypeOK, DataTypeOK, Serving, NEW p \in Proc,
         NEW a \in Addr, RequestInv(p), LogInv(p), logTransactionalStores(p, a)
  PROVE  LogInv(p)'
<1> DEFINE n == logNumEntries[p]
<1>1. /\ receiveData(p, a) /\ req[p][a].kind = "GETX" /\ req[p][a].trans
      /\ n < LogEntries
  BY Zenon DEF logTransactionalStores
<1>2. req[p][a] # None
  BY Zenon, <1>1 DEF receiveData, Answered, Serving
<1>3. /\ inTx[p] /\ ~unrolling[p] /\ a \notin writeSet[p] /\ storesDone(p)
      /\ req[p][a].age = 0
  BY Zenon, <1>1, <1>2 DEF RequestInv, StoreRequests
<1>4. /\ inTx' = inTx /\ unrolling' = unrolling /\ toRestore' = toRestore
      /\ writeSet'[p] = writeSet[p] \cup {a}
  BY Zenon, <1>1, <1>3 DEF receiveData, TypeOK
<1>5. n \in Nat /\ n \in Index
  BY <1>1, EntriesExist DEF DataTypeOK, Index
<1>6. /\ log' = log /\ logSize' = logSize
      /\ data_log_ptr' = data_log_ptr /\ addr_log_ptr' = addr_log_ptr
      /\ logNumEntries'[p] = n + 1
      /\ \A b \in Addr : b # a => logReq'[p][b] = None
      /\ logReq'[p][a] = [index |-> n, old |-> mem[a], left |-> {"addr", "data"}]
  BY Zenon, <1>3
  DEF logTransactionalStores, addLogEntry, unrollVars, storesDone, DataTypeOK
<1>7. /\ logReq'[p][a] \in LogRequests /\ logReq'[p][a] # None
      /\ logReq'[p][a].index = n /\ logReq'[p][a].left = {"addr", "data"}
  BY <1>5, <1>6, NoLogRequestAssumption DEF LogRequests, DataTypeOK
<1> HIDE DEF n
<1>8. LogStores(p)'
  <2>1. logNumEntries'[p] - 1 = n
    BY <1>5, <1>6
  <2>2. {"addr", "data"} # {} /\ a \in writeSet'[p]
    BY Zenon, <1>4
  <2> QED
    BY Zenon, <1>3, <1>4, <1>6, <1>7, <2>1, <2>2 DEF LogStores
<1>9. Kept(p) = 0 .. n - 1
  BY Zenon, <1>3, KeptDone DEF n
<1>10. Kept(p)' = 0 .. n - 1
  <2>1. ASSUME NEW i \in Index
        PROVE  (\A b \in Addr : logReq'[p][b] # None => logReq'[p][b].index # i)
                 <=> i # n
    BY Zenon, <1>6, <1>7
  <2>2. Kept(p)' = {i \in Index : i < n + 1 /\ i # n}
    BY Zenon, <1>6, <2>1 DEF Kept
  <2> QED
    BY <1>5, <2>2, EntriesExist DEF Index
<1>11. Cardinality(writeSet'[p]) = Cardinality(writeSet[p]) + 1
  <2>1. writeSet[p] \in SUBSET Addr
    BY Zenon DEF TypeOK
  <2> QED
    BY Zenon, <1>3, <1>4, <2>1 DEF CountFacts, CountsIn
<1>12. Entries(p)'
  BY Zenon, <1>3, <1>4, <1>6, <1>7, <1>9, <1>10, <1>11
  DEF LogInv, Entries, AddrAt, DataAt, storesDone, n, TypeOK
<1>13. UnrollPosition(p)'
  BY Zenon, <1>3, <1>4, <1>6 DEF LogInv, UnrollPosition
<1> QED
  BY Zenon, <1>8, <1>12, <1>13 DEF LogInv

\* A log store that completes adds its part to the last entry; the second one
\* makes the entry one of those that count.
LEMMA LogCompleted ==
  ASSUME TypeOK, DataTypeOK, NEW p \in Proc, NEW a \in Addr,
         NEW part \in {"addr", "data"}, LogInv(p), handleStoresToLog(p, a, part)
  PROVE  LogInv(p)'
<1> DEFINE r == logReq[p][a]
<1>0. LogRequestEnds(p, a, part) \/ LogRequestGoesOn(p, a, part)
  BY Zenon, LogRequestEffect
<1>1. r # None /\ r \in LogRequests /\ part \in r.left
  BY Zenon, LogRequestEffect
<1>2. /\ r.left = {part} => logReq'[p][a] = None
      /\ r.left # {part} =>
           /\ logReq'[p][a] # None /\ logReq'[p][a].index = r.index
           /\ logReq'[p][a].old = r.old /\ logReq'[p][a].left = r.left \ {part}
  BY Zenon, <1>0 DEF LogRequestEnds, LogRequestGoesOn
<1>3. PICK n \in Index : n = logReq[p][a].index /\ n = logNumEntries[p] - 1
  BY Zenon, <1>1 DEF LogInv, LogStores, LogRequests
<1>4. /\ inTx[p] /\ ~unrolling[p] /\ a \in writeSet[p]
      /\ "addr" \notin r.left => AddrAt(p, n) = a
      /\ "data" \notin r.left => DataAt(p, n) = r.old
      /\ \A b \in Addr : logReq[p][b] # None => b = a
  BY Zenon, <1>1, <1>3 DEF LogInv, LogStores
<1>5. \A b \in Addr : b # a => logReq'[p][b] = None /\ logReq[p][b] = None
  <2>1. \A b \in Addr : b # a => logReq'[p][b] = logReq[p][b]
    BY Zenon, LogRequestEffect
  <2> QED
    BY Zenon, <1>4, <2>1
<1>6. /\ inTx' = inTx /\ unrolling' = unrolling /\ toRestore' = toRestore
      /\ writeSet' = writeSet /\ logNumEntries' = logNumEntries
      /\ logSize' = logSize
  BY Zenon DEF handleStoresToLog, vars, logVars, setVars, unrollVars
<1>7. /\ part = "addr" => AddrAt(p, n)' = a /\ DataAt(p, n)' = DataAt(p, n)
      /\ part = "data" => AddrAt(p, n)' = AddrAt(p, n) /\ DataAt(p, n)' = r.old
      /\ \A i \in Index : i # n =>
           AddrAt(p, i)' = AddrAt(p, i) /\ DataAt(p, i)' = DataAt(p, i)
  <2>1. n = logReq[p][a].index
    BY Zenon, <1>3
  <2>2. EntryWritten(p, a, part, n)
    BY Zenon, <2>1, LogWordEffect
  <2> QED
    BY Zenon, <2>2 DEF EntryWritten
<1>8. r.index = n /\ r.old \in Val /\ r.left \subseteq {"addr", "data"}
  BY Zenon, <1>1, <1>3 DEF LogRequests
<1>9. UnrollPosition(p)'
  BY Zenon, <1>4, <1>6 DEF LogInv, UnrollPosition
<1>10. Kept(p) = {i \in Index : i < n + 1 /\ i # n}
  <2>1. logNumEntries[p] = n + 1
    BY <1>3, EntriesExist DEF DataTypeOK, Index
  <2> QED
    BY Zenon, <1>1, <1>5, <1>8, <2>1 DEF Kept
<1>11. logNumEntries'[p] = n + 1
  BY <1>3, <1>6, EntriesExist DEF DataTypeOK, Index
<1>a. /\ writeSet[p] \subseteq Addr
      /\ \A i \in Kept(p) : /\ AddrAt(p, i) \in writeSet[p]
                            /\ logReq[p][AddrAt(p, i)] = None
                            /\ DataAt(p, i) \in Val
      /\ \A i, j \in Kept(p) : AddrAt(p, i) = AddrAt(p, j) => i = j
      /\ \A b \in writeSet[p] :
           logReq[p][b] = None => \E i \in Kept(p) : AddrAt(p, i) = b
  <2>1. writeSet[p] \subseteq Addr
    BY Zenon DEF TypeOK
  <2> QED
    BY Zenon, <2>1 DEF LogInv, Entries
<1> HIDE DEF r
<1>12. CASE r.left # {part}
  <2>1. LogStores(p)'
    <3> SUFFICES ASSUME NEW b \in Addr, logReq'[p][b] # None
                 PROVE  /\ inTx'[p] /\ ~unrolling'[p] /\ b \in writeSet'[p]
                        /\ logReq'[p][b].index = logNumEntries'[p] - 1
                        /\ logReq'[p][b].left # {}
                        /\ "addr" \notin logReq'[p][b].left =>
                             log'[p][addr_log_pointer(logReq'[p][b].index)] = b
                        /\ "data" \notin logReq'[p][b].left =>
                             log'[p][data_log_pointer(logReq'[p][b].index)]
                               = logReq'[p][b].old
                        /\ \A c \in Addr : logReq'[p][c] # None => c = b
      BY Zenon DEF LogStores, AddrAt, DataAt
    <3>1. b = a /\ \A c \in Addr : logReq'[p][c] # None => c = a
      BY Zenon, <1>5
    <3>2. /\ logReq'[p][a].index = n /\ logReq'[p][a].old = r.old
          /\ logReq'[p][a].left = r.left \ {part}
      BY Zenon, <1>2, <1>8, <1>12
    <3>3. r.left \ {part} # {}
      BY Zenon, <1>1, <1>12
    <3>4. /\ "addr" \notin r.left \ {part} => AddrAt(p, n)' = a
          /\ "data" \notin r.left \ {part} => DataAt(p, n)' = r.old
      BY Zenon, <1>4, <1>7
    <3>5. n = logNumEntries'[p] - 1
      BY Zenon, <1>3, <1>6
    <3> QED
      BY Zenon, <1>4, <1>6, <3>1, <3>2, <3>3, <3>4, <3>5 DEF AddrAt, DataAt
  <2>2. Kept(p)' = Kept(p)
    <3>1. ASSUME NEW i \in Index
          PROVE  (\A b \in Addr : logReq'[p][b] # None =>
                    logReq'[p][b].index # i) <=> i # n
      BY Zenon, <1>2, <1>5, <1>8, <1>12
    <3> QED
      BY Zenon, <1>10, <1>11, <3>1 DEF Kept
  <2>3. \A i \in Kept(p) :
          AddrAt(p, i)' = AddrAt(p, i) /\ DataAt(p, i)' = DataAt(p, i)
    BY Zenon, <1>7, <1>10
  <2>4. \A b \in Addr : logReq'[p][b] = None <=> logReq[p][b] = None
    BY Zenon, <1>1, <1>2, <1>5, <1>12 DEF r
  <2>5. Entries(p)'
    <3>1. logNumEntries'[p] = Cardinality(writeSet'[p])
      BY Zenon, <1>6 DEF LogInv, Entries
    <3>2. ASSUME NEW i \in Kept(p)
          PROVE  /\ AddrAt(p, i)' \in writeSet'[p]
                 /\ logReq'[p][AddrAt(p, i)'] = None
                 /\ DataAt(p, i)' \in Val
      <4>1. AddrAt(p, i)' = AddrAt(p, i) /\ DataAt(p, i)' = DataAt(p, i)
        BY Zenon, <2>3
      <4>2. /\ AddrAt(p, i) \in writeSet[p] /\ AddrAt(p, i) \in Addr
            /\ logReq[p][AddrAt(p, i)] = None /\ DataAt(p, i) \in Val
        BY Zenon, <1>a
      <4>3. logReq'[p][AddrAt(p, i)] = None
        BY Zenon, <2>4, <4>2
      <4> QED
        BY Zenon, <1>6, <4>1, <4>2, <4>3
    <3>3. \A i, j \in Kept(p) : AddrAt(p, i)' = AddrAt(p, j)' => i = j
      BY Zenon, <1>a, <2>3
    <3>4. ASSUME NEW b \in writeSet'[p], logReq'[p][b] = None
          PROVE  \E i \in Kept(p) : AddrAt(p, i)' = b
      BY Zenon, <1>6, <1>a, <2>3, <2>4, <3>4
    <3> QED
      BY Zenon, <2>2, <3>1, <3>2, <3>3, <3>4 DEF Entries
  <2> QED
    BY Zenon, <1>9, <2>1, <2>5 DEF LogInv
<1>13. CASE r.left = {part}
  <2>1. \A b \in Addr : logReq'[p][b] = None
    BY Zenon, <1>2, <1>5, <1>13
  <2>2. LogStores(p)'
    BY Zenon, <2>1 DEF LogStores
  <2>3. Kept(p)' = Kept(p) \cup {n} /\ n \notin Kept(p)
    <3>1. Kept(p)' = {i \in Index : i < n + 1}
      BY Zenon, <1>11, <2>1 DEF Kept
    <3> QED
      BY <1>3, <1>10, <3>1, EntriesExist DEF Index
  <2>4. AddrAt(p, n)' = a /\ DataAt(p, n)' = r.old
    BY Zenon, <1>4, <1>7, <1>13
  <2>5. \A i \in Kept(p) :
          AddrAt(p, i)' = AddrAt(p, i) /\ DataAt(p, i)' = DataAt(p, i)
    BY Zenon, <1>7, <1>10
  <2>6. \A i \in Kept(p) : AddrAt(p, i) # a
    BY Zenon, <1>1 DEF LogInv, Entries, r
  <2>7. Entries(p)'
    <3>1. logNumEntries'[p] = Cardinality(writeSet'[p])
      BY Zenon, <1>6 DEF LogInv, Entries
    <3>2. ASSUME NEW i \in Kept(p)'
          PROVE  /\ AddrAt(p, i)' \in writeSet'[p]
                 /\ logReq'[p][AddrAt(p, i)'] = None
                 /\ DataAt(p, i)' \in Val
      <4>1. CASE i = n
        BY Zenon, <1>4, <1>6, <1>8, <1>a, <2>1, <2>4, <4>1
      <4>2. CASE i \in Kept(p)
        <5>1. AddrAt(p, i)' = AddrAt(p, i) /\ DataAt(p, i)' = DataAt(p, i)
          BY Zenon, <2>5, <4>2
        <5>2. /\ AddrAt(p, i) \in writeSet[p] /\ AddrAt(p, i) \in Addr
              /\ DataAt(p, i) \in Val
          BY Zenon, <1>a, <4>2
        <5>3. logReq'[p][AddrAt(p, i)] = None
          BY Zenon, <2>1, <5>2
        <5> QED
          BY Zenon, <1>6, <5>1, <5>2, <5>3
      <4> QED
        BY Zenon, <2>3, <3>2, <4>1, <4>2
    <3>3. ASSUME NEW i \in Kept(p)', NEW j \in Kept(p)',
                 AddrAt(p, i)' = AddrAt(p, j)'
          PROVE  i = j
      <4>1. CASE i \in Kept(p) /\ j \in Kept(p)
        BY Zenon, <1>a, <2>5, <3>3, <4>1
      <4>2. CASE i = n /\ j \in Kept(p)
        BY Zenon, <2>4, <2>5, <2>6, <3>3, <4>2
      <4>3. CASE i \in Kept(p) /\ j = n
        BY Zenon, <2>4, <2>5, <2>6, <3>3, <4>3
      <4> QED
        BY Zenon, <2>3, <3>3, <4>1, <4>2, <4>3
    <3>4. ASSUME NEW b \in writeSet'[p]
          PROVE  \E i \in Kept(p)' : AddrAt(p, i)' = b
      <4>1. CASE b = a
        BY Zenon, <2>3, <2>4, <4>1
      <4>2. CASE b # a
        <5>1. PICK i \in Kept(p) : AddrAt(p, i) = b
          BY Zenon, <1>5, <1>6, <1>a, <3>4, <4>2
        <5> QED
          BY Zenon, <2>3, <2>5, <5>1
      <4> QED
        BY Zenon, <4>1, <4>2
    <3> QED
      BY Zenon, <3>1, <3>2, <3>3, <3>4 DEF Entries
  <2> QED
    BY Zenon, <1>9, <2>2, <2>7 DEF LogInv
<1> QED
  BY Zenon, <1>12, <1>13

\* The block restored is that of the last entry not restored yet; the pointers
\* move to the entry before.
LEMMA LogRestored ==
  ASSUME TypeOK, DataTypeOK, Serving, NEW p \in Proc, NEW a \in Addr,
         RequestInv(p), LogInv(p), restored(p, a)
  PROVE  /\ LogInv(p)'
         /\ logSize[p] - 1 \in Kept(p) /\ a = AddrAt(p, logSize[p] - 1)
         /\ log[p][data_log_ptr[p]] = DataAt(p, logSize[p] - 1)
<1>1. /\ receiveData(p, a) /\ ~req[p][a].trans /\ unrolling[p]
      /\ log' = log /\ logNumEntries' = logNumEntries /\ logReq' = logReq
  BY Zenon DEF restored
<1>2. req[p][a] # None
  BY Zenon, <1>1 DEF receiveData, Answered, Serving
<1>3. logSize[p] > 0 /\ a = log[p][addr_log_ptr[p]]
  BY Zenon, <1>1, <1>2 DEF RequestInv, PlainRequests
<1>4. PICK n \in Nat : logSize[p] = n + 1
  <2>1. logSize[p] \in Nat
    BY EntriesExist DEF DataTypeOK
  <2>2. logSize[p] - 1 \in Nat /\ logSize[p] = (logSize[p] - 1) + 1
    BY <1>3, <2>1
  <2> QED
    BY Zenon, <2>2
<1>5. /\ n + 1 <= logNumEntries[p] /\ logNumEntries[p] \in Nat
      /\ toRestore[p] = {AddrAt(p, i) : i \in 0 .. n}
      /\ data_log_ptr[p] = data_log_pointer(n)
      /\ addr_log_ptr[p] = addr_log_pointer(n)
  <2>1. logSize[p] - 1 = n
    BY <1>4
  <2>2. logNumEntries[p] \in Nat
    BY EntriesExist DEF DataTypeOK
  <2> QED
    BY Zenon, <1>1, <1>3, <1>4, <2>1, <2>2 DEF LogInv, UnrollPosition
<1>6. storesDone(p)
  BY Zenon, <1>1 DEF LogInv, LogStores, storesDone
<1>7. Kept(p) = 0 .. logNumEntries[p] - 1 /\ n \in Kept(p)
  BY <1>5, <1>6, KeptDone
<1>8. a = AddrAt(p, n)
  BY Zenon, <1>3, <1>5 DEF AddrAt
<1>9. /\ unrolling' = unrolling /\ writeSet' = writeSet /\ inTx' = inTx
      /\ toRestore'[p] = toRestore[p] \ {a}
  BY Zenon, <1>1 DEF receiveData, TypeOK
<1>10. toRestore'[p] = {AddrAt(p, i) : i \in 0 .. n - 1}
  <2>1. \A i \in 0 .. n : i \in Kept(p)
    <3>1. n + 1 <= logNumEntries[p] /\ logNumEntries[p] \in Nat
      BY Zenon, <1>5
    <3>2. \A i \in 0 .. n : i \in 0 .. logNumEntries[p] - 1
      BY <3>1
    <3> QED
      BY Zenon, <1>7, <3>2
  <2>2. \A i \in 0 .. n : AddrAt(p, i) = a => i = n
    BY Zenon, <1>7, <1>8, <2>1 DEF LogInv, Entries
  <2>3. \A i \in 0 .. n : i # n => i \in 0 .. n - 1
    OBVIOUS
  <2>4. \A i \in 0 .. n - 1 : i \in 0 .. n /\ i # n
    OBVIOUS
  <2> QED
    BY Zenon, <1>5, <1>8, <1>9, <2>2, <2>3, <2>4
<1>11. /\ logSize'[p] = n
       /\ n # 0 => /\ data_log_ptr'[p] = data_log_pointer(n - 1)
                   /\ addr_log_ptr'[p] = addr_log_pointer(n - 1)
  <2>1. logSize[p] - 1 = n
    BY <1>4
  <2>2. logSize'[p] = n
    BY Zenon, <2>1 DEF restored, DataTypeOK
  <2>3. ASSUME n # 0
        PROVE  /\ data_log_ptr'[p] = previousData(n, data_log_ptr[p])
               /\ addr_log_ptr'[p] =
                    previousAddr(n, data_log_ptr[p], addr_log_ptr[p])
    BY Zenon, <2>1, <2>3 DEF restored, DataTypeOK
  <2> QED
    BY Zenon, <1>5, <2>2, <2>3, UnrollPointers
<1>12. LogStores(p)'
  BY Zenon, <1>1, <1>6 DEF LogStores, storesDone
<1>13. Kept(p)' = Kept(p)
  BY Zenon, <1>1 DEF Kept
<1>14. Entries(p)'
  <2>1. \A i : AddrAt(p, i)' = AddrAt(p, i) /\ DataAt(p, i)' = DataAt(p, i)
    BY Zenon, <1>1 DEF AddrAt, DataAt
  <2>2. \A i \in Kept(p) : /\ AddrAt(p, i)' \in writeSet[p]
                           /\ logReq'[p][AddrAt(p, i)'] = None
                           /\ DataAt(p, i)' \in Val
    <3>1. \A i \in Kept(p) : /\ AddrAt(p, i) \in writeSet[p]
                             /\ logReq[p][AddrAt(p, i)] = None
                             /\ DataAt(p, i) \in Val
      BY Zenon DEF LogInv, Entries
    <3>2. logReq' = logReq
      BY Zenon, <1>1
    <3> QED
      BY Zenon, <2>1, <3>1, <3>2
  <2>3. \A i, j \in Kept(p) : AddrAt(p, i)' = AddrAt(p, j)' => i = j
    BY Zenon, <2>1 DEF LogInv, Entries
  <2>4. \A b \in writeSet[p] :
          logReq'[p][b] = None => \E i \in Kept(p) : AddrAt(p, i)' = b
    BY Zenon, <1>1, <2>1 DEF LogInv, Entries
  <2>5. logNumEntries'[p] = Cardinality(writeSet'[p]) /\ writeSet'[p] = writeSet[p]
    BY Zenon, <1>1, <1>9 DEF LogInv, Entries
  <2> QED
    BY Zenon, <1>13, <2>2, <2>3, <2>4, <2>5 DEF Entries
<1>15. UnrollPosition(p)'
  <2>1. toRestore'[p] = {log'[p][addr_log_pointer(i)] : i \in 0 .. logSize'[p] - 1}
    BY Zenon, <1>1, <1>10, <1>11 DEF AddrAt
  <2>2. n <= logNumEntries'[p]
    <3>1. n + 1 <= logNumEntries[p] /\ logNumEntries[p] \in Nat
      BY Zenon, <1>5
    <3> QED
      BY <1>1, <3>1
  <2>3. n > 0 => n # 0
    OBVIOUS
  <2> QED
    BY Zenon, <1>1, <1>9, <1>11, <2>1, <2>2, <2>3 DEF UnrollPosition, AddrAt
<1>16. logSize[p] - 1 = n
  BY <1>4
<1> QED
  BY Zenon, <1>5, <1>7, <1>8, <1>12, <1>14, <1>15, <1>16 DEF LogInv, DataAt

\* Every step of a core keeps its log exact.
LEMMA LogStep ==
  ASSUME CountFacts, TypeOK, DataTypeOK, Serving, NEW p \in Proc,
         RequestInv(p), LogInv(p), DataStep(p)
  PROVE  LogInv(p)'
<1> USE DEF dataVars, undoVars, unrollVars, txVars
<1>1. CASE ControlStep(p)
  BY Zenon, <1>1, LogKept
  DEF ControlStep, beginTransaction, serveRequest, answer, receiveNack,
      xactReplacement, logVars, setVars, TypeOK
<1>2. CASE commit(p)
  <2>1. /\ storesDone(p) /\ logReq' = logReq /\ logSize' = logSize
        /\ logNumEntries'[p] = 0 /\ writeSet'[p] = {}
        /\ ~unrolling[p] /\ unrolling' = unrolling /\ toRestore' = toRestore
    BY Zenon, <1>2 DEF commit, commitTransaction, isDoomed, logVars, TypeOK, DataTypeOK
  <2>2. logSize[p] = 0 /\ toRestore[p] = {} /\ storesDone(p)'
    BY Zenon, <2>1 DEF LogInv, UnrollPosition, storesDone
  <2> QED
    BY Zenon, <2>1, <2>2, EmptyLog
<1>3. CASE abort(p)
  BY Zenon, <1>3, LogAborted
<1>4. CASE simEndLogUnroll(p)
  <2>1. /\ unrolling[p] /\ ~unrolling'[p] /\ logReq' = logReq
        /\ logNumEntries'[p] = 0 /\ writeSet'[p] = {} /\ logSize'[p] = 0
        /\ toRestore'[p] = {}
    BY Zenon, <1>4 DEF simEndLogUnroll, endLogUnroll, TypeOK, DataTypeOK
  <2>2. storesDone(p)'
    BY Zenon, <2>1 DEF LogInv, LogStores, storesDone
  <2> QED
    BY Zenon, <2>1, <2>2, EmptyLog
<1>5. CASE logtm_log_unroll(p)
  BY Zenon, <1>5, LogKept DEF logtm_log_unroll, issueRestore, logVars, setVars
<1>6. ASSUME NEW a \in Addr,
             issueLoad(p, a) \/ issueStore(p, a) \/ issueOutside(p, a)
      PROVE  LogInv(p)'
  BY Zenon, <1>6, LogKept
  DEF issueLoad, issueStore, issueOutside, issueRequest, issueNonTransactional,
      logVars, setVars
<1>7. ASSUME NEW a \in Addr, loadCallback(p, a)
      PROVE  LogInv(p)'
  <2>1. req[p][a] # None
    BY Zenon, <1>7 DEF loadCallback, receiveData, Answered, Serving
  <2>2. req[p][a].trans
    BY Zenon, <1>7, <2>1 DEF loadCallback, RequestInv, LoadRequests
  <2> QED
    BY Zenon, <1>7, <2>2, LogKept DEF loadCallback, receiveData
<1>8. ASSUME NEW a \in Addr, logTransactionalStores(p, a)
      PROVE  LogInv(p)'
  BY Zenon, <1>8, LogStarted
<1>9. ASSUME NEW a \in Addr, NEW part \in {"addr", "data"},
             handleStoresToLog(p, a, part)
      PROVE  LogInv(p)'
  BY Zenon, <1>9, LogCompleted
<1>10. ASSUME NEW a \in Addr, NEW v \in Val, storeHit(p, a, v)
       PROVE  LogInv(p)'
  BY Zenon, <1>10, LogKept DEF storeHit, vars, logVars, setVars
<1>11. ASSUME NEW a \in Addr, NEW v \in Val, outsideStore(p, a, v)
       PROVE  LogInv(p)'
  <2>1. /\ receiveData(p, a) /\ ~req[p][a].trans /\ ~unrolling[p]
        /\ UNCHANGED undoVars
    BY Zenon, <1>11 DEF outsideStore
  <2>2. toRestore[p] = {}
    BY Zenon, <2>1 DEF LogInv, UnrollPosition
  <2>3. /\ toRestore'[p] = toRestore[p] /\ writeSet' = writeSet
        /\ unrolling' = unrolling /\ inTx' = inTx
    BY Zenon, <2>1, <2>2 DEF receiveData, TypeOK
  <2> QED
    BY Zenon, <2>1, <2>3, LogKept
<1>12. ASSUME NEW a \in Addr, restored(p, a)
       PROVE  LogInv(p)'
  BY Zenon, <1>12, LogRestored
<1> QED
  BY Zenon, <1>1, <1>2, <1>3, <1>4, <1>5, <1>6, <1>7, <1>8, <1>9, <1>10, <1>11, <1>12
  DEF DataStep

\* Every step keeps the types of the data; a block gets back a value that the
\* log has kept.
LEMMA DataTypeStep ==
  ASSUME TypeOK, DataTypeOK, Serving, NEW p \in Proc, RequestInv(p), LogInv(p),
         DataStep(p)
  PROVE  DataTypeOK'
<1> USE DEF dataVars, undoVars, unrollVars, txVars
<1>0. 0 \in 0 .. LogEntries /\ LogEntries \in Nat
  BY EntriesExist
<1>1. ASSUME UNCHANGED dataVars
      PROVE  DataTypeOK'
  BY Zenon, <1>1 DEF DataTypeOK
<1>2. NoBlocks \in [Addr -> Val \cup {None}]
  BY Zenon DEF NoBlocks
<1>3. CASE commit(p)
  BY Zenon, <1>0, <1>2, <1>3 DEF commit, DataTypeOK
<1>4. CASE abort(p)
  <2>1. logNumEntries[p] \in 0 .. LogEntries
    BY Zenon DEF DataTypeOK
  <2>2. logNumEntries[p] # 0 => lastEntry(p) \in Index
    BY <1>0, <2>1 DEF lastEntry, Index
  <2>3. logNumEntries[p] # 0 => /\ data_log_pointer(lastEntry(p)) \in LogWords
                                /\ addr_log_pointer(lastEntry(p)) \in LogWords
    BY Zenon, <2>2, EntryWords
  <2>4. data_log_ptr' \in [Proc -> LogWords] /\ addr_log_ptr' \in [Proc -> LogWords]
    BY Zenon, <1>4, <2>3 DEF abort, DataTypeOK
  <2> QED
    BY Zenon, <1>2, <1>4, <2>1, <2>4 DEF abort, DataTypeOK
<1>5. CASE simEndLogUnroll(p)
  BY Zenon, <1>0, <1>5 DEF simEndLogUnroll, DataTypeOK
<1>6. ASSUME NEW a \in Addr, loadCallback(p, a)
      PROVE  DataTypeOK'
  <2>1. mem[a] \in Val
    BY Zenon DEF DataTypeOK
  <2>2. loaded' \in [Proc -> [Addr -> Val \cup {None}]]
    BY Zenon, <1>6, <2>1 DEF loadCallback, DataTypeOK
  <2> QED
    BY Zenon, <1>6, <2>2 DEF loadCallback, DataTypeOK
<1>7. ASSUME NEW a \in Addr, logTransactionalStores(p, a)
      PROVE  DataTypeOK'
  <2>1. logNumEntries[p] \in Index /\ logNumEntries[p] + 1 \in 0 .. LogEntries
    BY <1>0, <1>7 DEF logTransactionalStores, DataTypeOK, Index
  <2>2. [index |-> addLogEntry(p), old |-> mem[a], left |-> {"addr", "data"}]
          \in LogRequests
    BY Zenon, <2>1 DEF LogRequests, addLogEntry, DataTypeOK
  <2>3. logReq' \in [Proc -> [Addr -> {None} \cup LogRequests]]
    BY Zenon, <1>7, <2>2 DEF logTransactionalStores, DataTypeOK
  <2> QED
    BY Zenon, <1>7, <2>1, <2>3 DEF logTransactionalStores, DataTypeOK
<1>8. ASSUME NEW a \in Addr, NEW part \in {"addr", "data"},
             handleStoresToLog(p, a, part)
      PROVE  DataTypeOK'
  <2>1. logReq[p][a] \in LogRequests
    BY Zenon, <1>8, LogRequestEffect
  <2>2. logReq[p][a].index \in Index
    BY Zenon, <2>1 DEF LogRequests
  <2>3. log' \in [Proc -> [LogWords -> Addr \cup Val \cup {None}]]
    BY Zenon, <1>8, <2>2, LogWordEffect
  <2>4. logReq' \in [Proc -> [Addr -> {None} \cup LogRequests]]
    <3>1. CASE logReq[p][a].left = {part}
      <4>1. logReq' = [logReq EXCEPT ![p][a] = None]
        BY Zenon, <1>8, <3>1 DEF handleStoresToLog
      <4> QED
        BY Zenon, <4>1 DEF DataTypeOK
    <3>2. CASE logReq[p][a].left # {part}
      <4>1. logReq' = [logReq EXCEPT ![p][a].left = @ \ {part}]
        BY Zenon, <1>8, <3>2 DEF handleStoresToLog
      <4>2. [logReq[p][a] EXCEPT !.left = @ \ {part}] \in LogRequests
        BY Zenon, <2>1 DEF LogRequests
      <4> QED
        BY Zenon, <4>1, <4>2 DEF DataTypeOK
    <3> QED
      BY Zenon, <3>1, <3>2
  <2>5. mem' \in [Addr -> Val] /\ stored' \in [Proc -> [Addr -> Val \cup {None}]]
    <3>1. \/ mem' = mem /\ stored' = stored
          \/ \E v \in Val : /\ mem' = [mem EXCEPT ![a] = v]
                            /\ stored' = [stored EXCEPT ![p][a] = v]
      BY Zenon, <1>8 DEF handleStoresToLog
    <3> QED
      <4>1. ASSUME NEW v \in Val, mem' = [mem EXCEPT ![a] = v],
                   stored' = [stored EXCEPT ![p][a] = v]
            PROVE  /\ mem' \in [Addr -> Val]
                   /\ stored' \in [Proc -> [Addr -> Val \cup {None}]]
        BY Zenon, <4>1 DEF DataTypeOK
      <4> QED
        BY Zenon, <3>1, <4>1 DEF DataTypeOK
  <2>6. UNCHANGED <<logNumEntries, unrollVars, loaded, outcome>>
    BY Zenon, <1>8 DEF handleStoresToLog
  <2> QED
    BY Zenon, <2>3, <2>4, <2>5, <2>6 DEF DataTypeOK
<1>9. ASSUME NEW a \in Addr, NEW v \in Val,
             storeHit(p, a, v) \/ outsideStore(p, a, v)
      PROVE  DataTypeOK'
  <2>1. /\ mem' = [mem EXCEPT ![a] = v]
        /\ stored' = stored \/ stored' = [stored EXCEPT ![p][a] = v]
        /\ UNCHANGED <<undoVars, loaded, outcome>>
    BY Zenon, <1>9 DEF storeHit, outsideStore
  <2>2. ASSUME stored' = [stored EXCEPT ![p][a] = v]
        PROVE  stored' \in [Proc -> [Addr -> Val \cup {None}]]
    BY Zenon, <2>2 DEF DataTypeOK
  <2>3. mem' \in [Addr -> Val]
    BY Zenon, <2>1 DEF DataTypeOK
  <2> QED
    BY Zenon, <2>1, <2>2, <2>3 DEF DataTypeOK
<1>10. ASSUME NEW a \in Addr, restored(p, a)
       PROVE  DataTypeOK'
  <2>1. /\ logSize[p] - 1 \in Kept(p)
        /\ log[p][data_log_ptr[p]] = DataAt(p, logSize[p] - 1)
        /\ LogInv(p)'
    BY Zenon, <1>10, LogRestored
  <2>2. log[p][data_log_ptr[p]] \in Val
    <3>1. \A i \in Kept(p) : DataAt(p, i) \in Val
      BY Zenon DEF LogInv, Entries
    <3> QED
      BY Zenon, <2>1, <3>1
  <2>3. logSize[p] - 1 \in Index
    BY Zenon, <2>1 DEF Kept
  <2>4. logSize[p] - 1 \in 0 .. LogEntries
    BY <1>0, <2>3 DEF Index
  <2>5. 0 \in LogWords
    BY Zenon, FirstWord
  <2>6. data_log_ptr'[p] \in LogWords /\ addr_log_ptr'[p] \in LogWords
    <3>1. logSize'[p] = logSize[p] - 1 /\ unrolling'[p]
      BY Zenon, <1>10 DEF restored, receiveData, DataTypeOK
    <3>2. CASE logSize[p] - 1 = 0
      BY Zenon, <1>10, <2>5, <3>2 DEF restored, DataTypeOK
    <3>3. CASE logSize[p] - 1 # 0
      <4>1. logSize[p] - 1 - 1 \in Index /\ logSize[p] - 1 > 0
        <5>1. logSize[p] \in Nat
          BY <1>0 DEF DataTypeOK
        <5> QED
          BY <1>0, <2>3, <3>3, <5>1 DEF Index
      <4>2. /\ data_log_ptr'[p] = data_log_pointer(logSize[p] - 1 - 1)
            /\ addr_log_ptr'[p] = addr_log_pointer(logSize[p] - 1 - 1)
        BY Zenon, <2>1, <3>1, <4>1 DEF LogInv, UnrollPosition
      <4> QED
        BY Zenon, <4>1, <4>2, EntryWords
    <3> QED
      BY Zenon, <3>2, <3>3
  <2>7. data_log_ptr' \in [Proc -> LogWords] /\ addr_log_ptr' \in [Proc -> LogWords]
    BY Zenon, <1>10, <2>6 DEF restored, DataTypeOK
  <2> QED
    BY Zenon, <1>10, <2>2, <2>4, <2>7 DEF restored, DataTypeOK
<1> QED
  BY Zenon, <1>1, <1>3, <1>4, <1>5, <1>6, <1>7, <1>8, <1>9, <1>10
  DEF DataStep, ControlStep, logtm_log_unroll, issueLoad, issueStore,
      issueOutside

-----------------------------------------------------------------------------
(* The invariant                                                           *)

DInv == DataTypeOK /\ CoreInv /\ Charged

\* The invariant holds initially.
LEMMA DataInitInv ==
  ASSUME CountFacts, DataInit
  PROVE  DInv
<1> USE DEF DataInit, Init, NoBlocks
<1>1. DataTypeOK
  <2>1. 0 \in 0 .. LogEntries /\ 0 \in LogWords
    BY EntriesExist, FirstWord
  <2>2. /\ mem \in [Addr -> Val]
        /\ log \in [Proc -> [LogWords -> Addr \cup Val \cup {None}]]
        /\ outcome \in [Proc -> {"idle", "committed", "aborted"}]
    BY Zenon, ValAssumption
  <2>3. /\ logReq \in [Proc -> [Addr -> {None} \cup LogRequests]]
        /\ loaded \in [Proc -> [Addr -> Val \cup {None}]]
        /\ stored \in [Proc -> [Addr -> Val \cup {None}]]
    OBVIOUS
  <2>4. /\ logNumEntries \in [Proc -> 0..LogEntries]
        /\ logSize \in [Proc -> 0..LogEntries]
        /\ data_log_ptr \in [Proc -> LogWords]
        /\ addr_log_ptr \in [Proc -> LogWords]
    BY Zenon, <2>1
  <2> QED
    BY Zenon, <2>2, <2>3, <2>4 DEF DataTypeOK
<1>2. ASSUME NEW p \in Proc
      PROVE  RequestInv(p) /\ LogInv(p)
  <2>1. RequestInv(p)
    BY Zenon DEF RequestInv, StoreRequests, LoadRequests, PlainRequests, Outside
  <2>2. LogStores(p) /\ UnrollPosition(p)
    BY Zenon DEF LogStores, UnrollPosition
  <2>3. Kept(p) = {}
    BY EntriesExist DEF Kept, Index
  <2>4. Entries(p)
    BY Zenon, <2>3 DEF Entries, CountFacts
  <2> QED
    BY Zenon, <2>1, <2>2, <2>4 DEF LogInv
<1>3. ASSUME NEW p \in Proc
      PROVE  Charge(p) <= MaxOutstanding[p]
  <2>1. Held(p) = {} /\ Packets(p) = {} /\ pendingLogging(p) = {}
    BY Zenon DEF Held, Packets, pendingLogging
  <2>2. Charge(p) = 0
    BY <2>1 DEF Charge, Count, CountFacts
  <2> QED
    BY <2>2, LogAssumption
<1> QED
  BY Zenon, <1>1, <1>2, <1>3 DEF DInv, CoreInv, Charged

\* It is inductive, with the part of the conflict manager's invariant that
\* holds under both policies.
LEMMA DataInvariance ==
  ASSUME CountFacts
  PROVE  DataSpec => [](UInv /\ DInv)
<1>1. UInv /\ DInv /\ [DataNext]_<<vars, dataVars>> => DInv'
  <2> SUFFICES ASSUME UInv, DInv, [DataNext]_<<vars, dataVars>>
               PROVE  DInv'
    OBVIOUS
  <2>1. CASE DataNext
    <3>1. PICK p \in Proc : DataStep(p)
      BY Zenon, <2>1 DEF DataNext
    <3>2. RequestInv(p) /\ LogInv(p)
      BY Zenon DEF DInv, CoreInv
    <3>3. RequestInv(p)' /\ LogInv(p)' /\ DataTypeOK'
      BY Zenon, <3>1, <3>2, RequestStep, LogStep, DataTypeStep DEF UInv, DInv
    <3>4. ASSUME NEW q \in Proc, q # p
          PROVE  RequestInv(q)' /\ LogInv(q)'
      <4>1. ControlStands(q) /\ DataStands(q)
        BY Zenon, <3>1, <3>4, OthersStand DEF UInv, DInv
      <4> QED
        BY Zenon, <4>1, CoreStands DEF DInv, CoreInv
    <3>5. CoreInv'
      BY Zenon, <3>3, <3>4 DEF CoreInv
    <3>6. Charged'
      BY Zenon, <3>1, ChargeStep DEF UInv, DInv
    <3> QED
      BY Zenon, <3>3, <3>5, <3>6 DEF DInv
  <2>2. CASE UNCHANGED <<vars, dataVars>>
    <3> USE <2>2 DEF vars, logVars, setVars, dataVars, undoVars, unrollVars, txVars
    <3>1. DataTypeOK'
      BY Zenon DEF DataTypeOK, DInv
    <3>2. ASSUME NEW q \in Proc
          PROVE  RequestInv(q)' /\ LogInv(q)' /\ Charge(q)' <= MaxOutstanding[q]
      <4>1. ControlStands(q) /\ DataStands(q)
        BY Zenon DEF ControlStands, DataStands
      <4>2. RequestInv(q)' /\ LogInv(q)'
        BY Zenon, <4>1, CoreStands DEF DInv, CoreInv
      <4>3. /\ Held(q)' = Held(q) /\ Packets(q)' = Packets(q)
            /\ pendingLogging(q)' = pendingLogging(q)
        BY Zenon, <4>1 DEF Held, Packets, pendingLogging, ControlStands, DataStands
      <4> QED
        BY Zenon, <4>2, <4>3, ChargeShrinks DEF DInv
    <3> QED
      BY Zenon, <3>1, <3>2 DEF DInv, CoreInv, Charged
  <2> QED
    BY Zenon, <2>1, <2>2
<1>2. DataInit => DInv
  BY Zenon, DataInitInv
<1> QED
  BY <1>1, <1>2, DataRefinesControl, UnrollInvariance, PTL DEF DataSpec
=============================================================================
