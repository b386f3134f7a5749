--------------------------- MODULE RamLoadProofs ---------------------------
(***************************************************************************)
(* Proofs about RamLoad for files of all sizes, every size and limit of    *)
(* banks and both builds: whichever allocation fails, a load is what its   *)
(* result says, and nothing is freed that is not allocated.                *)
(***************************************************************************)
EXTENDS RamLoad, TLAPS

\* Banks that are counted rounded up hold the file, if a byte can count them.
LEMMA RoundedUp ==
    ASSUME NEW size \in Nat, size <= (ByteRange - 1) * BankSize,
           NEW whole, whole = (size \div BankSize) % ByteRange,
           NEW more, more = IF size % BankSize = 0 THEN 0 ELSE 1
    PROVE  size <= ((whole + more) % ByteRange) * BankSize
  <1> DEFINE q == size \div BankSize
             r == size % BankSize
             n == ByteRange - 1
  <1>1. BankSize \in Nat \ {0} /\ ByteRange \in Nat /\ n \in Nat /\ n >= 1
    BY LoadAssumption
  <1>2. q \in Nat /\ r \in 0 .. BankSize - 1 /\ size = q * BankSize + r
    BY <1>1
  <1> HIDE DEF q, r
  <1>3. q * BankSize \in Nat /\ n * BankSize \in Nat
    BY <1>1, <1>2
  <1>4. q <= n
    <2>1. SUFFICES ASSUME q >= n + 1 PROVE FALSE
      BY <1>1, <1>2
    <2>2. PICK k \in Nat : q = n + 1 + k
      <3>1. q - (n + 1) \in Nat /\ q = n + 1 + (q - (n + 1))
        BY <1>1, <1>2, <2>1
      <3>2. QED BY <3>1
    <2>3. q * BankSize = n * BankSize + BankSize + k * BankSize
      BY <1>1, <2>2
    <2>4. k * BankSize \in Nat
      BY <1>1
    <2>5. QED BY <1>1, <1>2, <1>3, <2>3, <2>4
  <1>5. whole = q
    BY <1>1, <1>2, <1>4 DEF q
  <1>6. CASE r = 0
    <2>1. more = 0 /\ (whole + more) % ByteRange = q
      BY <1>1, <1>2, <1>4, <1>5, <1>6 DEF r
    <2>2. QED BY <1>2, <1>3, <1>6, <2>1
  <1>7. CASE r # 0
    <2>1. q < n
      BY <1>1, <1>2, <1>3, <1>4, <1>7
    <2>2. more = 1 /\ (whole + more) % ByteRange = q + 1
      BY <1>1, <1>2, <1>5, <1>7, <2>1 DEF r
    <2>3. (q + 1) * BankSize = q * BankSize + BankSize
      BY <1>1, <1>2
    <2>4. QED BY <1>1, <1>2, <1>3, <2>2, <2>3
  <1>8. QED BY <1>6, <1>7

\* One bank more.
LEMMA OneMore ==
    ASSUME NEW n \in Nat
    PROVE  BanksOf(n + 1) = BanksOf(n) \cup {Bank(n)}
  <1>1. 0 .. (n + 1) - 1 = (0 .. n - 1) \cup {n}
    OBVIOUS
  <1>2. {Bank(b) : b \in 0 .. (n + 1) - 1} = {Bank(b) : b \in 0 .. n - 1} \cup {Bank(n)}
    BY <1>1
  <1>3. QED BY <1>2 DEF BanksOf

\* The memory of fewer banks is part of that of more, and the handle is neither.
LEMMA FewerBanks ==
    ASSUME NEW m \in Nat, NEW n \in Nat, m <= n
    PROVE  BanksOf(m) \subseteq BanksOf(n) /\ Handle \notin BanksOf(n)
  <1>1. 0 .. m - 1 \subseteq 0 .. n - 1
    OBVIOUS
  <1>2. BanksOf(m) \subseteq BanksOf(n)
    BY <1>1 DEF BanksOf
  <1>3. Handle \notin BanksOf(n)
    BY DEF BanksOf, Handle, Tables, Bank
  <1>4. QED BY <1>2, <1>3

\* The inductive invariant holds at first.
LEMMA LoadStarts == Init => LoadInv
  <1> SUFFICES ASSUME Init PROVE LoadInv
    OBVIOUS
  <1> USE LoadAssumption DEF Init
  <1>1. TypeOK
    <2>1. banks \in 0 .. ByteRange - 1 /\ number_of_banks \in 0 .. MaxBanks
      OBVIOUS
    <2>2. p_handle \in BOOLEAN /\ wild \in BOOLEAN /\ result \in Results
      BY DEF Results
    <2>3. QED BY <2>1, <2>2 DEF TypeOK
  <1>2. NoWildFree
    BY DEF NoWildFree
  <1>3. CountInv
    BY DEF CountInv, Allocating, Filling
  <1>4. HeapInv
    BY DEF HeapInv, Allocating, Filling
  <1>5. ResultInv /\ OwnedInv
    BY DEF ResultInv, OwnedInv, OnlyTablesLost
  <1>6. QED
    BY <1>1, <1>2, <1>3, <1>4, <1>5 DEF LoadInv

\* No step leaves a block that nothing names, but the tables.
LEMMA OwnedStep == LoadInv /\ [Next]_vars => OwnedInv'
  <1> SUFFICES ASSUME LoadInv, [Next]_vars PROVE OwnedInv'
    OBVIOUS
  <1> DEFINE Owned == blocks \subseteq (IF p_handle THEN {Handle} ELSE {})
                                         \cup BanksOf(number_of_banks)
  <1>1. Owned /\ OnlyTablesLost /\ number_of_banks \in Nat
    BY LoadAssumption DEF LoadInv, OwnedInv, TypeOK
  <1>2. Tables \subseteq BanksOf(number_of_banks)
    BY DEF BanksOf
  <1>3. ASSUME Open \/ AllocHandle \/ CountBanks \/ AllocTables PROVE OwnedInv'
    <2>1. number_of_banks' = number_of_banks /\ pc' # "done"
      BY <1>3 DEF Open, AllocHandle, CountBanks, AllocTables, Malloc
    <2>2. CASE Open \/ CountBanks
      BY <1>1, <2>1, <2>2 DEF Open, CountBanks, OwnedInv, OnlyTablesLost
    <2>3. CASE AllocHandle
      <3>1. \/ blocks' = blocks \cup {Handle} /\ p_handle' = TRUE
            \/ blocks' = blocks /\ p_handle' = FALSE
        BY <2>3 DEF AllocHandle, Malloc
      <3>2. ~p_handle
        BY <2>3 DEF AllocHandle, LoadInv, HeapInv
      <3>3. QED BY <1>1, <2>1, <3>1, <3>2 DEF OwnedInv, OnlyTablesLost
    <2>4. CASE AllocTables
      <3>1. blocks' \subseteq blocks \cup Tables /\ p_handle' = p_handle
        BY <2>4 DEF AllocTables, Malloc, Tables
      <3>2. QED BY <1>1, <1>2, <2>1, <3>1 DEF OwnedInv, OnlyTablesLost
    <2>5. QED BY <1>3, <2>2, <2>3, <2>4
  <1>4. ASSUME AllocBank PROVE OwnedInv'
    <2>1. BanksOf(number_of_banks + 1) = BanksOf(number_of_banks) \cup {Bank(number_of_banks)}
      BY <1>1, OneMore
    <2>2. p_handle' = p_handle /\ pc' # "done"
      BY <1>4 DEF AllocBank, Malloc
    <2>3. \/ /\ blocks' = blocks \cup {Bank(number_of_banks)}
             /\ number_of_banks' = number_of_banks + 1
          \/ blocks' = blocks /\ number_of_banks' = number_of_banks
      BY <1>1, <1>4 DEF AllocBank, Malloc
    <2>4. QED BY <1>1, <2>1, <2>2, <2>3 DEF OwnedInv, OnlyTablesLost
  <1>5. ASSUME Undo PROVE OwnedInv'
    <2>1. p_handle' = p_handle /\ pc' # "done" /\ number_of_banks' = 0
      BY <1>5 DEF Undo, FreeBanks
    <2>2. blocks' = blocks \ (IF number_of_banks > 0 THEN BanksOf(number_of_banks) ELSE {})
      BY <1>5 DEF Undo, FreeBanks, Free
    <2>3. number_of_banks > 0 \/ number_of_banks = 0
      BY <1>1
    <2>4. QED BY <1>1, <2>1, <2>2, <2>3 DEF OwnedInv, OnlyTablesLost
  <1>6. ASSUME Finish PROVE OwnedInv'
    BY <1>1, <1>6 DEF Finish, OwnedInv, OnlyTablesLost
  <1>7. ASSUME RamFree PROVE OwnedInv'
    <2>1. number_of_banks > 0 => p_handle
      BY DEF LoadInv, HeapInv
    <2>2. result = "RAM_LOAD_SUCCESS" => number_of_banks > 0
      BY <1>7 DEF RamFree, LoadInv, ResultInv
    <2>3. ~p_handle' /\ result' = result
      BY <1>7 DEF RamFree
    <2>4. number_of_banks > 0 \/ number_of_banks = 0
      BY <1>1
    <2>5. number_of_banks' = 0
      BY <1>7, <2>1, <2>4 DEF RamFree, FreeBanks
    <2>6. BanksOf(0) = Tables
      BY DEF BanksOf
    <2>7. CASE number_of_banks > 0
      <3>1. blocks' = blocks \ ({Handle} \cup BanksOf(number_of_banks))
        BY <1>7, <2>1, <2>7 DEF RamFree, FreeBanks, Free
      <3>2. blocks' = {}
        BY <1>1, <3>1
      <3>3. QED BY <3>2 DEF OwnedInv, OnlyTablesLost
    <2>8. CASE number_of_banks = 0
      <3>1. blocks' = IF p_handle THEN blocks \ {Handle} ELSE blocks
        BY <1>7, <2>8 DEF RamFree, FreeBanks, Free
      <3>2. blocks' \subseteq Tables
        BY <1>1, <2>6, <2>8, <3>1
      <3>3. result' # "RAM_LOAD_SUCCESS"
        BY <2>2, <2>3, <2>8
      <3>4. QED BY <2>5, <2>6, <3>2, <3>3 DEF OwnedInv, OnlyTablesLost
    <2>9. QED BY <2>4, <2>7, <2>8
  <1>8. CASE UNCHANGED vars
    BY <1>1, <1>8 DEF vars, OwnedInv, OnlyTablesLost
  <1>9. QED BY <1>3, <1>4, <1>5, <1>6, <1>7, <1>8 DEF Next

\* Every step keeps it.
LEMMA LoadStep == LoadInv /\ [Next]_vars => LoadInv'
  <1> SUFFICES ASSUME LoadInv, [Next]_vars PROVE LoadInv'
    OBVIOUS
  <1> DEFINE Blocks == {Handle} \cup BanksOf(MaxBanks)
  <1>0. OwnedInv'
    BY OwnedStep
  <1> USE LoadAssumption, <1>0 DEF LoadInv
  <1>1. /\ file_size \in Nat /\ banks \in Nat /\ number_of_banks \in Nat
        /\ MaxBanks \in Nat /\ ByteRange \in Nat /\ BankSize \in Nat
        /\ blocks \subseteq Blocks
    BY DEF TypeOK
  <1>2. <<"pp_banks", 0>> \in Blocks /\ <<"p_bank_sizes", 0>> \in Blocks
    BY DEF BanksOf, Tables
  <1>3. Handle # <<"pp_banks", 0>> /\ Handle # <<"p_bank_sizes", 0>>
    BY DEF Handle
  <1>4. CASE Open
    <2>1. TypeOK' /\ NoWildFree'
      BY <1>4 DEF Open, TypeOK, NoWildFree, Results
    <2>2. CountInv' /\ ResultInv'
      BY <1>1, <1>4 DEF Open, CountInv, ResultInv, Countable, Allocating, Filling
    <2>3. HeapInv'
      BY <1>1, <1>4 DEF Open, HeapInv, CountInv, Allocating, Filling
    <2>4. QED BY <2>1, <2>2, <2>3
  <1>5. CASE AllocHandle
    <2>1. TypeOK' /\ NoWildFree'
      BY <1>5 DEF AllocHandle, Malloc, TypeOK, NoWildFree
    <2>2. CountInv' /\ ResultInv'
      BY <1>1, <1>5 DEF AllocHandle, Malloc, CountInv, ResultInv, Countable, Allocating, Filling
    <2>3. HeapInv'
      <3>1. number_of_banks = 0 /\ Handle \notin blocks
        BY <1>5 DEF AllocHandle, CountInv, HeapInv, Filling
      <3>2. CASE pc' = "banks" /\ blocks' = blocks \cup {Handle}
        <4>1. p_handle' = TRUE
          BY <1>5, <3>2 DEF AllocHandle
        <4>2. QED BY <1>5, <3>1, <3>2, <4>1 DEF AllocHandle, HeapInv, Allocating, Filling
      <3>3. CASE pc' = "failed" /\ blocks' = blocks
        <4>1. p_handle' = FALSE
          BY <1>5, <3>3 DEF AllocHandle
        <4>2. QED BY <1>5, <3>1, <3>3, <4>1 DEF AllocHandle, HeapInv, Allocating, Filling
      <3>4. QED BY <1>5, <3>2, <3>3 DEF AllocHandle, Malloc
    <2>4. QED BY <2>1, <2>2, <2>3
  <1>6. CASE CountBanks
    <2>1. TypeOK' /\ NoWildFree'
      BY <1>1, <1>6 DEF CountBanks, TypeOK, NoWildFree
    <2>2. CountInv'
      <3>1. Banked /\ file_size <= (ByteRange - 1) * BankSize => file_size <= banks' * BankSize
        BY <1>1, <1>6, RoundedUp DEF CountBanks
      <3>2. pc' = "pp_banks" => banks' <= MaxBanks
        BY <1>1, <1>6 DEF CountBanks
      <3>3. number_of_banks' = 0 /\ banks' \in Nat
        BY <1>6, <2>1 DEF CountBanks, CountInv, Filling, TypeOK
      <3>4. QED
        BY <1>1, <1>6, <3>1, <3>2, <3>3
           DEF CountBanks, CountInv, Countable, Allocating, Filling
    <2>3. HeapInv' /\ ResultInv'
      BY <1>1, <1>6 DEF CountBanks, HeapInv, ResultInv, CountInv, Allocating, Filling
    <2>4. QED BY <2>1, <2>2, <2>3
  <1>7. CASE AllocTables
    <2>1. TypeOK' /\ NoWildFree'
      BY <1>2, <1>7 DEF AllocTables, Malloc, TypeOK, NoWildFree
    <2>2. CountInv' /\ ResultInv'
      BY <1>1, <1>7 DEF AllocTables, Malloc, CountInv, ResultInv, Countable, Allocating, Filling
    <2>3. HeapInv'
      <3>1. BanksOf(0) = Tables
        BY DEF BanksOf
      <3>2. number_of_banks = 0
        BY <1>7 DEF AllocTables, CountInv, Filling
      <3>3. QED
        BY <1>1, <1>3, <1>7, <3>1, <3>2
           DEF AllocTables, Malloc, HeapInv, Tables, Allocating, Filling
    <2>4. QED BY <2>1, <2>2, <2>3
  <1>8. CASE AllocBank
    <2>1. banks <= MaxBanks /\ number_of_banks + 1 <= banks
      BY <1>1, <1>8 DEF AllocBank, CountInv, Allocating
    <2>2. Bank(number_of_banks) \in BanksOf(MaxBanks) /\ Bank(number_of_banks) # Handle
      BY <1>1, <2>1 DEF BanksOf, Bank, Handle
    <2>3. BanksOf(number_of_banks + 1) = BanksOf(number_of_banks) \cup {Bank(number_of_banks)}
      BY <1>1, OneMore
    <2>4. TypeOK' /\ NoWildFree'
      BY <1>1, <1>8, <2>1, <2>2 DEF AllocBank, Malloc, TypeOK, NoWildFree
    <2>5. CountInv' /\ ResultInv'
      BY <1>1, <1>8, <2>1 DEF AllocBank, Malloc, CountInv, ResultInv, Countable, Allocating, Filling
    <2>6. HeapInv'
      BY <1>1, <1>8, <2>2, <2>3 DEF AllocBank, Malloc, HeapInv, Allocating, Filling
    <2>7. QED BY <2>4, <2>5, <2>6
  <1>9. CASE Undo
    <2>1. BanksOf(number_of_banks) \subseteq blocks /\ Handle \in blocks
      BY <1>9 DEF Undo, HeapInv, Allocating, Filling
    <2>2. Handle \notin BanksOf(number_of_banks)
      BY <1>1, FewerBanks
    <2>3. TypeOK' /\ NoWildFree'
      BY <1>1, <1>9, <2>1 DEF Undo, FreeBanks, Free, TypeOK, NoWildFree
    <2>4. CountInv' /\ ResultInv'
      BY <1>1, <1>9 DEF Undo, FreeBanks, CountInv, ResultInv, Allocating, Filling
    <2>5. HeapInv'
      BY <1>1, <1>9, <2>1, <2>2 DEF Undo, FreeBanks, Free, HeapInv, Allocating, Filling
    <2>6. QED BY <2>3, <2>4, <2>5
  <1>10. CASE Finish
    <2>1. TypeOK' /\ NoWildFree'
      BY <1>10 DEF Finish, TypeOK, NoWildFree, Results
    <2>2. CountInv' /\ ResultInv'
      BY <1>1, <1>10 DEF Finish, CountInv, ResultInv, Countable, Allocating, Filling
    <2>3. HeapInv'
      BY <1>1, <1>10 DEF Finish, HeapInv, CountInv, Allocating, Filling
    <2>4. QED BY <2>1, <2>2, <2>3
  <1>11. CASE RamFree
    <2>1. number_of_banks > 0 => p_handle /\ BanksOf(number_of_banks) \subseteq blocks
      BY DEF HeapInv
    <2>2. p_handle <=> Handle \in blocks
      BY DEF HeapInv
    <2>3. TypeOK' /\ NoWildFree'
      <3>1. CASE p_handle
        <4> DEFINE freed == {Handle} \cup (IF number_of_banks > 0 THEN BanksOf(number_of_banks)
                                                                  ELSE {})
        <4>1. freed \subseteq blocks
          BY <2>1, <2>2, <3>1
        <4>2. blocks' = blocks \ freed /\ wild' = (wild \/ ~(freed \subseteq blocks))
          BY <1>11, <3>1 DEF RamFree, FreeBanks, Free
        <4>3. number_of_banks' = 0 /\ number_of_banks' \in 0 .. MaxBanks
          BY <1>1, <1>11, <3>1 DEF RamFree, FreeBanks
        <4> HIDE DEF freed
        <4>4. wild' = FALSE
          BY <4>1, <4>2 DEF NoWildFree
        <4>5. QED
          BY <1>1, <1>11, <4>2, <4>3, <4>4 DEF RamFree, TypeOK, NoWildFree
      <3>2. CASE ~p_handle
        BY <1>11, <3>2 DEF RamFree, TypeOK, NoWildFree
      <3>3. QED BY <3>1, <3>2
    <2>4. number_of_banks' = 0
      BY <1>1, <1>11, <2>1 DEF RamFree, FreeBanks
    <2>5. CountInv' /\ ResultInv'
      BY <1>1, <1>11, <2>4 DEF RamFree, CountInv, ResultInv, Allocating, Filling
    <2>6. HeapInv'
      BY <1>1, <1>11, <2>1, <2>2, <2>4
         DEF RamFree, FreeBanks, Free, HeapInv, Allocating, Filling
    <2>7. QED BY <2>3, <2>5, <2>6
  <1>12. CASE UNCHANGED vars
    BY <1>12 DEF vars, TypeOK, NoWildFree, CountInv, HeapInv, ResultInv, Countable
  <1>13. QED
    BY <1>4, <1>5, <1>6, <1>7, <1>8, <1>9, <1>10, <1>11, <1>12 DEF Next

\* The inductive invariant of loading and freeing, which the theorems below are
\* parts of: the handle and all that it counts is allocated, what is allocated is
\* the handle, what it counts or a table, and what is loaded is counted.
THEOREM LoadSafe == Spec => []LoadInv
  <1>1. Init => LoadInv
    BY LoadStarts
  <1>2. LoadInv /\ [Next]_vars => LoadInv'
    BY LoadStep
  <1>3. QED BY <1>1, <1>2, PTL DEF Spec

\* Every variable of a load keeps its type; above all the number of banks stays
\* within the limit, and the heap holds no block of a bank beyond it.
THEOREM LoadTyped == Spec => []TypeOK
  <1>1. LoadInv => TypeOK
    BY DEF LoadInv
  <1>2. QED BY <1>1, LoadSafe, PTL

\* ram_load_file says RAM_LOAD_SUCCESS only if all tables and banks are there and,
\* as far as a byte can count them, hold the file, whichever allocation failed.
THEOREM LoadedIsThere == Spec => []PlaysWhatWasLoaded
  <1>1. ASSUME LoadInv PROVE PlaysWhatWasLoaded
    <2> SUFFICES ASSUME pc = "loaded", result = "RAM_LOAD_SUCCESS"
                 PROVE  /\ p_handle
                        /\ {Handle} \cup BanksOf(number_of_banks) \subseteq blocks
                        /\ Banked /\ Countable => file_size <= number_of_banks * BankSize
      BY DEF PlaysWhatWasLoaded
    <2>1. number_of_banks > 0 /\ number_of_banks = banks
      BY <1>1 DEF LoadInv, ResultInv
    <2>2. p_handle /\ Handle \in blocks /\ BanksOf(number_of_banks) \subseteq blocks
      BY <1>1, <2>1 DEF LoadInv, HeapInv
    <2>3. Banked /\ Countable => file_size <= number_of_banks * BankSize
      BY <1>1, <2>1 DEF LoadInv, CountInv
    <2>4. QED BY <2>2, <2>3
  <1>2. QED BY <1>1, LoadSafe, PTL

\* For every file and limit, the program returns all memory of a file that it
\* loaded, and loses at most the two tables of one that it failed to load
\* (ram_data_alloc_banks, ram_data_free_banks, ram_free).
THEOREM LittleIsLost == Spec => []OnlyTablesLost
  <1>1. LoadInv => OnlyTablesLost
    BY DEF LoadInv, OwnedInv
  <1>2. QED BY <1>1, LoadSafe, PTL

\* free is only ever given blocks that are allocated, neither while a load is
\* undone (ram_data_free_banks) nor in ram_free.
THEOREM NothingFreedWild == Spec => []NoWildFree
  <1>1. LoadInv => NoWildFree
    BY DEF LoadInv
  <1>2. QED BY <1>1, LoadSafe, PTL

=============================================================================
