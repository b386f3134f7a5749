------------------------------ MODULE RamLoad ------------------------------
(***************************************************************************)
(* source/ram.c: how a file gets into memory and out again, as zsm_main    *)
(* has it: ram_load_file, the playing of the file, ram_free.  Every        *)
(* allocation can fail.  The heap is the set of blocks that are allocated. *)
(*                                                                         *)
(* External: fopen, malloc and calloc, of which nothing is known but that  *)
(* they return NULL or not.                                                *)
(***************************************************************************)
EXTENDS Integers

CONSTANTS
    FileSizes,      \* sizes of the files there are
    Banked,         \* USE_BANKS
    BankSize,       \* RAM_BANK_SIZE: 2^15
    MaxBanks,       \* RAM_BANK_MAX_BANKS: 16
    ByteRange       \* 256: number_of_banks is a uint8_t

ASSUME LoadAssumption ==
    /\ FileSizes \subseteq Nat
    /\ Banked \in BOOLEAN
    /\ BankSize \in Nat \ {0}
    /\ MaxBanks \in Nat \ {0} /\ MaxBanks < ByteRange /\ ByteRange \in Nat

VARIABLES
    file_size,
    pc,
    p_handle,           \* *pp_ram_handle is not NULL
    banks,              \* number_of_banks of ram_data_alloc_banks
    number_of_banks,    \* that of the handle
    blocks,             \* the heap
    result,             \* of ram_load_file
    wild                \* history: free was given a block that was not allocated

vars == <<file_size, pc, p_handle, banks, number_of_banks, blocks, result, wild>>

Results == {"none", "RAM_LOAD_SUCCESS", "RAM_LOAD_UNABLE_TO_OPEN_FILE",
            "RAM_LOAD_INSUFFICIENT_MEMORY"}

\* The memory of a handle with n banks.
Bank(b) == <<"bank", b>>
Tables == {<<"pp_banks", 0>>, <<"p_bank_sizes", 0>>}
Handle == <<"ram_t", 0>>
BanksOf(n) == Tables \cup {Bank(b) : b \in 0 .. n - 1}

Init ==
    /\ file_size \in FileSizes
    /\ pc = "open"
    /\ p_handle = FALSE
    /\ banks = 0 /\ number_of_banks = 0
    /\ blocks = {}
    /\ result = "none"
    /\ wild = FALSE

\* malloc: it goes on at `then' with the block or at `otherwise' without it.
Malloc(block, then, otherwise) ==
    \/ blocks' = blocks \cup {block} /\ pc' = then
    \/ UNCHANGED blocks /\ pc' = otherwise

Free(freed) ==
    /\ blocks' = blocks \ freed
    /\ wild' = (wild \/ ~(freed \subseteq blocks))

\* ram_load_file: fopen
Open ==
    /\ pc = "open"
    /\ \/ pc' = "calloc" /\ UNCHANGED result
       \/ pc' = "loaded" /\ result' = "RAM_LOAD_UNABLE_TO_OPEN_FILE"
    /\ UNCHANGED <<file_size, p_handle, banks, number_of_banks, blocks, wild>>

\* ram_load_file: calloc
AllocHandle ==
    /\ pc = "calloc"
    /\ Malloc(Handle, "banks", "failed")
    /\ p_handle' = (pc' = "banks")
    /\ UNCHANGED <<file_size, banks, number_of_banks, result, wild>>

\* Mutants of CountBanks: too many banks are not refused, or a last bank that is
\* not full is not counted.
CountBanksUnchecked ==
    /\ pc = "banks" /\ pc' = "pp_banks"
    /\ banks' = IF Banked THEN ((file_size + BankSize - 1) \div BankSize) % ByteRange ELSE 1
    /\ UNCHANGED <<file_size, p_handle, number_of_banks, blocks, result, wild>>

CountBanksWhole ==
    /\ pc = "banks"
    /\ banks' = IF Banked THEN (file_size \div BankSize) % ByteRange ELSE 1
    /\ pc' = IF Banked /\ banks' > MaxBanks THEN "failed" ELSE "pp_banks"
    /\ UNCHANGED <<file_size, p_handle, number_of_banks, blocks, result, wild>>

\* ram_data_alloc_banks: the number of banks, rounded up in an uint8_t.
CountBanks ==
    /\ pc = "banks"
    /\ LET whole == (file_size \div BankSize) % ByteRange
           more  == IF file_size % BankSize = 0 THEN 0 ELSE 1
       IN  banks' = IF Banked THEN (whole + more) % ByteRange ELSE 1
    /\ pc' = IF Banked /\ banks' > MaxBanks THEN "failed" ELSE "pp_banks"
    /\ UNCHANGED <<file_size, p_handle, number_of_banks, blocks, result, wild>>

\* ram_data_alloc_banks: the two tables.  Without the second nothing more
\* is done.
AllocTables ==
    /\ \/ pc = "pp_banks" /\ Malloc(<<"pp_banks", 0>>, "p_bank_sizes", "failed")
       \/ pc = "p_bank_sizes" /\ Malloc(<<"p_bank_sizes", 0>>, "bank", "failed")
    /\ UNCHANGED <<file_size, p_handle, banks, number_of_banks, result, wild>>

\* ram_data_alloc_banks: the loop over the banks.
AllocBank ==
    /\ pc = "bank" /\ number_of_banks < banks
    /\ Malloc(Bank(number_of_banks), "bank", "undo")
    /\ number_of_banks' = number_of_banks + (IF pc' = "bank" THEN 1 ELSE 0)
    /\ UNCHANGED <<file_size, p_handle, banks, result, wild>>

\* Mutants of FreeBanks: the handle still counts the banks, or the last bank is
\* not freed.
FreeBanksKept(freed_too) ==
    /\ Free(freed_too \cup (IF number_of_banks > 0 THEN BanksOf(number_of_banks) ELSE {}))
    /\ UNCHANGED number_of_banks

FreeBanksShort(freed_too) ==
    /\ Free(freed_too \cup (IF number_of_banks > 0 THEN BanksOf(number_of_banks - 1) ELSE {}))
    /\ number_of_banks' = 0

\* ram_data_free_banks, which looks at number_of_banks first.
FreeBanks(freed_too) ==
    /\ Free(freed_too \cup (IF number_of_banks > 0 THEN BanksOf(number_of_banks) ELSE {}))
    /\ number_of_banks' = 0

\* ram_data_alloc_banks: there is no memory for a bank.
Undo ==
    /\ pc = "undo" /\ pc' = "failed"
    /\ FreeBanks({})
    /\ UNCHANGED <<file_size, p_handle, banks, result>>

\* ram_load_file: the file is read, or there was no memory for it.
Finish ==
    /\ \/ pc = "bank" /\ number_of_banks = banks
       \/ pc = "failed"
    /\ pc' = "loaded"
    /\ result' = IF number_of_banks > 0 THEN "RAM_LOAD_SUCCESS"
                 ELSE "RAM_LOAD_INSUFFICIENT_MEMORY"
    /\ UNCHANGED <<file_size, p_handle, banks, number_of_banks, blocks, wild>>

\* zsm_main: ram_free, at the end of playing or at once.
RamFree ==
    /\ pc = "loaded" /\ pc' = "done"
    /\ IF p_handle THEN FreeBanks({Handle}) ELSE UNCHANGED <<blocks, wild, number_of_banks>>
    /\ p_handle' = FALSE
    /\ UNCHANGED <<file_size, banks, result>>

Next ==
    \/ Open \/ AllocHandle \/ CountBanks \/ AllocTables \/ AllocBank
    \/ Undo \/ Finish \/ RamFree

Spec == Init /\ [][Next]_vars

-----------------------------------------------------------------------------
(***************************************************************************)
(* Properties.                                                             *)
(***************************************************************************)

TypeOK ==
    /\ file_size \in FileSizes
    /\ pc \in {"open", "calloc", "banks", "pp_banks", "p_bank_sizes", "bank", "undo",
               "failed", "loaded", "done"}
    /\ p_handle \in BOOLEAN /\ wild \in BOOLEAN
    /\ banks \in 0 .. ByteRange - 1 /\ number_of_banks \in 0 .. MaxBanks
    /\ blocks \subseteq {Handle} \cup BanksOf(MaxBanks)
    /\ result \in Results

\* A byte can count the banks of the file.
Countable == file_size <= (ByteRange - 1) * BankSize

\* While a loaded file is played all of its banks and tables are there, and
\* the banks hold the whole file if they can be counted: a load that ran out of
\* memory, at whichever allocation, is never taken for one that succeeded.
PlaysWhatWasLoaded ==
    pc = "loaded" /\ result = "RAM_LOAD_SUCCESS" =>
        /\ p_handle
        /\ {Handle} \cup BanksOf(number_of_banks) \subseteq blocks
        /\ Banked /\ Countable => file_size <= number_of_banks * BankSize

\* No failed allocation makes the undoing of the others, or the ram_free that
\* follows, free what was never allocated or is free already.
NoWildFree == ~wild

\* When the program is through, ram_free has returned all memory of a file that
\* was loaded, and of a load that failed at any allocation all but the tables of
\* the banks: ram_data_free_banks forgets these when it counts no bank.
OnlyTablesLost ==
    pc = "done" =>
        /\ blocks \subseteq Tables
        /\ result = "RAM_LOAD_SUCCESS" => blocks = {}

\* "Allocations will be limited up to blocks*(2^blocks) bytes"
\* (source/ram.c:21): no larger file is loaded.
LimitedSize ==
    Banked /\ result = "RAM_LOAD_SUCCESS" => file_size <= MaxBanks * BankSize

(***************************************************************************)
(* The inductive invariant that the proofs about this module need.         *)
(***************************************************************************)

\* The statements at which the banks are counted and, from the second on, their
\* tables are there.
Allocating == {"pp_banks", "p_bank_sizes", "bank", "undo"}
Filling    == {"bank", "undo"}

\* There are as many banks as the file needs, and no more than are allowed.
CountInv ==
    /\ number_of_banks <= banks
    /\ pc \notin Filling \cup {"loaded"} => number_of_banks = 0
    /\ pc \in Allocating \/ number_of_banks > 0 =>
           /\ banks <= MaxBanks
           /\ Banked /\ Countable => file_size <= banks * BankSize

\* What is not NULL is allocated, and so is all that is counted.
HeapInv ==
    /\ p_handle <=> Handle \in blocks
    /\ pc \in {"open", "calloc"} => ~p_handle
    /\ pc \in {"banks"} \cup Allocating \/ number_of_banks > 0 => p_handle
    /\ pc = "p_bank_sizes" => <<"pp_banks", 0>> \in blocks
    /\ pc \in Filling \/ number_of_banks > 0 => BanksOf(number_of_banks) \subseteq blocks

\* Nothing else is allocated, but the tables may be.
OwnedInv ==
    /\ blocks \subseteq (IF p_handle THEN {Handle} ELSE {}) \cup BanksOf(number_of_banks)
    /\ OnlyTablesLost

\* The result is the one of the banks that were allocated.
ResultInv ==
    pc = "loaded" =>
        /\ result = "RAM_LOAD_SUCCESS" <=> number_of_banks > 0
        /\ number_of_banks > 0 => number_of_banks = banks

LoadInv == TypeOK /\ NoWildFree /\ CountInv /\ HeapInv /\ OwnedInv /\ ResultInv

=============================================================================
