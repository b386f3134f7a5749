------------------------------ MODULE RamBank ------------------------------
(***************************************************************************)
(* source/ram.c after a successful load: the file lies in NumBanks banks   *)
(* of BankSize bytes.  A pointer into a bank is the record [bank, at]: the *)
(* bank's p_start is pp_banks[bank], p_end is BankSize bytes further and   *)
(* p_current is p_start + at.                                              *)
(*                                                                         *)
(* Banked is USE_BANKS: TRUE is the 16-bit build (banks of 2^15 bytes, at  *)
(* most 16 of them), FALSE the 32-bit build, which puts the whole file in  *)
(* one bank of exactly the file's size.                                    *)
(***************************************************************************)
EXTENDS Integers

CONSTANTS
    Banked,     \* USE_BANKS
    BankSize,   \* p_bank_sizes[bank], the same for every bank
    NumBanks,   \* number_of_banks
    MaxSkip,    \* longest relative seek a caller asks for
    JumpTargets \* offsets of the file a caller seeks to: the first command, the loop

RAM_BANK_MAX_BANKS == 16

ASSUME RamAssumption ==
    /\ Banked \in BOOLEAN
    /\ BankSize \in Nat \ {0}
    /\ NumBanks \in 1 .. RAM_BANK_MAX_BANKS
    /\ MaxSkip \in Nat
    /\ ~Banked => NumBanks = 1

VARIABLES
    g_ram_bank,         \* the caller's ram_bank_t
    absolute_position,  \* ram_t.absolute_position
    file_bank           \* ram_t.bank and ram_t.bank_offset, as [bank, at]

vars == <<g_ram_bank, absolute_position, file_bank>>

Size == NumBanks * BankSize

ASSUME JumpAssumption == JumpTargets \subseteq 0 .. Size - 1

(***************************************************************************)
(* Operations on a pointer.  A bank number is a uint8_t; a bank number out *)
(* of a file offset keeps the bits of RAM_BANK_INDEX_MASK.                 *)
(***************************************************************************)

\* Where a pointer is in the file.
Position(p) == p.bank * BankSize + p.at

\* The split of an absolute offset, shared by ram_get_address and the seeks.
Split(offset) ==
    IF Banked
    THEN [bank |-> (offset \div BankSize) % RAM_BANK_MAX_BANKS, at |-> offset % BankSize]
    ELSE [bank |-> 0, at |-> offset]

\* ram_get_bank: p_current returns to the start of the bank asked for.
GetBank(bank) == [bank |-> bank, at |-> 0]

\* Mutant of UpdatePos: the end of the bank is noticed one byte late.
UpdatePosLate(p) ==
    IF p.at < BankSize
    THEN [p EXCEPT !.at = @ + 1]
    ELSE GetBank((p.bank + 1) % 256)

\* RAM_UPDATE_POS: one byte further, into the next bank at the end of one.
UpdatePos(p) ==
    IF p.at < BankSize - 1
    THEN [p EXCEPT !.at = @ + 1]
    ELSE GetBank((p.bank + 1) % 256)

\* ram_seek_bank with RAM_SEEK_ORIGIN_SET.
SeekSet(offset) == Split(offset)

\* Mutant of SeekCurrent: it forgets the bank it is in.
SeekCurrentInBank(p, offset) == Split(p.at + offset)

\* ram_seek_bank with RAM_SEEK_ORIGIN_CURRENT.  The 32-bit build counts from
\* p_start alone; a position before the file is reflected.
SeekCurrent(p, offset) ==
    LET new == (IF Banked THEN Position(p) ELSE p.at) + offset
    IN  IF new >= 0
        THEN Split(new)
        ELSE IF Banked
             THEN [bank |-> (((-new) \div BankSize) % RAM_BANK_MAX_BANKS) + 1,
                   at   |-> BankSize - ((-new) % BankSize)]
             ELSE [bank |-> 0, at |-> -new]

(***************************************************************************)
(* A caller that reads within the file.  Its seeks are those of zsm.c: to  *)
(* an offset of the file, or forward over the data of an extension command *)
(* to a byte that still is in the file.                                    *)
(***************************************************************************)

Init ==
    /\ g_ram_bank = SeekSet(0)
    /\ absolute_position = 0
    /\ file_bank = [bank |-> 0, at |-> 0]

\* *g_ram_bank.p_current, then RAM_UPDATE_POS.
Read ==
    /\ Position(g_ram_bank) < Size
    /\ g_ram_bank' = UpdatePos(g_ram_bank)
    /\ UNCHANGED <<absolute_position, file_bank>>

Skip(n) ==
    /\ Position(g_ram_bank) + n < Size
    /\ g_ram_bank' = SeekCurrent(g_ram_bank, n)
    /\ UNCHANGED <<absolute_position, file_bank>>

Jump(offset) ==
    /\ g_ram_bank' = SeekSet(offset)
    /\ UNCHANGED <<absolute_position, file_bank>>

\* ram_read_uint8.  Only the 16-bit build keeps bank and bank_offset.
ReadFile ==
    /\ absolute_position < Size
    /\ absolute_position' = absolute_position + 1
    /\ file_bank' = IF Banked THEN Split(absolute_position') ELSE file_bank
    /\ UNCHANGED g_ram_bank

Next ==
    \/ Read
    \/ \E n \in 0 .. MaxSkip : Skip(n)
    \/ \E offset \in JumpTargets : Jump(offset)
    \/ ReadFile

Spec == Init /\ [][Next]_vars

(***************************************************************************)
(* Properties.                                                             *)
(***************************************************************************)

TypeOK ==
    /\ g_ram_bank \in [bank : 0 .. NumBanks, at : 0 .. BankSize - 1]
    /\ absolute_position \in 0 .. Size
    /\ file_bank \in [bank : 0 .. RAM_BANK_MAX_BANKS - 1, at : 0 .. BankSize - 1]

Linear == INSTANCE LinearReader WITH pos <- Position(g_ram_bank)

\* The banked reader implements the linear one (ram.c as a whole): crossing a
\* bank, skipping over one or jumping into one loses and repeats no byte.
ReadsLinearly == Linear!Spec

=============================================================================
