--------------------------- MODULE RamBankProofs ---------------------------
(***************************************************************************)
(* Proofs about RamBank for every bank size, every number of banks the     *)
(* code allows and both builds: the reader implements LinearReader.        *)
(***************************************************************************)
EXTENDS RamBank, TLAPS

\* Euclidean division by a bank size.
LEMMA Euclid ==
    ASSUME NEW a \in Nat, NEW b \in Nat \ {0}
    PROVE  /\ a \div b \in Nat
           /\ a % b \in 0 .. b - 1
           /\ a = ((a \div b) * b) + (a % b)
  OBVIOUS

\* A quotient is smaller than n when the dividend is smaller than n divisors.
LEMMA QuotientBound ==
    ASSUME NEW q \in Nat, NEW r \in Nat, NEW b \in Nat \ {0}, NEW n \in Nat,
           q * b + r < n * b
    PROVE  q < n
  <1>1. SUFFICES ASSUME q >= n PROVE FALSE
    OBVIOUS
  <1>2. PICK k \in Nat : q = n + k
    <2>1. q - n \in Nat /\ q = n + (q - n)
      BY <1>1
    <2>2. QED BY <2>1
  <1>3. q * b = n * b + k * b
    BY <1>2
  <1>4. k * b \in Nat /\ n * b \in Nat
    OBVIOUS
  <1>5. QED BY <1>3, <1>4

\* ram_get_address and ram_seek_bank: the split of an offset of the file is
\* a pointer into one of its banks, and it points at that offset.
LEMMA SplitCorrect ==
    ASSUME NEW offset \in 0 .. Size - 1
    PROVE  /\ Split(offset) \in [bank : 0 .. NumBanks - 1, at : 0 .. BankSize - 1]
           /\ Position(Split(offset)) = offset
  <1> USE RamAssumption DEF Split, Position, Size, RAM_BANK_MAX_BANKS
  <1>1. offset \in Nat /\ BankSize \in Nat \ {0} /\ NumBanks \in Nat /\ NumBanks <= 16
    <2>1. NumBanks * BankSize \in Nat
      OBVIOUS
    <2>2. QED BY <2>1
  <1>2. CASE Banked
    <2> DEFINE q == offset \div BankSize
               r == offset % BankSize
    <2>1. q \in Nat /\ r \in 0 .. BankSize - 1 /\ offset = q * BankSize + r
      BY <1>1, Euclid
    <2> HIDE DEF q, r
    <2>2. NumBanks * BankSize \in Nat
      OBVIOUS
    <2>3. q * BankSize + r < NumBanks * BankSize
      BY <2>1, <2>2
    <2>4. q < NumBanks
      BY <1>1, <2>1, <2>3, QuotientBound
    <2>5. q % 16 = q
      BY <1>1, <2>1, <2>4
    <2>6. Split(offset) = [bank |-> q, at |-> r]
      BY <1>2, <2>5 DEF q, r
    <2>7. q \in 0 .. NumBanks - 1
      BY <1>1, <2>1, <2>4
    <2>8. QED BY <2>1, <2>6, <2>7
  <1>3. CASE ~Banked
    <2>1. NumBanks = 1 /\ Split(offset) = [bank |-> 0, at |-> offset]
      BY <1>3
    <2>2. QED BY <1>1, <2>1
  <1>4. QED BY <1>2, <1>3

\* RAM_UPDATE_POS: from a byte of the file, the pointer moves to the next one.
LEMMA UpdatePosCorrect ==
    ASSUME NEW p \in [bank : 0 .. NumBanks - 1, at : 0 .. BankSize - 1]
    PROVE  /\ UpdatePos(p) \in [bank : 0 .. NumBanks, at : 0 .. BankSize - 1]
           /\ UpdatePos(p).bank = NumBanks => UpdatePos(p).at = 0
           /\ Position(UpdatePos(p)) = Position(p) + 1
  <1> USE RamAssumption DEF UpdatePos, GetBank, Position, RAM_BANK_MAX_BANKS
  <1>1. p.bank \in Nat /\ p.at \in Nat /\ p.bank < NumBanks /\ p.at <= BankSize - 1
    OBVIOUS
  <1>2. CASE p.at < BankSize - 1
    <2>1. UpdatePos(p) = [bank |-> p.bank, at |-> p.at + 1]
      BY <1>2
    <2>2. UpdatePos(p).bank = p.bank /\ UpdatePos(p).at = p.at + 1
      BY <2>1
    <2>3. p.at + 1 \in 0 .. BankSize - 1 /\ p.bank \in 0 .. NumBanks
      BY <1>1, <1>2
    <2>4. p.bank * BankSize \in Nat
      BY <1>1
    <2>5. Position(UpdatePos(p)) = Position(p) + 1
      <3> HIDE DEF UpdatePos
      <3>1. QED BY <1>1, <2>2, <2>4
    <2>6. UpdatePos(p) \in [bank : 0 .. NumBanks, at : 0 .. BankSize - 1]
      <3> HIDE DEF UpdatePos
      <3>1. QED BY <2>1, <2>3
    <2>7. UpdatePos(p).bank # NumBanks
      <3> HIDE DEF UpdatePos
      <3>1. QED BY <1>1, <2>2
    <2>8. QED BY <2>5, <2>6, <2>7
  <1>3. CASE ~(p.at < BankSize - 1)
    <2>1. (p.bank + 1) % 256 = p.bank + 1
      BY <1>1
    <2>2. UpdatePos(p) = GetBank((p.bank + 1) % 256)
      BY <1>3
    <2>3. UpdatePos(p) = [bank |-> p.bank + 1, at |-> 0]
      <3> HIDE DEF UpdatePos
      <3>1. QED BY <2>1, <2>2
    <2> HIDE DEF UpdatePos
    <2>4. UpdatePos(p).bank = p.bank + 1 /\ UpdatePos(p).at = 0
      BY <2>3
    <2>5. p.at = BankSize - 1
      BY <1>1, <1>3
    <2>6. (p.bank + 1) * BankSize = p.bank * BankSize + BankSize
      BY <1>1
    <2>7. p.bank * BankSize \in Nat
      BY <1>1
    <2>8. Position(UpdatePos(p)) = Position(p) + 1
      BY <1>1, <2>4, <2>5, <2>6, <2>7
    <2>9. UpdatePos(p) \in [bank : 0 .. NumBanks, at : 0 .. BankSize - 1]
      BY <1>1, <2>3
    <2>10. QED BY <2>4, <2>8, <2>9
  <1>4. QED BY <1>2, <1>3

\* A pointer that the invariant allows and that is inside the file lies in a
\* bank that exists.
LEMMA InsideFile ==
    ASSUME NEW p \in [bank : 0 .. NumBanks, at : 0 .. BankSize - 1],
           Position(p) < Size
    PROVE  p \in [bank : 0 .. NumBanks - 1, at : 0 .. BankSize - 1]
  <1>1. p.bank < NumBanks
    BY RamAssumption, QuotientBound DEF Position, Size, RAM_BANK_MAX_BANKS
  <1>2. QED BY <1>1, RamAssumption DEF RAM_BANK_MAX_BANKS

\* ram_seek_bank relative to a pointer inside the file, forwards and within it.
LEMMA SeekCurrentCorrect ==
    ASSUME NEW p \in [bank : 0 .. NumBanks - 1, at : 0 .. BankSize - 1],
           NEW n \in Nat, Position(p) + n < Size
    PROVE  SeekCurrent(p, n) = Split(Position(p) + n) /\ Position(p) + n \in 0 .. Size - 1
  <1> USE RamAssumption DEF RAM_BANK_MAX_BANKS
  <1>1. p.bank \in Nat /\ p.at \in Nat /\ BankSize \in Nat
    OBVIOUS
  <1>2. p.bank * BankSize \in Nat /\ Size \in Nat
    BY <1>1 DEF Size
  <1>3. Position(p) \in Nat /\ Position(p) + n \in 0 .. Size - 1
    BY <1>1, <1>2, SMTT(30) DEF Position
  <1>4. ~Banked => p.at = Position(p)
    <2>1. ~Banked => p.bank = 0
      OBVIOUS
    <2>2. QED BY <1>1, <2>1 DEF Position
  <1>5. QED BY <1>3, <1>4 DEF SeekCurrent

\* The first byte of the file is at offset 0.
LEMMA FirstByte == 0 \in 0 .. Size - 1 /\ Size \in Nat
  <1>1. NumBanks \in Nat \ {0} /\ BankSize \in Nat \ {0}
    BY RamAssumption DEF RAM_BANK_MAX_BANKS
  <1>2. NumBanks * BankSize \in Nat /\ NumBanks * BankSize >= 1
    BY <1>1
  <1>3. QED BY <1>2 DEF Size

-----------------------------------------------------------------------------
\* The types hold at first.
LEMMA RamStarts == Init => TypeOK
  <1> SUFFICES ASSUME Init PROVE TypeOK
    OBVIOUS
  <1>1. g_ram_bank \in [bank : 0 .. NumBanks - 1, at : 0 .. BankSize - 1]
    BY FirstByte, SplitCorrect DEF Init, SeekSet
  <1>2. QED BY <1>1, FirstByte, RamAssumption DEF Init, TypeOK, RAM_BANK_MAX_BANKS

\* Every step keeps them: a byte is read, and a distance skipped, only within
\* the file, and there InsideFile, UpdatePosCorrect and SplitCorrect apply.
LEMMA RamStep == TypeOK /\ [Next]_vars => TypeOK'
  <1> SUFFICES ASSUME TypeOK, [Next]_vars PROVE TypeOK'
    OBVIOUS
  <1> USE RamAssumption DEF RAM_BANK_MAX_BANKS
  <1> DEFINE Inside == [bank : 0 .. NumBanks - 1, at : 0 .. BankSize - 1]
             CursorOK == g_ram_bank \in [bank : 0 .. NumBanks, at : 0 .. BankSize - 1]
             FileOK == /\ absolute_position \in 0 .. Size
                       /\ file_bank \in [bank : 0 .. RAM_BANK_MAX_BANKS - 1, at : 0 .. BankSize - 1]
  <1>1. CursorOK /\ FileOK
    BY DEF TypeOK
  <1>2. TypeOK' <=> CursorOK' /\ FileOK'
    BY DEF TypeOK, Size
  <1>3. g_ram_bank' \in Inside => CursorOK'
    OBVIOUS
  <1>4. UNCHANGED <<absolute_position, file_bank>> => FileOK'
    BY <1>1 DEF Size
  <1> HIDE DEF FileOK
  <1>5. ASSUME Read PROVE TypeOK'
    <2>1. g_ram_bank \in Inside
      BY <1>1, <1>5, InsideFile DEF Read
    <2>2. CursorOK'
      BY <1>5, <2>1, UpdatePosCorrect DEF Read
    <2>3. QED BY <1>2, <1>4, <1>5, <2>2 DEF Read
  <1>6. ASSUME NEW n \in 0 .. MaxSkip, Skip(n) PROVE TypeOK'
    <2>1. Position(g_ram_bank) \in Nat
      BY <1>1 DEF Position
    <2>2. Position(g_ram_bank) < Size
      BY <1>6, <2>1, FirstByte DEF Skip
    <2>3. g_ram_bank \in Inside
      BY <1>1, <2>2, InsideFile
    <2>4. g_ram_bank' \in Inside
      BY <1>6, <2>3, SeekCurrentCorrect, SplitCorrect DEF Skip
    <2>5. QED BY <1>2, <1>3, <1>4, <1>6, <2>4 DEF Skip
  <1>7. ASSUME NEW offset \in JumpTargets, Jump(offset) PROVE TypeOK'
    <2>1. g_ram_bank' \in Inside
      BY <1>7, JumpAssumption, SplitCorrect DEF Jump, SeekSet
    <2>2. QED BY <1>2, <1>3, <1>4, <1>7, <2>1 DEF Jump
  <1>8. ASSUME ReadFile PROVE TypeOK'
    <2>1. CursorOK'
      BY <1>1, <1>8 DEF ReadFile
    <2>2. absolute_position' \in 0 .. Size
      BY <1>1, <1>8, FirstByte DEF ReadFile, FileOK
    <2>3. CASE ~Banked
      BY <1>1, <1>2, <1>8, <2>1, <2>2, <2>3 DEF ReadFile, FileOK, Size
    <2>4. CASE Banked
      <3> DEFINE q == absolute_position' \div BankSize
                 r == absolute_position' % BankSize
      <3>1. q \in Nat /\ r \in 0 .. BankSize - 1
        <4>1. absolute_position' \in Nat
          BY <2>2, FirstByte
        <4>2. QED BY <4>1, Euclid
      <3> HIDE DEF q, r
      <3>2. file_bank' = [bank |-> q % 16, at |-> r]
        BY <1>8, <2>4 DEF ReadFile, Split, q, r
      <3>3. q % 16 \in 0 .. 15
        BY <3>1
      <3>4. QED BY <1>2, <2>1, <2>2, <3>1, <3>2, <3>3 DEF FileOK, Size
    <2>5. QED BY <2>3, <2>4
  <1>9. CASE UNCHANGED vars
    BY <1>1, <1>2, <1>4, <1>9 DEF vars
  <1>10. QED BY <1>5, <1>6, <1>7, <1>8, <1>9 DEF Next

\* Every variable of the reader keeps its type: bank numbers and offsets never
\* leave the ranges of the bytes and words that hold them.
THEOREM RamTyped == Spec => []TypeOK
  BY RamStarts, RamStep, PTL DEF Spec

\* A step of the banked reader is a step of the linear one, or none.
LEMMA StepReadsLinearly == TypeOK /\ [Next]_vars => [Linear!Next]_(Position(g_ram_bank))
  <1> SUFFICES ASSUME TypeOK, [Next]_vars
               PROVE  Linear!Next \/ UNCHANGED Position(g_ram_bank)
    OBVIOUS
  <1> USE DEF Linear!Next, Linear!Read, Linear!Skip, Linear!Jump
  <1>1. /\ g_ram_bank \in [bank : 0 .. NumBanks, at : 0 .. BankSize - 1]
        /\ Position(g_ram_bank) \in Nat
    BY RamAssumption DEF TypeOK, Position, RAM_BANK_MAX_BANKS
  <1>2. Position(g_ram_bank)' = Position(g_ram_bank')
    BY DEF Position
  <1>3. ASSUME Read PROVE Linear!Read
    <2>1. Position(g_ram_bank) < Size
      BY <1>3 DEF Read
    <2>2. Position(g_ram_bank') = Position(g_ram_bank) + 1
      BY <1>1, <1>3, <2>1, InsideFile, UpdatePosCorrect DEF Read
    <2>3. QED BY <1>2, <2>1, <2>2
  <1>4. ASSUME NEW n \in 0 .. MaxSkip, Skip(n) PROVE Linear!Skip(n)
    <2>1. Position(g_ram_bank) < Size /\ Position(g_ram_bank) + n < Size /\ n \in Nat
      BY <1>1, <1>4, FirstByte, RamAssumption DEF Skip
    <2>2. Position(g_ram_bank') = Position(g_ram_bank) + n
      BY <1>1, <1>4, <2>1, InsideFile, SeekCurrentCorrect, SplitCorrect DEF Skip
    <2>3. QED BY <1>2, <2>1, <2>2
  <1>5. ASSUME NEW offset \in JumpTargets, Jump(offset) PROVE Linear!Jump(offset)
    BY <1>2, <1>5, JumpAssumption, SplitCorrect DEF Jump, SeekSet
  <1>6. ASSUME ReadFile \/ UNCHANGED vars PROVE UNCHANGED Position(g_ram_bank)
    BY <1>6 DEF ReadFile, vars, Position
  <1>7. QED BY <1>3, <1>4, <1>5, <1>6 DEF Next

\* ram.c implements the linear reader its callers rely on: whatever the bank
\* size and the build, a read, a seek or a skip arrives at the same byte.
THEOREM RamReadsLinearly == Spec => ReadsLinearly
  <1>1. Init => Linear!Init
    BY FirstByte, SplitCorrect DEF Init, SeekSet, Linear!Init
  <1>2. QED
    BY <1>1, RamStarts, RamStep, StepReadsLinearly, PTL
       DEF Spec, ReadsLinearly, Linear!Spec

=============================================================================
