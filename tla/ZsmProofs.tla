----------------------------- MODULE ZsmProofs -----------------------------
(***************************************************************************)
(* Proofs about Zsm for every set of legal tunes that fit the banks, every *)
(* bank size and number of banks the code allows, and both builds.  First  *)
(* the pointer: the decoder stays aligned with the commands of the file,   *)
(* and a tune that is told to repeat forever does.  Then the music: the    *)
(* writes so far are always those of the performance up to the place where *)
(* the pointer is, so the decoder implements ZsmScore and ends where the   *)
(* performance does.  Last, an update comes to its end: every step leaves  *)
(* less to decode.                                                         *)
(***************************************************************************)
EXTENDS Zsm, ZsmTuneProofs

Bank == INSTANCE RamBankProofs WITH
    MaxSkip <- 63,
    JumpTargets <- {},
    absolute_position <- 0,
    file_bank <- [bank |-> 0, at |-> 0]

-----------------------------------------------------------------------------
(***************************************************************************)
(* The pointer: what RamBankProofs says of the operators of RamBank.       *)
(***************************************************************************)
Inside   == [bank : 0 .. NumBanks - 1, at : 0 .. BankSize - 1]
Pointers == [bank : 0 .. NumBanks, at : 0 .. BankSize - 1]

LEMMA BankFacts ==
    /\ Banked \in BOOLEAN
    /\ BankSize \in Nat \ {0}
    /\ NumBanks \in 1 .. Bank!RAM_BANK_MAX_BANKS
    /\ 63 \in Nat
    /\ ~Banked => NumBanks = 1
    /\ {} \subseteq 0 .. Bank!Size - 1
BY ZsmAssumption DEF Bank!RAM_BANK_MAX_BANKS

LEMMA SizeIsNat == Ram!Size \in Nat \ {0}
<1>1. NumBanks \in Nat \ {0} /\ BankSize \in Nat \ {0}
  BY ZsmAssumption
<1>2. QED
  BY <1>1 DEF Ram!Size

LEMMA PointerInside ==
    ASSUME NEW p \in Pointers
    PROVE  /\ Ram!Position(p) \in Nat
           /\ Ram!Position(p) < Ram!Size => p \in Inside
<1>1. p.bank \in Nat /\ p.at \in Nat /\ BankSize \in Nat
  BY ZsmAssumption DEF Pointers
<1>2. p.bank * BankSize \in Nat
  BY <1>1
<1>3. Bank!Position(p) < Bank!Size => p \in Inside
  BY Bank!InsideFile, BankFacts DEF Pointers, Inside
<1>4. QED
  BY <1>1, <1>2, <1>3 DEF Bank!Position, Ram!Position, Bank!Size, Ram!Size

\* RAM_UPDATE_POS, from any byte of the file.
LEMMA OneFurther ==
    ASSUME NEW p \in Pointers, Ram!Position(p) < Ram!Size
    PROVE  /\ Ram!UpdatePos(p) \in Pointers
           /\ Ram!Position(Ram!UpdatePos(p)) = Ram!Position(p) + 1
<1>1. p \in Inside
  BY PointerInside
<1>2. /\ Bank!UpdatePos(p) \in [bank : 0 .. NumBanks, at : 0 .. BankSize - 1]
      /\ Bank!Position(Bank!UpdatePos(p)) = Bank!Position(p) + 1
  BY <1>1, Bank!UpdatePosCorrect, BankFacts DEF Inside
<1>3. QED
  BY <1>2 DEF Pointers, Bank!UpdatePos, Ram!UpdatePos, Bank!GetBank, Ram!GetBank,
     Bank!Position, Ram!Position

\* ram_seek_bank to an offset of the file.
LEMMA SeekArrives ==
    ASSUME NEW offset \in Nat, offset < Ram!Size
    PROVE  /\ Ram!SeekSet(offset) \in Pointers
           /\ Ram!Position(Ram!SeekSet(offset)) = offset
<1>1. offset \in 0 .. Bank!Size - 1
  BY SizeIsNat DEF Bank!Size, Ram!Size
<1>2. /\ Bank!Split(offset) \in [bank : 0 .. NumBanks - 1, at : 0 .. BankSize - 1]
      /\ Bank!Position(Bank!Split(offset)) = offset
  BY <1>1, Bank!SplitCorrect, BankFacts
<1>3. Bank!Split(offset) = Ram!Split(offset)
  BY DEF Bank!Split, Ram!Split, Bank!RAM_BANK_MAX_BANKS, Ram!RAM_BANK_MAX_BANKS
<1>4. Ram!Split(offset) \in Pointers
  BY <1>2, <1>3, ZsmAssumption DEF Pointers
<1>5. QED
  BY <1>2, <1>3, <1>4 DEF Ram!SeekSet, Bank!Position, Ram!Position

\* ram_seek_bank forward, within the file.
LEMMA SkipArrives ==
    ASSUME NEW p \in Pointers, NEW n \in Nat, Ram!Position(p) + n < Ram!Size
    PROVE  /\ Ram!SeekCurrent(p, n) \in Pointers
           /\ Ram!Position(Ram!SeekCurrent(p, n)) = Ram!Position(p) + n
<1>1. Ram!Position(p) \in Nat /\ p \in Inside
  BY PointerInside, SizeIsNat
<1>2. Bank!Position(p) = Ram!Position(p) /\ Bank!Size = Ram!Size
  BY DEF Bank!Position, Ram!Position, Bank!Size, Ram!Size
<1>3. Bank!SeekCurrent(p, n) = Bank!Split(Bank!Position(p) + n)
  BY <1>1, <1>2, Bank!SeekCurrentCorrect, BankFacts DEF Inside
<1>4. Ram!SeekCurrent(p, n) = Bank!SeekCurrent(p, n)
  BY <1>2 DEF Bank!SeekCurrent, Ram!SeekCurrent, Bank!Split, Ram!Split, Bank!RAM_BANK_MAX_BANKS,
     Ram!RAM_BANK_MAX_BANKS
<1>5. Ram!SeekCurrent(p, n) = Ram!SeekSet(Ram!Position(p) + n)
  BY <1>2, <1>3, <1>4 DEF Ram!SeekSet, Bank!Split, Ram!Split, Bank!RAM_BANK_MAX_BANKS,
     Ram!RAM_BANK_MAX_BANKS
<1>6. QED
  BY <1>1, <1>5, SeekArrives

-----------------------------------------------------------------------------
(***************************************************************************)
(* The file.                                                               *)
(***************************************************************************)

\* Where what is in the file.
LEMMA FileLayout ==
    ASSUME NEW t \in Tunes
    PROVE  /\ IsTune(t) /\ File(t) \in Seq(Octets)
           /\ Len(File(t)) \in Nat /\ Len(File(t)) <= Ram!Size
           /\ Len(t.tokens) \in Nat
           /\ HeaderSize + Len(Encoding(t.tokens)) + 1 <= Len(File(t))
           /\ \A j \in 1 .. Len(Encoding(t.tokens)) :
                  File(t)[HeaderSize + j] = Encoding(t.tokens)[j]
           /\ File(t)[HeaderSize + Len(Encoding(t.tokens)) + 1] = 128
<1> DEFINE head == [i \in 1 .. HeaderSize |-> 0]
           e    == Encoding(t.tokens)
           a    == head \o e
           b    == a \o <<128>>
           tail == t.tail
<1>1. IsTune(t) /\ Len(File(t)) <= Ram!Size
  BY FilesAssumption
<1>2. t.tokens \in Seq(Tokens) /\ Len(t.tokens) \in Nat /\ tail \in Seq(Octets)
  BY <1>1, TuneFields
<1>3. head \in Seq(Octets) /\ Len(head) = HeaderSize /\ HeaderSize \in Nat
  <2>1. HeaderSize \in Nat
    BY ZsmAssumption
  <2>2. 0 \in Octets
    BY DEF Octets
  <2>3. QED
    BY <2>1, <2>2
<1>4. e \in Seq(Octets) /\ Len(e) \in Nat
  BY <1>2, EncodingIsBytes
<1>5. <<128>> \in Seq(Octets) /\ Len(<<128>>) = 1
  <2>1. 128 \in Octets
    BY DEF Octets
  <2>2. QED
    BY <2>1
<1>6. File(t) = b \o tail
  BY DEF File
<1> HIDE DEF head, e, tail
<1>7. a \in Seq(Octets) /\ Len(a) = Len(head) + Len(e)
        /\ \A i \in 1 .. Len(head) + Len(e) :
               a[i] = IF i <= Len(head) THEN head[i] ELSE e[i - Len(head)]
  BY <1>3, <1>4, ConcatProperties
<1> HIDE DEF a
<1>8. b \in Seq(Octets) /\ Len(b) = Len(a) + 1
        /\ \A i \in 1 .. Len(a) + 1 :
               b[i] = IF i <= Len(a) THEN a[i] ELSE <<128>>[i - Len(a)]
  BY <1>5, <1>7, ConcatProperties
<1> HIDE DEF b
<1>9. File(t) \in Seq(Octets) /\ Len(File(t)) = Len(b) + Len(tail) /\ Len(tail) \in Nat
        /\ \A i \in 1 .. Len(b) + Len(tail) :
               File(t)[i] = IF i <= Len(b) THEN b[i] ELSE tail[i - Len(b)]
  BY <1>2, <1>6, <1>8, ConcatProperties
<1>10. ASSUME NEW j \in 1 .. Len(e) PROVE File(t)[HeaderSize + j] = e[j]
  <2>1. /\ HeaderSize + j \in 1 .. Len(b) + Len(tail) /\ HeaderSize + j <= Len(b)
        /\ HeaderSize + j \in 1 .. Len(a) + 1 /\ HeaderSize + j <= Len(a)
        /\ HeaderSize + j \in 1 .. Len(head) + Len(e) /\ ~(HeaderSize + j <= Len(head))
        /\ (HeaderSize + j) - Len(head) = j
    BY <1>3, <1>4, <1>7, <1>8, <1>9
  <2>2. File(t)[HeaderSize + j] = b[HeaderSize + j]
    BY <1>9, <2>1
  <2>3. b[HeaderSize + j] = a[HeaderSize + j]
    BY <1>8, <2>1
  <2>4. a[HeaderSize + j] = e[(HeaderSize + j) - Len(head)]
    BY <1>7, <2>1
  <2>5. QED
    BY <2>1, <2>2, <2>3, <2>4
<1>11. File(t)[HeaderSize + Len(e) + 1] = 128
  <2> DEFINE at == HeaderSize + Len(e) + 1
  <2>1. /\ at \in 1 .. Len(b) + Len(tail) /\ at <= Len(b)
        /\ at \in 1 .. Len(a) + 1 /\ ~(at <= Len(a)) /\ at - Len(a) = 1
    BY <1>3, <1>4, <1>7, <1>8, <1>9
  <2> HIDE DEF at
  <2>2. File(t)[at] = b[at]
    BY <1>9, <2>1
  <2>3. b[at] = <<128>>[at - Len(a)]
    BY <1>8, <2>1
  <2>4. <<128>>[1] = 128
    OBVIOUS
  <2>5. QED
    BY <2>1, <2>2, <2>3, <2>4, SMTT(30) DEF at
<1>12. HeaderSize + Len(e) + 1 <= Len(File(t)) /\ Len(File(t)) \in Nat
  BY <1>3, <1>4, <1>7, <1>8, <1>9
<1>13. QED
  BY <1>1, <1>2, <1>9, <1>10, <1>11, <1>12 DEF e

\* The offsets of the commands.
LEMMA OffsetIs ==
    ASSUME NEW t \in Tunes, NEW k \in 0 .. Len(t.tokens)
    PROVE  /\ Offset(t, k) \in Nat /\ Offset(t, k) >= HeaderSize
           /\ Offset(t, k) < Len(File(t)) /\ Offset(t, k) < Ram!Size
           /\ Offset(t, k) = HeaderSize + Len(Encoded(t.tokens)[k])
<1> DEFINE e == Encoding(t.tokens)
           a == Encoded(t.tokens)[k]
<1>1. /\ IsTune(t) /\ Len(File(t)) \in Nat /\ Len(File(t)) <= Ram!Size
      /\ HeaderSize + Len(e) + 1 <= Len(File(t))
  BY FileLayout
<1>2. t.tokens \in Seq(Tokens)
  BY <1>1, TuneFields
<1>3. a \in Seq(Octets)
  BY <1>2, EncodedIs
<1>4. PICK rest \in Seq(Octets) : e = a \o rest
  BY <1>2, EncodingGoesOn
<1>5. Offset(t, k) = HeaderSize + Len(a)
  BY DEF Offset
<1> HIDE DEF a, e
<1>6. Len(e) = Len(a) + Len(rest) /\ Len(a) \in Nat /\ Len(rest) \in Nat
  BY <1>3, <1>4, ConcatProperties, LenProperties
<1>7. HeaderSize \in Nat
  BY ZsmAssumption
<1>8. Offset(t, k) \in Nat /\ Offset(t, k) >= HeaderSize /\ Offset(t, k) < Len(File(t))
  BY <1>1, <1>5, <1>6, <1>7
<1>9. Offset(t, k) < Ram!Size
  BY <1>1, <1>8, SizeIsNat
<1>10. QED
  BY <1>5, <1>8, <1>9 DEF a

\* The bytes at the offset of a token are those of the token; the end-of-file
\* command is behind the last.
LEMMA TokenInFile ==
    ASSUME NEW t \in Tunes, NEW k \in 0 .. Len(t.tokens), k # Len(t.tokens)
    PROVE  /\ t.tokens[k + 1] \in Tokens /\ k + 1 \in 0 .. Len(t.tokens)
           /\ Offset(t, k + 1) = Offset(t, k) + Len(Bytes(t.tokens[k + 1]))
           /\ \A j \in 1 .. Len(Bytes(t.tokens[k + 1])) :
                  Byte(t, Offset(t, k) + j - 1) = Bytes(t.tokens[k + 1])[j]
<1> DEFINE token == t.tokens[k + 1]
           e     == Encoding(t.tokens)
           a     == Encoded(t.tokens)[k]
           c     == Encoded(t.tokens)[k + 1]
           n     == Len(Bytes(token))
<1>1. /\ IsTune(t) /\ Len(File(t)) \in Nat
      /\ HeaderSize + Len(e) + 1 <= Len(File(t))
      /\ \A j \in 1 .. Len(e) : File(t)[HeaderSize + j] = e[j]
  BY FileLayout
<1>2. t.tokens \in Seq(Tokens) /\ Len(t.tokens) \in Nat
  BY <1>1, TuneFields
<1>3. k + 1 \in 1 .. Len(t.tokens) /\ k + 1 \in 0 .. Len(t.tokens)
  BY <1>2
<1>4. token \in Tokens
  BY <1>2, <1>3, ElementOfSeq
<1>5. n \in Nat
  BY <1>4, BytesOfToken
<1>6. /\ Len(a) \in Nat /\ Len(c) = Len(a) + n /\ Len(c) <= Len(e)
      /\ \A j \in 1 .. n : e[Len(a) + j] = Bytes(token)[j]
  BY <1>2, EncodingHasToken
<1>7. Offset(t, k) = HeaderSize + Len(a) /\ Offset(t, k + 1) = HeaderSize + Len(c)
  BY DEF Offset
<1>8. HeaderSize \in Nat /\ Len(e) \in Nat
  <2>1. Len(e) \in Nat
    BY <1>2, EncodingIsBytes
  <2>2. QED
    BY <2>1, ZsmAssumption
<1> HIDE DEF a, c, e, n
<1>9. Offset(t, k + 1) = Offset(t, k) + n
  BY <1>5, <1>6, <1>7, <1>8
<1>10. ASSUME NEW j \in 1 .. n PROVE Byte(t, Offset(t, k) + j - 1) = Bytes(token)[j]
  <2>1. /\ Len(a) + j \in 1 .. Len(e)
        /\ (Offset(t, k) + j - 1) + 1 = HeaderSize + (Len(a) + j)
        /\ Offset(t, k) + j - 1 < Len(File(t))
    BY <1>1, <1>5, <1>6, <1>7, <1>8
  <2>2. Byte(t, Offset(t, k) + j - 1) = File(t)[HeaderSize + (Len(a) + j)]
    BY <2>1 DEF Byte
  <2>3. File(t)[HeaderSize + (Len(a) + j)] = e[Len(a) + j]
    BY <1>1, <2>1
  <2>4. e[Len(a) + j] = Bytes(token)[j]
    BY <1>6
  <2>5. QED
    BY <2>2, <2>3, <2>4
<1>11. QED
  BY <1>3, <1>4, <1>9, <1>10 DEF n

LEMMA EndInFile ==
    ASSUME NEW t \in Tunes
    PROVE  Byte(t, Offset(t, Len(t.tokens))) = 128
<1> DEFINE at == HeaderSize + Len(Encoding(t.tokens))
<1>1. /\ Len(File(t)) \in Nat /\ Len(t.tokens) \in Nat
      /\ at + 1 <= Len(File(t)) /\ File(t)[at + 1] = 128
  BY FileLayout
<1>2. Offset(t, Len(t.tokens)) = at
  BY DEF Offset, Encoding
<1>3. at \in Nat
  <2>1. Len(t.tokens) \in 0 .. Len(t.tokens)
    BY <1>1
  <2>2. QED
    BY <1>2, <2>1, OffsetIs
<1> HIDE DEF at
<1>4. at < Len(File(t))
  BY <1>1, <1>3
<1>5. QED
  BY <1>1, <1>2, <1>4 DEF Byte

\* The d-th register/value pair of an FM command in the file.
LEMMA PairInFile ==
    ASSUME NEW t \in Tunes, NEW k \in 0 .. Len(t.tokens), k # Len(t.tokens),
           t.tokens[k + 1].op = "fm", NEW d \in 1 .. Len(t.tokens[k + 1].pairs)
    PROVE  /\ Byte(t, Offset(t, k) + 2 * d - 1) = t.tokens[k + 1].pairs[d][1]
           /\ Byte(t, Offset(t, k) + 2 * d) = t.tokens[k + 1].pairs[d][2]
           /\ Offset(t, k) \in Nat /\ Offset(t, k) + 2 * d < Ram!Size
<1> DEFINE token == t.tokens[k + 1]
           at    == Offset(t, k)
           n     == Len(token.pairs)
           b     == Bytes(token)
<1>1. /\ token \in Tokens /\ k + 1 \in 0 .. Len(t.tokens)
      /\ Offset(t, k + 1) = at + Len(b)
      /\ \A j \in 1 .. Len(b) : Byte(t, at + j - 1) = b[j]
  BY TokenInFile
<1>2. /\ Len(b) = 1 + 2 * n
      /\ b[2 * d] = token.pairs[d][1] /\ b[2 * d + 1] = token.pairs[d][2]
  BY <1>1, FmBytes
<1>3. n \in 1 .. 63
  BY <1>1, TokenFields
<1>4. at \in Nat
  BY OffsetIs
<1>5. Offset(t, k + 1) < Ram!Size
  BY <1>1, OffsetIs
<1>6. Ram!Size \in Nat
  BY SizeIsNat
<1>7. d \in 1 .. n
  OBVIOUS
<1> HIDE DEF at, n, b, token
<1>8. 2 * d \in 1 .. Len(b) /\ 2 * d + 1 \in 1 .. Len(b)
  BY <1>2, <1>3, <1>7
<1>9. at + 2 * d - 1 = at + (2 * d) - 1 /\ at + (2 * d + 1) - 1 = at + 2 * d
  BY <1>4, <1>3, <1>7
<1>10. Byte(t, at + 2 * d - 1) = b[2 * d] /\ Byte(t, at + 2 * d) = b[2 * d + 1]
  BY <1>1, <1>8, <1>9
<1>11. at + 2 * d < Ram!Size
  <2>1. Offset(t, k + 1) = at + (1 + 2 * n)
    BY <1>1, <1>2
  <2>2. at + (1 + 2 * n) < Ram!Size
    BY <1>5, <2>1
  <2>3. QED
    BY <1>3, <1>4, <1>6, <1>7, <2>2
<1>12. QED
  BY <1>2, <1>4, <1>10, <1>11 DEF at, token

\* Commands are bytes of the file, in its banks; the loop leads to one of them.
LEMMA CommandsInFile ==
    ASSUME NEW t \in Tunes
    PROVE  /\ HeaderSize = Offset(t, 0) /\ HeaderSize \in CommandOffsets(t)
           /\ t.loop # 0 => LoopPoint(t) \in CommandOffsets(t)
           /\ LoopPoint(t) # 0 <=> t.loop # 0
           /\ \A offset \in CommandOffsets(t) :
                  offset \in Nat /\ offset < Len(File(t)) /\ offset < Ram!Size
           /\ Len(File(t)) \in Nat /\ Len(File(t)) <= Ram!Size
<1>1. IsTune(t) /\ Len(File(t)) \in Nat /\ Len(File(t)) <= Ram!Size
  BY FileLayout
<1>2. t.tokens \in Seq(Tokens) /\ Len(t.tokens) \in Nat /\ t.loop \in 0 .. Len(t.tokens)
  BY <1>1, TuneFields
<1>3. HeaderSize \in Nat \ {0}
  BY ZsmAssumption
<1>4. HeaderSize = Offset(t, 0)
  <2>1. Encoded(t.tokens)[0] = <<>>
    BY <1>2, EncodedIs
  <2>2. Len(<<>>) = 0
    BY EmptySeq
  <2>3. QED
    BY <1>3, <2>1, <2>2 DEF Offset
<1>5. HeaderSize \in CommandOffsets(t)
  <2>1. 0 \in 0 .. Len(t.tokens)
    BY <1>2
  <2>2. QED
    BY <1>4, <2>1 DEF CommandOffsets
<1>6. t.loop # 0 => LoopPoint(t) \in CommandOffsets(t) /\ LoopPoint(t) # 0
  <2> SUFFICES ASSUME t.loop # 0 PROVE LoopPoint(t) \in CommandOffsets(t) /\ LoopPoint(t) # 0
    OBVIOUS
  <2>1. t.loop - 1 \in 0 .. Len(t.tokens)
    BY <1>2
  <2>2. LoopPoint(t) = Offset(t, t.loop - 1)
    BY DEF LoopPoint
  <2>3. LoopPoint(t) # 0
    BY <1>3, <2>1, <2>2, OffsetIs
  <2>4. QED
    BY <2>1, <2>2, <2>3 DEF CommandOffsets
<1>7. t.loop = 0 => LoopPoint(t) = 0
  BY DEF LoopPoint
<1>8. \A offset \in CommandOffsets(t) :
          offset \in Nat /\ offset < Len(File(t)) /\ offset < Ram!Size
  BY OffsetIs DEF CommandOffsets
<1>9. QED
  BY <1>1, <1>4, <1>5, <1>6, <1>7, <1>8

\* *p is a byte.
LEMMA BytesAreBytes ==
    ASSUME tune \in Tunes, NEW p \in Pointers
    PROVE  ByteAt(p) \in 0 .. 255
<1>1. File(tune) \in Seq(0 .. 255)
  BY FileLayout DEF Octets
<1>2. Ram!Position(p) \in Nat
  BY PointerInside
<1>3. CASE Ram!Position(p) < Len(File(tune))
  <2> DEFINE file == File(tune)
             at   == Ram!Position(p)
  <2>1. file \in Seq(0 .. 255) /\ at \in Nat /\ at < Len(file)
    BY <1>1, <1>2, <1>3
  <2>2. ByteAt(p) = file[at + 1]
    BY <1>3 DEF ByteAt, Byte
  <2> HIDE DEF file, at
  <2>3. at + 1 \in 1 .. Len(file)
    BY <2>1
  <2>4. file[at + 1] \in 0 .. 255
    BY <2>1, <2>3, ElementOfSeq
  <2>5. QED
    BY <2>2, <2>4
<1>4. CASE ~(Ram!Position(p) < Len(File(tune)))
  BY <1>4 DEF ByteAt, Byte
<1>5. QED
  BY <1>3, <1>4

\* What the decoder reads where a token is, and how far it is to the next.
Reads(token, k) ==
    /\ token \in Tokens /\ k + 1 \in 0 .. Len(tune.tokens)
    /\ Operand \in Pointers /\ Ram!Position(Operand) = Offset(tune, k) + 1
    /\ token.op = "psg" => /\ Command = token.address /\ Command \in 0 .. 63
                           /\ ByteAt(Operand) = token.data
                           /\ Offset(tune, k + 1) = Offset(tune, k) + 2
    /\ token.op = "fm" => /\ Command = 64 + Len(token.pairs) /\ Command \in 65 .. 127
                          /\ Offset(tune, k + 1) = Offset(tune, k) + 1 + 2 * Len(token.pairs)
    /\ token.op = "delay" => /\ Command = 128 + token.ticks /\ Command \in 129 .. 255
                             /\ Offset(tune, k + 1) = Offset(tune, k) + 1
    /\ token.op = "ext" => /\ Command = 64 /\ ByteAt(Operand) = 64 + Len(token.payload)
                           /\ Offset(tune, k + 1) = Offset(tune, k) + 2 + Len(token.payload)

LEMMA AtToken ==
    ASSUME tune \in Tunes, g_ram_bank \in Pointers, NEW k \in 0 .. Len(tune.tokens),
           k # Len(tune.tokens), Ram!Position(g_ram_bank) = Offset(tune, k)
    PROVE  Reads(tune.tokens[k + 1], k)
<1> DEFINE token == tune.tokens[k + 1]
           at    == Offset(tune, k)
           b     == Bytes(token)
<1>1. /\ token \in Tokens /\ k + 1 \in 0 .. Len(tune.tokens)
      /\ Offset(tune, k + 1) = at + Len(b)
      /\ \A j \in 1 .. Len(b) : Byte(tune, at + j - 1) = b[j]
  BY TokenInFile
<1>2. at \in Nat /\ at < Ram!Size
  BY OffsetIs
<1>3. Operand \in Pointers /\ Ram!Position(Operand) = at + 1
  BY <1>2, OneFurther DEF Operand
<1>4. Command = Byte(tune, at) /\ ByteAt(Operand) = Byte(tune, at + 1)
  BY <1>3 DEF Command, ByteAt
<1> HIDE DEF at, token
<1>5. Len(b) >= 1 /\ Len(b) \in Nat => Command = b[1]
  <2>1. at + 1 - 1 = at
    BY <1>2
  <2>2. Len(b) >= 1 /\ Len(b) \in Nat => 1 \in 1 .. Len(b)
    OBVIOUS
  <2>3. QED
    BY <1>1, <1>4, <2>1, <2>2
<1>6. Len(b) >= 2 /\ Len(b) \in Nat => ByteAt(Operand) = b[2]
  <2>1. at + 2 - 1 = at + 1
    BY <1>2
  <2>2. Len(b) >= 2 /\ Len(b) \in Nat => 2 \in 1 .. Len(b)
    OBVIOUS
  <2>3. QED
    BY <1>1, <1>4, <2>1, <2>2
<1>7. token.op = "psg" => /\ Command = token.address /\ Command \in 0 .. 63
                          /\ ByteAt(Operand) = token.data
                          /\ Offset(tune, k + 1) = at + 2
  <2> SUFFICES ASSUME token.op = "psg"
               PROVE  /\ Command = token.address /\ Command \in 0 .. 63
                      /\ ByteAt(Operand) = token.data
                      /\ Offset(tune, k + 1) = at + 2
    OBVIOUS
  <2>1. Len(b) = 2 /\ b[1] = token.address /\ b[2] = token.data
    BY <1>1, PsgBytes
  <2>2. token.address \in 0 .. 63
    BY <1>1, TokenFields
  <2> HIDE DEF b
  <2>3. Command = b[1] /\ ByteAt(Operand) = b[2] /\ Offset(tune, k + 1) = at + 2
    BY <1>1, <1>5, <1>6, <2>1
  <2>4. QED
    BY <2>1, <2>2, <2>3
<1>8. token.op = "fm" => /\ Command = 64 + Len(token.pairs) /\ Command \in 65 .. 127
                         /\ Offset(tune, k + 1) = at + 1 + 2 * Len(token.pairs)
  <2> SUFFICES ASSUME token.op = "fm"
               PROVE  /\ Command = 64 + Len(token.pairs) /\ Command \in 65 .. 127
                      /\ Offset(tune, k + 1) = at + 1 + 2 * Len(token.pairs)
    OBVIOUS
  <2> DEFINE n == Len(token.pairs)
  <2>1. Len(b) = 1 + 2 * n /\ b[1] = 64 + n
    BY <1>1, FmBytes
  <2>2. n \in 1 .. 63
    BY <1>1, TokenFields
  <2> HIDE DEF b, n
  <2>3. Command = 64 + n /\ Offset(tune, k + 1) = at + (1 + 2 * n)
    BY <1>1, <1>5, <2>1, <2>2
  <2>4. Command \in 65 .. 127 /\ at + (1 + 2 * n) = at + 1 + 2 * n
    BY <1>2, <2>2, <2>3
  <2>5. QED
    BY <2>3, <2>4 DEF n
<1>9. token.op = "delay" => /\ Command = 128 + token.ticks /\ Command \in 129 .. 255
                            /\ Offset(tune, k + 1) = at + 1
  <2> SUFFICES ASSUME token.op = "delay"
               PROVE  /\ Command = 128 + token.ticks /\ Command \in 129 .. 255
                      /\ Offset(tune, k + 1) = at + 1
    OBVIOUS
  <2> DEFINE n == token.ticks
  <2>1. Len(b) = 1 /\ b[1] = 128 + n
    BY <1>1, DelayBytes
  <2>2. n \in 1 .. 127
    BY <1>1, TokenFields
  <2> HIDE DEF b, n
  <2>3. Command = 128 + n /\ Offset(tune, k + 1) = at + 1
    BY <1>1, <1>5, <2>1, <2>2
  <2>4. Command \in 129 .. 255
    BY <2>2, <2>3
  <2>5. QED
    BY <2>3, <2>4 DEF n
<1>10. token.op = "ext" => /\ Command = 64 /\ ByteAt(Operand) = 64 + Len(token.payload)
                           /\ Offset(tune, k + 1) = at + 2 + Len(token.payload)
  <2> SUFFICES ASSUME token.op = "ext"
               PROVE  /\ Command = 64 /\ ByteAt(Operand) = 64 + Len(token.payload)
                      /\ Offset(tune, k + 1) = at + 2 + Len(token.payload)
    OBVIOUS
  <2> DEFINE n == Len(token.payload)
  <2>1. Len(b) = 2 + n /\ b[1] = 64 /\ b[2] = 64 + n
    BY <1>1, ExtensionBytes
  <2>2. n \in 0 .. 63
    BY <1>1, TokenFields
  <2> HIDE DEF b, n
  <2>3. Command = 64 /\ ByteAt(Operand) = 64 + n /\ Offset(tune, k + 1) = at + (2 + n)
    BY <1>1, <1>5, <1>6, <2>1, <2>2
  <2>4. at + (2 + n) = at + 2 + n
    BY <1>2, <2>2
  <2>5. QED
    BY <2>3, <2>4 DEF n
<1>11. QED
  BY <1>1, <1>3, <1>7, <1>8, <1>9, <1>10 DEF Reads, at, token

\* The command byte tells the kind of the token.
LEMMA CommandTells ==
    ASSUME NEW token, NEW k, Reads(token, k), token.op \in {"psg", "fm", "delay", "ext"}
    PROVE  /\ Command < 64 => token.op = "psg"
           /\ Command = 64 => token.op = "ext"
           /\ Command \in 65 .. 127 => token.op = "fm"
           /\ Command > 128 => token.op = "delay"
           /\ Command # 128
           /\ token \in Tokens
<1> DEFINE c == Command
<1>1. /\ token.op = "psg" => c \in 0 .. 63
      /\ token.op = "fm" => c \in 65 .. 127
      /\ token.op = "delay" => c \in 129 .. 255
      /\ token.op = "ext" => c = 64
      /\ token \in Tokens
  BY DEF Reads
<1> HIDE DEF c
<1>2. CASE token.op = "psg"
  <2>1. c \in 0 .. 63
    BY <1>1, <1>2
  <2>2. c < 64 /\ c # 64 /\ c \notin 65 .. 127 /\ ~(c > 128) /\ c # 128
    BY ONLY <2>1
  <2>3. QED
    BY <1>1, <1>2, <2>2 DEF c
<1>3. CASE token.op = "fm"
  <2>1. c \in 65 .. 127
    BY <1>1, <1>3
  <2>2. ~(c < 64) /\ c # 64 /\ ~(c > 128) /\ c # 128
    BY ONLY <2>1
  <2>3. QED
    BY <1>1, <1>3, <2>2 DEF c
<1>4. CASE token.op = "delay"
  <2>1. c \in 129 .. 255
    BY <1>1, <1>4
  <2>2. ~(c < 64) /\ c # 64 /\ c \notin 65 .. 127 /\ c # 128
    BY ONLY <2>1
  <2>3. QED
    BY <1>1, <1>4, <2>2 DEF c
<1>5. CASE token.op = "ext"
  <2>1. c = 64
    BY <1>1, <1>5
  <2>2. ~(c < 64) /\ c \notin 65 .. 127 /\ ~(c > 128) /\ c # 128
    BY ONLY <2>1
  <2>3. QED
    BY <1>1, <1>5, <2>2 DEF c
<1>6. QED
  BY <1>2, <1>3, <1>4, <1>5

\* Behind the last token the decoder finds the end-of-file command.
LEMMA AtEnd ==
    ASSUME tune \in Tunes, g_ram_bank \in Pointers,
           Ram!Position(g_ram_bank) = Offset(tune, Len(tune.tokens))
    PROVE  Command = 128
BY EndInFile DEF Command, ByteAt

\* A command leads to the next, at a distance its byte tells.
LEMMA CommandLeadsOn ==
    ASSUME tune \in Tunes, g_ram_bank \in Pointers,
           NEW offset \in CommandOffsets(tune), Ram!Position(g_ram_bank) = offset
    PROVE  /\ offset \in Nat /\ offset < Ram!Size
           /\ Command \in 0 .. 255
           /\ Operand \in Pointers /\ Ram!Position(Operand) = offset + 1
           /\ Command < 64 => offset + 2 \in CommandOffsets(tune)
           /\ Command = 64 => offset + 2 + (ByteAt(Operand) % 64) \in CommandOffsets(tune)
           /\ Command \in 65 .. 127 => offset + 1 + 2 * (Command % 64) \in CommandOffsets(tune)
           /\ Command > 128 => offset + 1 \in CommandOffsets(tune)
<1>1. offset \in Nat /\ offset < Ram!Size
  BY CommandsInFile
<1>2. Command \in 0 .. 255
  BY BytesAreBytes DEF Command
<1>3. Operand \in Pointers /\ Ram!Position(Operand) = offset + 1
  BY <1>1, OneFurther DEF Operand
<1>4. PICK k \in 0 .. Len(tune.tokens) : offset = Offset(tune, k)
  BY DEF CommandOffsets
<1>5. CASE k = Len(tune.tokens)
  <2>1. Command = 128
    BY <1>4, <1>5, AtEnd
  <2>2. QED
    BY <1>1, <1>3, <2>1
<1>6. CASE k # Len(tune.tokens)
  <2> DEFINE token == tune.tokens[k + 1]
             next  == Offset(tune, k + 1)
  <2>1. /\ token \in Tokens /\ k + 1 \in 0 .. Len(tune.tokens)
        /\ token.op = "psg" => Command \in 0 .. 63 /\ next = offset + 2
        /\ token.op = "fm" => /\ Command = 64 + Len(token.pairs) /\ Command \in 65 .. 127
                              /\ next = offset + 1 + 2 * Len(token.pairs)
        /\ token.op = "delay" => Command \in 129 .. 255 /\ next = offset + 1
        /\ token.op = "ext" => /\ Command = 64 /\ ByteAt(Operand) = 64 + Len(token.payload)
                               /\ next = offset + 2 + Len(token.payload)
    <3>1. Reads(token, k)
      BY <1>4, <1>6, AtToken
    <3>2. QED
      BY <1>4, <3>1 DEF Reads
  <2>2. next \in CommandOffsets(tune)
    BY <2>1 DEF CommandOffsets
  <2>3. /\ token.op \in {"psg", "fm", "delay", "ext"}
        /\ token.op = "fm" => Len(token.pairs) \in 1 .. 63
        /\ token.op = "ext" => Len(token.payload) \in 0 .. 63
    BY <2>1, TokenFields
  <2> HIDE DEF token, next
  <2>4. CASE token.op = "psg"
    <3>1. Command \in 0 .. 63 /\ next = offset + 2
      BY <2>1, <2>4
    <3>2. QED
      BY <1>1, <1>3, <2>2, <3>1
  <2>5. CASE token.op = "fm"
    <3> DEFINE n == Len(token.pairs)
    <3>1. Command = 64 + n /\ next = offset + 1 + 2 * n /\ n \in 1 .. 63
      BY <2>1, <2>3, <2>5
    <3> HIDE DEF n
    <3>2. Command \in 65 .. 127 /\ Command % 64 = n
      BY <3>1
    <3>3. QED
      BY <1>1, <1>3, <2>2, <3>1, <3>2
  <2>6. CASE token.op = "delay"
    <3>1. Command \in 129 .. 255 /\ next = offset + 1
      BY <2>1, <2>6
    <3>2. QED
      BY <1>1, <1>3, <2>2, <3>1
  <2>7. CASE token.op = "ext"
    <3> DEFINE n == Len(token.payload)
    <3>1. Command = 64 /\ ByteAt(Operand) = 64 + n /\ next = offset + 2 + n /\ n \in 0 .. 63
      BY <2>1, <2>3, <2>7
    <3> HIDE DEF n
    <3>2. ByteAt(Operand) % 64 = n
      BY <3>1
    <3>3. QED
      BY <1>1, <1>3, <2>2, <3>1, <3>2
  <2>8. QED
    BY <2>3, <2>4, <2>5, <2>6, <2>7
<1>7. QED
  BY <1>5, <1>6

-----------------------------------------------------------------------------
(***************************************************************************)
(* The invariant.                                                          *)
(***************************************************************************)
LEMMA InitZsm == Init => ZsmInv
<1> SUFFICES ASSUME Init PROVE ZsmInv
  OBVIOUS
<1>1. 0 < Ram!Size
  BY SizeIsNat
<1>2. Ram!SeekSet(0) \in Pointers
  BY <1>1, SeekArrives
<1>3. g_ram_bank \in [bank : 0 .. NumBanks, at : 0 .. BankSize - 1]
  BY <1>2 DEF Init, Pointers
<1>4. TypeOK
  <2>1. MaxTicks \in Nat
    BY ZsmAssumption
  <2>2. tick \in 0 .. MaxTicks
    BY <2>1 DEF Init
  <2>3. /\ g_play_stream \in BOOLEAN /\ escaped \in BOOLEAN
        /\ real_write_funcs \subseteq {"ym", "psg"}
        /\ tune \in Tunes /\ repeat_arg \in RepeatArgs
        /\ pc \in {"boot"} /\ update \in {"idle"}
    BY DEF Init
  <2>4. /\ pairs \in 0 .. 63 /\ g_zsm_repeat \in RepeatArgs \cup {0}
        /\ g_delay_ticks \in 0 .. 127 /\ g_repeat_count \in 0 .. 255
    BY DEF Init
  <2>5. QED
    BY <1>3, <2>2, <2>3, <2>4 DEF TypeOK
<1>5. PointerInv /\ RepeatInv
  BY DEF Init, PointerInv, RepeatInv
<1>6. QED
  BY <1>4, <1>5 DEF ZsmInv

\* ram_seek_bank to a command of the file.
LEMMA ReadyAligned ==
    ASSUME tune \in Tunes, NEW offset \in CommandOffsets(tune)
    PROVE  /\ Ram!SeekSet(offset) \in Pointers
           /\ Ram!Position(Ram!SeekSet(offset)) \in CommandOffsets(tune)
<1>1. offset \in Nat /\ offset < Ram!Size
  BY CommandsInFile
<1>2. QED
  BY <1>1, SeekArrives

LEMMA InitializeKeeps ==
    ASSUME ZsmInv, NEW write_funcs \in SUBSET {"ym", "psg"}, Initialize(write_funcs)
    PROVE  ZsmInv'
<1>1. tune \in Tunes /\ HeaderSize \in CommandOffsets(tune)
  BY CommandsInFile DEF ZsmInv, TypeOK
<1>2. Ram!SeekSet(HeaderSize) \in Pointers
        /\ Ram!Position(Ram!SeekSet(HeaderSize)) \in CommandOffsets(tune)
  BY <1>1, ReadyAligned
<1>3. update = "idle" \/ g_play_stream
  BY DEF ZsmInv, PointerInv
<1>4. ~g_play_stream /\ update = "idle"
  BY <1>3 DEF Initialize, ZsmInv, PointerInv
<1>5. TypeOK'
  BY <1>2 DEF Initialize, ZsmInv, TypeOK, Pointers
<1>6. PointerInv'
  BY <1>2, <1>4 DEF Initialize, ZsmInv, PointerInv
<1>7. RepeatInv'
  BY DEF Initialize, ZsmInv, RepeatInv
<1>8. QED
  BY <1>5, <1>6, <1>7 DEF ZsmInv

\* The four stores of zsm_start.
LEMMA StartKeeps == ASSUME ZsmInv, Start PROVE ZsmInv'
<1>1. CASE StartDelay
  BY <1>1 DEF StartDelay, setup, ZsmInv, TypeOK, PointerInv, RepeatInv
<1>2. CASE StartStream
  BY <1>2 DEF StartStream, setup, ZsmInv, TypeOK, PointerInv, RepeatInv
<1>3. CASE StartRepeat
  BY <1>3 DEF StartRepeat, setup, decoder, ZsmInv, TypeOK, PointerInv, RepeatInv
<1>4. CASE StartCount
  <2>1. repeat_arg \in (0 .. 255) \cup {ZSM_REPEAT_FOREVER}
    BY ZsmAssumption DEF ZsmInv, TypeOK
  <2>2. repeat_arg >= ZSM_REPEAT_FOREVER => g_repeat_count' = ForeverCount
    BY <1>4 DEF StartCount
  <2>3. ~(repeat_arg >= ZSM_REPEAT_FOREVER) => g_repeat_count' \in 0 .. 255
    BY <1>4, <2>1 DEF StartCount, ZSM_REPEAT_FOREVER
  <2>4. g_repeat_count' \in 0 .. 255 /\ (repeat_arg >= ZSM_REPEAT_FOREVER => g_repeat_count' >= 1)
    BY <2>2, <2>3, ZsmAssumption
  <2>5. QED
    BY <1>4, <2>4 DEF StartCount, setup, ZsmInv, TypeOK, PointerInv, RepeatInv
<1>5. QED
  BY <1>1, <1>2, <1>3, <1>4 DEF Start

LEMMA MainKeeps == ASSUME ZsmInv, Stop \/ LeaveLoop PROVE ZsmInv'
<1>1. CASE Stop
  BY <1>1 DEF Stop, setup, ZsmInv, TypeOK, PointerInv, RepeatInv
<1>2. CASE LeaveLoop
  BY <1>2 DEF LeaveLoop, setup, decoder, ZsmInv, TypeOK, PointerInv, RepeatInv
<1>3. QED
  BY <1>1, <1>2

LEMMA TickKeeps == ASSUME ZsmInv, Tick PROVE ZsmInv'
<1>1. TypeOK'
  BY ZsmAssumption DEF Tick, Resume, setup, ZsmInv, TypeOK
<1>2. PointerInv'
  BY DEF Tick, Resume, setup, ZsmInv, TypeOK, PointerInv
<1>3. RepeatInv'
  BY DEF Tick, setup, ZsmInv, RepeatInv
<1>4. QED
  BY <1>1, <1>2, <1>3 DEF ZsmInv

-----------------------------------------------------------------------------
(***************************************************************************)
(* zsm_update.                                                             *)
(***************************************************************************)

\* Between two commands of the stream: the pointer is at a command.
LEMMA AtCommand ==
    ASSUME ZsmInv, update = "command"
    PROVE  /\ tune \in Tunes /\ g_ram_bank \in Pointers
           /\ Ram!Position(g_ram_bank) \in CommandOffsets(tune)
           /\ g_play_stream /\ g_delay_ticks = 0
           /\ pc \in {"stream_on", "repeat_set", "playing"}
BY DEF ZsmInv, TypeOK, PointerInv, Pointers

\* A command that only moves the pointer to another command keeps the invariant.
LEMMA NextCommand ==
    ASSUME ZsmInv, update = "command",
           g_ram_bank' \in Pointers, Ram!Position(g_ram_bank)' \in CommandOffsets(tune),
           g_delay_ticks' \in 0 .. 127, Resume("command"),
           UNCHANGED <<setup, pc, pairs, g_play_stream, g_zsm_repeat, tick, escaped>>,
           g_repeat_count' \in 0 .. 255,
           repeat_arg >= ZSM_REPEAT_FOREVER /\ pc = "playing" => g_repeat_count' >= 1
    PROVE  ZsmInv'
<1>1. TypeOK'
  BY DEF Resume, setup, ZsmInv, TypeOK, Pointers
<1>2. PointerInv'
  BY AtCommand DEF Resume, setup, ZsmInv, TypeOK, PointerInv
<1>3. RepeatInv'
  BY DEF setup, ZsmInv, RepeatInv
<1>4. QED
  BY <1>1, <1>2, <1>3 DEF ZsmInv

LEMMA SkipExtensionKeeps == ASSUME ZsmInv, SkipExtension PROVE ZsmInv'
<1> DEFINE at   == Ram!Position(g_ram_bank)
           skip == ByteAt(Operand) % 64
           data == Ram!UpdatePos(Operand)
<1>1. update = "command" /\ Command = 64
  BY DEF SkipExtension
<1>2. /\ tune \in Tunes /\ g_ram_bank \in Pointers /\ at \in CommandOffsets(tune)
  BY <1>1, AtCommand
<1>3. /\ at \in Nat
      /\ Operand \in Pointers /\ Ram!Position(Operand) = at + 1
      /\ at + 2 + skip \in CommandOffsets(tune)
  BY <1>1, <1>2, CommandLeadsOn
<1>4. at + 2 + skip < Ram!Size
  BY <1>2, <1>3, CommandsInFile
<1>5. ByteAt(Operand) \in 0 .. 255
  BY <1>2, <1>3, BytesAreBytes
<1>6. skip \in Nat
  BY <1>5
<1>7. data \in Pointers /\ Ram!Position(data) = at + 2
  <2> HIDE DEF skip
  <2>1. at + 1 < Ram!Size
    BY <1>3, <1>4, <1>6, SizeIsNat
  <2>2. Ram!Position(data) = (at + 1) + 1 /\ data \in Pointers
    BY <1>3, <2>1, OneFurther
  <2>3. QED
    BY <1>3, <2>2
<1>8. Ram!SeekCurrent(data, skip) \in Pointers
        /\ Ram!Position(Ram!SeekCurrent(data, skip)) = at + 2 + skip
  <2> HIDE DEF skip, data
  <2>1. QED
    BY <1>4, <1>6, <1>7, SkipArrives
<1>9. g_ram_bank' = Ram!SeekCurrent(data, skip)
  BY DEF SkipExtension
<1>10. g_ram_bank' \in Pointers /\ Ram!Position(g_ram_bank') \in CommandOffsets(tune')
  <2> HIDE DEF skip, data
  <2>1. QED
    BY <1>3, <1>8, <1>9 DEF SkipExtension, setup
<1>11. /\ g_delay_ticks' \in 0 .. 127 /\ g_repeat_count' \in 0 .. 255
       /\ repeat_arg >= ZSM_REPEAT_FOREVER /\ pc = "playing" => g_repeat_count' >= 1
  BY DEF SkipExtension, ZsmInv, TypeOK, RepeatInv
<1>12. /\ UNCHANGED <<setup, pc, pairs, g_play_stream, g_zsm_repeat, tick, escaped>>
       /\ Resume("command")
  BY DEF SkipExtension
<1>13. QED
  <2> HIDE DEF skip, data, at
  <2>1. QED
    BY <1>1, <1>10, <1>11, <1>12, NextCommand DEF setup

LEMMA TakeLoopKeeps == ASSUME ZsmInv, TakeLoop PROVE ZsmInv'
<1>1. update = "command" /\ tune \in Tunes
  BY DEF TakeLoop, ZsmInv, TypeOK
<1>2. LoopPoint(tune) \in CommandOffsets(tune)
  BY <1>1, CommandsInFile DEF TakeLoop
<1>3. g_ram_bank' \in Pointers /\ Ram!Position(g_ram_bank') \in CommandOffsets(tune')
  BY <1>1, <1>2, ReadyAligned DEF TakeLoop, setup
<1>4. g_repeat_count' \in 0 .. 255
  BY ZsmAssumption DEF TakeLoop, ZsmInv, TypeOK
<1>5. repeat_arg >= ZSM_REPEAT_FOREVER /\ pc = "playing" => g_repeat_count' >= 1
  <2> SUFFICES ASSUME repeat_arg >= ZSM_REPEAT_FOREVER, pc = "playing"
               PROVE  g_repeat_count' >= 1
    OBVIOUS
  <2>1. g_zsm_repeat >= ZSM_REPEAT_FOREVER /\ g_repeat_count >= 1 /\ g_repeat_count \in 0 .. 255
    BY DEF ZsmInv, TypeOK, RepeatInv
  <2>2. CASE g_repeat_count = 1
    BY <2>1, <2>2, ZsmAssumption DEF TakeLoop
  <2>3. CASE g_repeat_count # 1
    BY <2>1, <2>3 DEF TakeLoop
  <2>4. QED
    BY <2>2, <2>3
<1>6. g_delay_ticks' \in 0 .. 127
  BY DEF TakeLoop, ZsmInv, TypeOK
<1>7. /\ UNCHANGED <<setup, pc, pairs, g_play_stream, g_zsm_repeat, tick, escaped>>
      /\ Resume("command")
  BY DEF TakeLoop
<1>8. QED
  BY <1>1, <1>3, <1>4, <1>5, <1>6, <1>7, NextCommand DEF setup

LEMMA EndStreamKeeps == ASSUME ZsmInv, EndStream PROVE ZsmInv'
<1>1. update = "command"
  BY DEF EndStream
<1>2. Operand \in Pointers
  BY <1>1, AtCommand, CommandLeadsOn
<1>3. TypeOK'
  <2>1. g_ram_bank' \in [bank : 0 .. NumBanks, at : 0 .. BankSize - 1]
    BY <1>2 DEF EndStream, Pointers
  <2>2. update' = "idle" /\ g_delay_ticks' \in 0 .. 127 /\ g_play_stream' \in BOOLEAN
    <3>1. g_play_stream' = FALSE /\ g_delay_ticks' = 0 /\ Resume("command")
      BY DEF EndStream
    <3>2. update' = "idle"
      BY ONLY <3>1 DEF Resume
    <3>3. g_delay_ticks' \in 0 .. 127
      BY ONLY <3>1
    <3>4. g_play_stream' \in BOOLEAN
      BY ONLY <3>1
    <3>5. QED
      BY <3>2, <3>3, <3>4
  <2>3. UNCHANGED <<setup, pc, pairs, g_repeat_count, g_zsm_repeat, tick, escaped>>
    BY DEF EndStream
  <2>4. QED
    BY <2>1, <2>2, <2>3 DEF setup, ZsmInv, TypeOK
<1>4. PointerInv'
  BY <1>1, AtCommand DEF EndStream, Resume, setup, PointerInv
<1>5. RepeatInv'
  BY DEF EndStream, setup, ZsmInv, RepeatInv
<1>6. QED
  BY <1>3, <1>4, <1>5 DEF ZsmInv

LEMMA WritePsgKeeps == ASSUME ZsmInv, WritePsg PROVE ZsmInv'
<1> DEFINE at == Ram!Position(g_ram_bank)
<1>1. update = "command" /\ Command < 64
  BY DEF WritePsg
<1>2. tune \in Tunes /\ g_ram_bank \in Pointers /\ at \in CommandOffsets(tune)
  BY <1>1, AtCommand
<1>3. /\ at \in Nat /\ Operand \in Pointers /\ Ram!Position(Operand) = at + 1
      /\ at + 2 \in CommandOffsets(tune)
  BY <1>1, <1>2, CommandLeadsOn
<1>4. at + 2 < Ram!Size
  BY <1>2, <1>3, CommandsInFile
<1>5. Ram!UpdatePos(Operand) \in Pointers /\ Ram!Position(Ram!UpdatePos(Operand)) = at + 2
  <2>1. at + 1 < Ram!Size
    BY <1>3, <1>4, SizeIsNat
  <2>2. Ram!UpdatePos(Operand) \in Pointers
          /\ Ram!Position(Ram!UpdatePos(Operand)) = (at + 1) + 1
    BY <1>3, <2>1, OneFurther
  <2>3. QED
    BY <1>3, <2>2
<1>6. g_ram_bank' \in Pointers /\ Ram!Position(g_ram_bank') \in CommandOffsets(tune')
  BY <1>3, <1>5 DEF WritePsg, setup
<1>7. /\ g_delay_ticks' \in 0 .. 127 /\ g_repeat_count' \in 0 .. 255
      /\ repeat_arg >= ZSM_REPEAT_FOREVER /\ pc = "playing" => g_repeat_count' >= 1
  BY DEF WritePsg, ZsmInv, TypeOK, RepeatInv
<1>8. /\ UNCHANGED <<setup, pc, pairs, g_play_stream, g_zsm_repeat, tick, escaped>>
      /\ Resume("command")
  BY DEF WritePsg
<1>9. QED
  BY <1>1, <1>6, <1>7, <1>8, NextCommand DEF setup

LEMMA WaitTicksKeeps == ASSUME ZsmInv, WaitTicks PROVE ZsmInv'
<1> DEFINE at == Ram!Position(g_ram_bank)
<1>1. update = "command" /\ Command > 128
  BY DEF WaitTicks
<1>2. tune \in Tunes /\ g_ram_bank \in Pointers /\ at \in CommandOffsets(tune)
  BY <1>1, AtCommand
<1>3. /\ Operand \in Pointers /\ Ram!Position(Operand) = at + 1
      /\ at + 1 \in CommandOffsets(tune)
      /\ Command \in 0 .. 255
  BY <1>1, <1>2, CommandLeadsOn
<1>4. g_ram_bank' \in Pointers /\ Ram!Position(g_ram_bank') \in CommandOffsets(tune')
  BY <1>3 DEF WaitTicks, setup
<1>5. g_delay_ticks' \in 0 .. 127
  BY <1>3 DEF WaitTicks
<1>6. /\ g_repeat_count' \in 0 .. 255
      /\ repeat_arg >= ZSM_REPEAT_FOREVER /\ pc = "playing" => g_repeat_count' >= 1
  BY DEF WaitTicks, ZsmInv, TypeOK, RepeatInv
<1>7. /\ UNCHANGED <<setup, pc, pairs, g_play_stream, g_zsm_repeat, tick, escaped>>
      /\ Resume("command")
  BY DEF WaitTicks
<1>8. QED
  BY <1>1, <1>4, <1>5, <1>6, <1>7, NextCommand DEF setup

LEMMA StartFmKeeps == ASSUME ZsmInv, StartFm PROVE ZsmInv'
<1> DEFINE at == Ram!Position(g_ram_bank)
<1>1. update = "command" /\ Command \in 65 .. 127
  BY DEF StartFm
<1>2. /\ tune \in Tunes /\ g_ram_bank \in Pointers /\ at \in CommandOffsets(tune)
      /\ g_play_stream /\ g_delay_ticks = 0 /\ pc \in {"stream_on", "repeat_set", "playing"}
  BY <1>1, AtCommand
<1>3. /\ Operand \in Pointers /\ Ram!Position(Operand) = at + 1
      /\ at + 1 + 2 * (Command % 64) \in CommandOffsets(tune)
  BY <1>1, <1>2, CommandLeadsOn
<1>4. pairs' \in 1 .. 63
  BY <1>1 DEF StartFm
<1>5. Ram!Position(g_ram_bank') + 2 * pairs' \in CommandOffsets(tune')
  BY <1>3 DEF StartFm, setup
<1>6. TypeOK'
  BY <1>3, <1>4 DEF StartFm, setup, ZsmInv, TypeOK, Pointers
<1>7. PointerInv'
  BY <1>2, <1>4, <1>5 DEF StartFm, setup, PointerInv
<1>8. RepeatInv'
  BY DEF StartFm, setup, ZsmInv, RepeatInv
<1>9. QED
  BY <1>6, <1>7, <1>8 DEF ZsmInv

LEMMA WriteFmPairKeeps == ASSUME ZsmInv, WriteFmPair PROVE ZsmInv'
<1> DEFINE at == Ram!Position(g_ram_bank)
<1>1. update = "pairs"
  BY DEF WriteFmPair
<1>2. /\ tune \in Tunes /\ g_ram_bank \in Pointers /\ pairs \in 1 .. 63
      /\ at + 2 * pairs \in CommandOffsets(tune)
      /\ g_play_stream /\ g_delay_ticks = 0 /\ pc \in {"stream_on", "repeat_set", "playing"}
  BY <1>1 DEF ZsmInv, TypeOK, PointerInv, Pointers
<1>3. at \in Nat
  BY <1>2, PointerInside
<1>4. at + 2 * pairs < Ram!Size
  BY <1>2, CommandsInFile
<1>5. at < Ram!Size /\ at + 1 < Ram!Size
  <2> HIDE DEF at
  <2>1. QED
    BY <1>2, <1>3, <1>4, SizeIsNat
<1>6. Operand \in Pointers /\ Ram!Position(Operand) = at + 1
  BY <1>2, <1>5, OneFurther DEF Operand
<1>7. Ram!UpdatePos(Operand) \in Pointers /\ Ram!Position(Ram!UpdatePos(Operand)) = (at + 1) + 1
  BY <1>5, <1>6, OneFurther
<1>8. g_ram_bank' \in Pointers /\ pairs' = pairs - 1
  BY <1>7 DEF WriteFmPair
<1>9. Ram!Position(g_ram_bank') + 2 * pairs' \in CommandOffsets(tune')
  <2>1. Ram!Position(g_ram_bank') = (at + 1) + 1
    BY <1>7 DEF WriteFmPair
  <2>2. Ram!Position(g_ram_bank') + 2 * pairs' = at + 2 * pairs
    <3> HIDE DEF at
    <3>1. QED
      BY <1>2, <1>3, <1>8, <2>1
  <2>3. QED
    BY <1>2, <2>2 DEF WriteFmPair, setup
<1>10. pairs' = 0 => Ram!Position(g_ram_bank') \in CommandOffsets(tune')
  <2>1. Ram!Position(g_ram_bank') = (at + 1) + 1
    BY <1>7 DEF WriteFmPair
  <2>2. pairs' = 0 => Ram!Position(g_ram_bank') + 2 * pairs' = Ram!Position(g_ram_bank')
    <3> HIDE DEF at
    <3>1. QED
      BY <1>3, <2>1
  <2>3. QED
    BY <1>9, <2>2
<1>11. /\ g_play_stream' = g_play_stream /\ g_delay_ticks' = 0 /\ pc' = pc
       /\ update' = IF pairs' = 0 THEN "command" ELSE "pairs"
  BY <1>2 DEF WriteFmPair, Resume
<1>12. TypeOK'
  BY <1>2, <1>8, <1>11 DEF WriteFmPair, setup, ZsmInv, TypeOK, Pointers
<1>13. PointerInv'
  BY <1>2, <1>8, <1>9, <1>10, <1>11 DEF PointerInv
<1>14. RepeatInv'
  BY DEF WriteFmPair, setup, ZsmInv, RepeatInv
<1>15. QED
  BY <1>12, <1>13, <1>14 DEF ZsmInv

-----------------------------------------------------------------------------
(***************************************************************************)
(* The theorems.                                                           *)
(***************************************************************************)
LEMMA NextKeeps == ZsmInv /\ [Next]_vars => ZsmInv'
<1> SUFFICES ASSUME ZsmInv, [Next]_vars PROVE ZsmInv'
  OBVIOUS
<1>1. CASE \E write_funcs \in SUBSET {"ym", "psg"} : Initialize(write_funcs)
  BY <1>1, InitializeKeeps
<1>2. CASE Start
  BY <1>2, StartKeeps
<1>3. CASE Stop \/ LeaveLoop
  BY <1>3, MainKeeps
<1>4. CASE Tick
  BY <1>4, TickKeeps
<1>5. CASE Execute
  BY <1>5, SkipExtensionKeeps, TakeLoopKeeps, EndStreamKeeps, WritePsgKeeps, StartFmKeeps,
     WriteFmPairKeeps, WaitTicksKeeps DEF Execute
<1>6. CASE UNCHANGED vars
  BY <1>6 DEF vars, setup, decoder, ZsmInv, TypeOK, PointerInv, RepeatInv
<1>7. QED
  BY <1>1, <1>2, <1>3, <1>4, <1>5, <1>6 DEF Next

\* The inductive invariant: between updates, too, the pointer of the stream is at
\* a command, and a count that zsm_update restores when it runs out is never zero.
THEOREM ZsmAlways == Spec => []ZsmInv
<1>1. QED
  BY InitZsm, NextKeeps, PTL DEF Spec

\* The statics of source/zsm.c keep their types: in particular the pointer stays
\* in the banks of the file, or at most one behind them, and the 8-bit counts do
\* not wrap.
THEOREM ZsmTyped == Spec => []TypeOK
<1>1. ZsmInv => TypeOK
  BY DEF ZsmInv
<1>2. QED
  BY <1>1, ZsmAlways, PTL

\* zsm_update takes a command for a command and nothing else, for every file that
\* is one, every bank size and either build: an operand, a pair, an extension's
\* data and the loop may all cross a bank.
THEOREM ZsmAligned == Spec => []StaysAligned
<1>1. ZsmInv => StaysAligned
  BY DEF ZsmInv, PointerInv, StaysAligned
<1>2. QED
  BY <1>1, ZsmAlways, PTL

\* With -r alone a tune that loops is never ended by the decoder, though the count
\* zsm_start sets has 8 bits and each loop takes one from it.
THEOREM ZsmLoopsForever == Spec => LoopsForever
<1>1. ZsmInv /\ [Next]_vars =>
        [ /\ repeat_arg >= ZSM_REPEAT_FOREVER /\ tune.loop # 0
          /\ pc = "playing" /\ g_play_stream
          => g_play_stream' \/ escaped' ]_vars
  <2> SUFFICES ASSUME ZsmInv, Next, repeat_arg >= ZSM_REPEAT_FOREVER, tune.loop # 0,
                      pc = "playing", g_play_stream
               PROVE  g_play_stream' \/ escaped'
    OBVIOUS
  <2>1. g_repeat_count \in 0 .. 255 /\ g_repeat_count >= 1 /\ tune \in Tunes
    BY DEF ZsmInv, TypeOK, RepeatInv
  <2>2. g_repeat_count # 0 /\ LoopPoint(tune) # 0
    BY <2>1, CommandsInFile
  <2>3. ~EndStream
    BY <2>2 DEF EndStream
  <2>4. CASE Stop
    BY <2>4 DEF Stop
  <2>5. CASE Start
    BY <2>5 DEF Start, StartDelay, StartStream, StartRepeat, StartCount
  <2>6. CASE LeaveLoop \/ Tick
    BY <2>6 DEF LeaveLoop, Tick
  <2>7. CASE Execute
    BY <2>3, <2>7 DEF Execute, SkipExtension, TakeLoop, WritePsg, StartFm, WriteFmPair, WaitTicks
  <2>8. CASE \E write_funcs \in SUBSET {"ym", "psg"} : Initialize(write_funcs)
    BY <2>8 DEF Initialize
  <2>9. QED
    BY <2>4, <2>5, <2>6, <2>7, <2>8 DEF Next
<1>2. QED
  BY <1>1, ZsmAlways, PTL DEF Spec, LoopsForever

-----------------------------------------------------------------------------
(***************************************************************************)
(* How far the decoder is.                                                 *)
(***************************************************************************)

\* What is fixed while a tune is played.
LEMMA PlaceSetting ==
    ASSUME ZsmInv
    PROVE  /\ tune \in Tunes /\ IsTune(tune) /\ Len(tune.tokens) \in Nat
           /\ Loops \in Nat /\ MaxTicks \in Nat \ {0} /\ tick \in Nat /\ tick <= MaxTicks
           /\ repeat_arg < ZSM_REPEAT_FOREVER => Loops = repeat_arg
           /\ ~(repeat_arg < ZSM_REPEAT_FOREVER) =>
                  Loops = MaxTicks /\ repeat_arg >= ZSM_REPEAT_FOREVER
           /\ repeat_arg \in (0 .. 255) \cup {ZSM_REPEAT_FOREVER}
           /\ g_ram_bank \in Pointers /\ g_repeat_count \in 0 .. 255
           /\ g_delay_ticks \in 0 .. 127
<1>1. tune \in Tunes /\ repeat_arg \in RepeatArgs /\ tick \in 0 .. MaxTicks
        /\ g_repeat_count \in 0 .. 255 /\ g_delay_ticks \in 0 .. 127
  BY DEF ZsmInv, TypeOK
<1>2. g_ram_bank \in Pointers
  BY DEF ZsmInv, TypeOK, Pointers
<1>3. IsTune(tune) /\ Len(tune.tokens) \in Nat
  BY <1>1, FileLayout
<1>4. repeat_arg \in (0 .. 255) \cup {ZSM_REPEAT_FOREVER} /\ MaxTicks \in Nat \ {0}
  BY <1>1, ZsmAssumption
<1>5. /\ repeat_arg < ZSM_REPEAT_FOREVER => Loops = repeat_arg
      /\ ~(repeat_arg < ZSM_REPEAT_FOREVER) =>
             Loops = MaxTicks /\ repeat_arg >= ZSM_REPEAT_FOREVER
      /\ Loops \in Nat
  BY <1>4 DEF Loops, ZSM_REPEAT_FOREVER
<1>6. QED
  BY <1>1, <1>2, <1>3, <1>4, <1>5

\* Between two commands of one update.
Stands(round, k) ==
    /\ IsPlace(tune, Loops, round, k) /\ round \in Nat /\ k \in 0 .. Len(tune.tokens)
    /\ log = PlayedTo(tune, Loops, real_write_funcs, round, k)
    /\ Ram!Position(g_ram_bank) = Offset(tune, k)
    /\ DueTick(tune, round, k) = tick
    /\ RoundsCounted(round)

\* zsm_update in its loop is at such a place.
LEMMA CommandStands ==
    ASSUME ZsmInv, PlaceInv, update = "command"
    PROVE  /\ \E round, k : Stands(round, k)
           /\ g_play_stream /\ g_delay_ticks = 0
           /\ pc \in {"stream_on", "repeat_set", "playing"}
<1>1. /\ g_play_stream /\ g_delay_ticks = 0
      /\ pc \in {"stream_on", "repeat_set", "playing"}
  BY AtCommand
<1>2. PICK round \in 0 .. Loops : \E k \in 0 .. Len(tune.tokens) : At(round, k)
  BY DEF PlaceInv
<1>3. PICK k \in 0 .. Len(tune.tokens) : At(round, k)
  BY <1>2
<1>4. IsPlace(tune, Loops, round, k) /\ RoundsCounted(round) /\ BetweenTokens(round, k)
  BY <1>3 DEF At
<1>5. /\ log = PlayedTo(tune, Loops, real_write_funcs, round, k)
      /\ Ram!Position(g_ram_bank) = Offset(tune, k)
      /\ DueTick(tune, round, k) = tick + g_delay_ticks
  BY <1>1, <1>4 DEF BetweenTokens
<1>6. tick + g_delay_ticks = tick
  <2>1. tick \in Nat
    BY PlaceSetting
  <2>2. QED
    BY <1>1, <2>1
<1>7. Stands(round, k)
  BY <1>4, <1>5, <1>6 DEF Stands
<1>8. QED
  BY <1>1, <1>7

\* A step to another place between two commands.
LEMMA PlaceMoves ==
    ASSUME ZsmInv, g_play_stream, pc \in {"stream_on", "repeat_set", "playing"},
           UNCHANGED <<setup, pc, g_play_stream, tick, escaped>>, Resume("command"),
           g_delay_ticks' \in Nat,
           NEW round, NEW k, IsPlace(tune, Loops, round, k),
           log' = PlayedTo(tune, Loops, real_write_funcs, round, k),
           Ram!Position(g_ram_bank') = Offset(tune, k),
           DueTick(tune, round, k) = tick + g_delay_ticks',
           pc # "playing" => round = 0 /\ g_repeat_count' = 0 /\ tick <= 1,
           pc = "playing" /\ repeat_arg < ZSM_REPEAT_FOREVER =>
               round + g_repeat_count' = repeat_arg
    PROVE  PlaceInv'
<1>1. /\ tune' = tune /\ repeat_arg' = repeat_arg /\ real_write_funcs' = real_write_funcs
      /\ pc' = pc /\ g_play_stream' /\ tick' = tick /\ Loops' = Loops
  BY DEF setup, Loops
<1>2. /\ round \in 0 .. Loops' /\ k \in 0 .. Len(tune'.tokens)
  <2>1. Loops \in Nat /\ IsTune(tune)
    BY PlaceSetting
  <2>2. round \in Nat /\ round <= Loops /\ k \in 0 .. Len(tune.tokens)
    BY <2>1, PlaceFields
  <2>3. QED
    BY <1>1, <2>1, <2>2
<1>3. /\ update' \in {"command", "idle"}
      /\ update' = "idle" => g_delay_ticks' >= 1
  BY <1>1 DEF Resume
<1>4. BetweenTokens(round, k)'
  BY <1>1 DEF BetweenTokens
<1>5. RoundsCounted(round)' /\ Ended(round, k)'
  BY <1>1 DEF RoundsCounted, Ended
<1>6. IsPlace(tune', Loops', round, k)
  BY <1>1
<1>7. At(round, k)'
  BY <1>3, <1>4, <1>5, <1>6 DEF At
<1>8. StartInv'
  BY <1>1, <1>3 DEF StartInv
<1>9. QED
  BY <1>2, <1>7, <1>8 DEF PlaceInv

\* Nothing is loaded into the decoder yet, and nothing is written.
LEMMA InitPlace == Init => PlaceInv
<1> SUFFICES ASSUME Init PROVE PlaceInv
  OBVIOUS
<1>1. ZsmInv
  BY InitZsm
<1>2. Loops \in Nat /\ IsTune(tune) /\ Len(tune.tokens) \in Nat
  BY <1>1, PlaceSetting
<1>3. /\ IsPlace(tune, Loops, 0, 0)
      /\ PlayedTo(tune, Loops, real_write_funcs, 0, 0) = <<>>
  BY <1>2, PlayedStarts
<1>4. BetweenTokens(0, 0)
  BY <1>3 DEF Init, BetweenTokens
<1>5. RoundsCounted(0) /\ Ended(0, 0) /\ StartInv
  BY DEF Init, RoundsCounted, Ended, StartInv
<1>6. At(0, 0)
  BY <1>3, <1>4, <1>5 DEF Init, At
<1>7. 0 \in 0 .. Loops /\ 0 \in 0 .. Len(tune.tokens)
  BY <1>2
<1>8. QED
  BY <1>5, <1>6, <1>7 DEF PlaceInv

\* zsm_initialize puts the pointer at the first token.
LEMMA InitializePlace ==
    ASSUME ZsmInv, PlaceInv, NEW write_funcs \in SUBSET {"ym", "psg"}, Initialize(write_funcs)
    PROVE  PlaceInv'
<1>1. /\ Loops \in Nat /\ IsTune(tune) /\ Len(tune.tokens) \in Nat /\ tune \in Tunes
  BY PlaceSetting
<1>2. /\ tune' = tune /\ Loops' = Loops /\ tick' = tick /\ log' = log /\ update' = update
      /\ pc = "boot" /\ pc' \in {"refused", "ready"} /\ g_repeat_count' = g_repeat_count
  BY DEF Initialize, Loops
<1>3. /\ tick = 0 /\ log = <<>> /\ ~g_play_stream
  BY <1>2 DEF PlaceInv, StartInv
<1>4. update = "idle" /\ ~g_play_stream'
  <2>1. update = "idle"
    BY <1>3 DEF ZsmInv, PointerInv, TypeOK
  <2>2. QED
    BY <1>3, <2>1 DEF Initialize
<1>5. g_repeat_count = 0
  BY <1>2 DEF PlaceInv, At, RoundsCounted
<1>6. /\ IsPlace(tune, Loops, 0, 0)
      /\ PlayedTo(tune, Loops, real_write_funcs', 0, 0) = <<>>
      /\ DueTick(tune, 0, 0) = 1
  BY <1>1, PlayedStarts
<1>7. pc' = "ready" => Ram!Position(g_ram_bank') = Offset(tune, 0)
  <2>1. HeaderSize = Offset(tune, 0) /\ HeaderSize \in CommandOffsets(tune)
    BY <1>1, CommandsInFile
  <2>2. HeaderSize \in Nat /\ HeaderSize < Ram!Size
    BY <1>1, <2>1, CommandsInFile
  <2>3. Ram!Position(Ram!SeekSet(HeaderSize)) = HeaderSize
    BY <2>2, SeekArrives
  <2>4. pc' = "ready" => g_ram_bank' = Ram!SeekSet(HeaderSize)
    BY DEF Initialize
  <2>5. QED
    BY <2>1, <2>3, <2>4
<1>8. BetweenTokens(0, 0)'
  BY <1>2, <1>3, <1>4, <1>6, <1>7 DEF BetweenTokens
<1>9. RoundsCounted(0)' /\ Ended(0, 0)' /\ StartInv'
  BY <1>2, <1>3, <1>4, <1>5 DEF RoundsCounted, Ended, StartInv
<1>10. At(0, 0)'
  BY <1>2, <1>4, <1>6, <1>8, <1>9 DEF At
<1>11. 0 \in 0 .. Loops' /\ 0 \in 0 .. Len(tune'.tokens)
  BY <1>1, <1>2
<1>12. QED
  BY <1>9, <1>10, <1>11 DEF PlaceInv

\* A step that writes nothing and leaves the pointer keeps the place.
LEMMA PlaceStays ==
    ASSUME ZsmInv, PlaceInv, UNCHANGED <<setup, log>>, StartInv',
           \A round \in Nat, k \in 0 .. Len(tune.tokens) :
               IsPlace(tune, Loops, round, k) /\ At(round, k) =>
                   /\ RoundsCounted(round)' /\ Ended(round, k)'
                   /\ IF update' = "pairs" THEN AmidPairs(round, k)' ELSE BetweenTokens(round, k)'
    PROVE  PlaceInv'
<1>1. PICK round \in 0 .. Loops : \E k \in 0 .. Len(tune.tokens) : At(round, k)
  BY DEF PlaceInv
<1>2. PICK k \in 0 .. Len(tune.tokens) : At(round, k)
  BY <1>1
<1>3. round \in Nat /\ IsPlace(tune, Loops, round, k)
  BY <1>2, PlaceSetting DEF At
<1>4. tune' = tune /\ Loops' = Loops
  BY DEF setup, Loops
<1>5. At(round, k)'
  BY <1>2, <1>3, <1>4 DEF At
<1>6. QED
  BY <1>4, <1>5 DEF PlaceInv

\* The four stores of zsm_start: the first sets the delay to the tick on which the
\* first token is due, the last the count to the rounds there are to come.
LEMMA StartPlace == ASSUME ZsmInv, PlaceInv, Start PROVE PlaceInv'
<1>1. update = "idle" /\ update' = update /\ UNCHANGED <<setup, log, tick, escaped, g_ram_bank>>
  BY DEF Start, StartDelay, StartStream, StartRepeat, StartCount, decoder
<1>2. ASSUME NEW round \in Nat, NEW k, At(round, k)
      PROVE  BetweenTokens(round, k) /\ RoundsCounted(round) /\ Ended(round, k)
  BY <1>1, <1>2 DEF At
<1>3. CASE StartDelay
  <2>1. StartInv'
    BY <1>1, <1>3 DEF StartDelay, PlaceInv, StartInv
  <2>2. ASSUME NEW round \in Nat, NEW k, At(round, k)
        PROVE  BetweenTokens(round, k)' /\ RoundsCounted(round)' /\ Ended(round, k)'
    <3>1. ~g_play_stream
      BY <1>3 DEF StartDelay, PlaceInv, StartInv
    <3>2. BetweenTokens(round, k)'
      BY <1>1, <1>2, <1>3, <2>2, <3>1 DEF StartDelay, BetweenTokens, setup, Loops
    <3>3. RoundsCounted(round)' /\ Ended(round, k)'
      BY <1>1, <1>2, <1>3, <2>2 DEF StartDelay, RoundsCounted, Ended, setup
    <3>4. QED
      BY <3>2, <3>3
  <2>3. QED
    BY <1>1, <2>1, <2>2, PlaceStays
<1>4. CASE StartStream
  <2>1. StartInv'
    BY <1>1, <1>4 DEF StartStream, PlaceInv, StartInv
  <2>2. ASSUME NEW round \in Nat, NEW k, At(round, k)
        PROVE  BetweenTokens(round, k)' /\ RoundsCounted(round)' /\ Ended(round, k)'
    <3>1. BetweenTokens(round, k)'
      BY <1>1, <1>2, <1>4, <2>2 DEF StartStream, BetweenTokens, setup, Loops
    <3>2. RoundsCounted(round)' /\ Ended(round, k)'
      BY <1>1, <1>2, <1>4, <2>2 DEF StartStream, RoundsCounted, Ended, setup
    <3>3. QED
      BY <3>1, <3>2
  <2>3. QED
    BY <1>1, <2>1, <2>2, PlaceStays
<1>5. CASE StartRepeat
  <2>1. StartInv'
    BY <1>1, <1>5 DEF StartRepeat, decoder, PlaceInv, StartInv
  <2>2. ASSUME NEW round \in Nat, NEW k, At(round, k)
        PROVE  BetweenTokens(round, k)' /\ RoundsCounted(round)' /\ Ended(round, k)'
    <3>1. BetweenTokens(round, k)'
      BY <1>1, <1>2, <1>5, <2>2 DEF StartRepeat, decoder, BetweenTokens, setup, Loops
    <3>2. RoundsCounted(round)' /\ Ended(round, k)'
      BY <1>1, <1>2, <1>5, <2>2 DEF StartRepeat, decoder, RoundsCounted, Ended, setup
    <3>3. QED
      BY <3>1, <3>2
  <2>3. QED
    BY <1>1, <2>1, <2>2, PlaceStays
<1>6. CASE StartCount
  <2>1. StartInv'
    BY <1>1, <1>6 DEF StartCount, PlaceInv, StartInv
  <2>2. repeat_arg < ZSM_REPEAT_FOREVER => g_repeat_count' = repeat_arg
    <3>1. repeat_arg \in (0 .. 255) \cup {32768}
      BY PlaceSetting DEF ZSM_REPEAT_FOREVER
    <3>2. repeat_arg < 32768 => repeat_arg % 256 = repeat_arg
      BY ONLY <3>1
    <3>3. g_repeat_count' = IF repeat_arg >= 32768 THEN ForeverCount ELSE repeat_arg % 256
      BY <1>6 DEF StartCount, ZSM_REPEAT_FOREVER
    <3>4. QED
      BY ONLY <3>1, <3>2, <3>3 DEF ZSM_REPEAT_FOREVER
  <2>3. ASSUME NEW round \in Nat, NEW k, At(round, k)
        PROVE  BetweenTokens(round, k)' /\ RoundsCounted(round)' /\ Ended(round, k)'
    <3>1. BetweenTokens(round, k)'
      BY <1>1, <1>2, <1>6, <2>3 DEF StartCount, BetweenTokens, setup, Loops
    <3>2. round = 0 /\ pc = "repeat_set"
      BY <1>2, <1>6, <2>3 DEF StartCount, RoundsCounted
    <3>3. RoundsCounted(round)'
      BY <1>1, <1>6, <2>2, <3>2, PlaceSetting DEF StartCount, RoundsCounted, setup
    <3>4. Ended(round, k)'
      BY <1>1, <1>2, <1>6, <2>3 DEF StartCount, Ended, setup
    <3>5. QED
      BY <3>1, <3>3, <3>4
  <2>4. QED
    BY <1>1, <2>1, <2>3, PlaceStays
<1>7. QED
  BY <1>3, <1>4, <1>5, <1>6 DEF Start

\* play_zsm's loop only stops the stream or sees that it has stopped.
LEMMA MainPlace == ASSUME ZsmInv, PlaceInv, Stop \/ LeaveLoop PROVE PlaceInv'
<1>1. update = "idle" /\ update' = update
        /\ UNCHANGED <<setup, log, tick, g_ram_bank, g_delay_ticks, g_repeat_count>>
  BY DEF Stop, LeaveLoop, decoder
<1>2. /\ pc = "playing" /\ ~g_play_stream'
      /\ escaped' \/ (pc' = "stopped" /\ escaped' = escaped /\ ~g_play_stream)
  BY DEF Stop, LeaveLoop, decoder
<1>3. pc' \in {"playing", "stopped"}
  BY DEF Stop, LeaveLoop
<1>4. StartInv'
  BY <1>1, <1>2, <1>3 DEF StartInv
<1>5. ASSUME NEW round \in Nat, NEW k, At(round, k)
      PROVE  BetweenTokens(round, k)' /\ RoundsCounted(round)' /\ Ended(round, k)'
  <2>1. BetweenTokens(round, k) /\ RoundsCounted(round) /\ Ended(round, k)
    BY <1>1, <1>5 DEF At
  <2>2. BetweenTokens(round, k)'
    BY <1>1, <1>2, <1>3, <2>1 DEF BetweenTokens, setup, Loops
  <2>3. RoundsCounted(round)'
    BY <1>1, <1>2, <1>3, <2>1 DEF RoundsCounted, setup
  <2>4. Ended(round, k)'
    BY <1>1, <1>2, <1>3, <2>1 DEF Ended, setup
  <2>5. QED
    BY <2>2, <2>3, <2>4
<1>6. QED
  BY <1>1, <1>4, <1>5, PlaceStays

\* What zsm_update takes from the delay it adds to the time.
LEMMA TickPlace == ASSUME ZsmInv, PlaceInv, Tick PROVE PlaceInv'
<1>1. /\ update = "idle" /\ g_play_stream /\ g_play_stream' /\ tick' = tick + 1 /\ pc' = pc
      /\ UNCHANGED <<setup, log, g_ram_bank, g_repeat_count, escaped>>
  BY DEF Tick
<1>2. g_delay_ticks \in 1 .. 127 /\ tick \in Nat
  BY <1>1, PlaceSetting DEF PlaceInv, StartInv
<1>3. g_delay_ticks' = g_delay_ticks - 1
  BY <1>2 DEF Tick
<1>4. update' = IF g_delay_ticks' = 0 THEN "command" ELSE "idle"
  BY <1>1 DEF Tick, Resume
<1>5. pc \in {"stream_on", "repeat_set", "playing"}
  BY <1>1 DEF ZsmInv, PointerInv
<1>6. pc # "playing" => tick' <= 1
  BY <1>2, <1>5 DEF Tick
<1>7. tick' + g_delay_ticks' = tick + g_delay_ticks
  BY <1>1, <1>2, <1>3
<1>8. StartInv'
  BY <1>1, <1>2, <1>3, <1>4, <1>5 DEF StartInv
<1>9. ASSUME NEW round \in Nat, NEW k, At(round, k)
      PROVE  BetweenTokens(round, k)' /\ RoundsCounted(round)' /\ Ended(round, k)'
  <2>1. BetweenTokens(round, k) /\ RoundsCounted(round)
    BY <1>1, <1>9 DEF At
  <2>2. BetweenTokens(round, k)'
    BY <1>1, <1>5, <1>7, <2>1 DEF BetweenTokens, setup, Loops
  <2>3. RoundsCounted(round)'
    BY <1>1, <1>5, <1>6, <2>1 DEF RoundsCounted, setup
  <2>4. Ended(round, k)'
    BY <1>1 DEF Ended
  <2>5. QED
    BY <2>2, <2>3, <2>4
<1>10. QED
  BY <1>1, <1>4, <1>8, <1>9, PlaceStays

-----------------------------------------------------------------------------
(***************************************************************************)
(* The commands of one update.                                             *)
(***************************************************************************)

\* What handling the token at a place has to achieve.
Passes(token, round, k) ==
    /\ Reads(token, k) /\ token.op \in {"psg", "fm", "delay", "ext"}
    /\ Offset(tune, k) \in Nat /\ Offset(tune, k + 1) < Ram!Size
    /\ IsPlace(tune, Loops, round, k + 1)
    /\ PlayedTo(tune, Loops, real_write_funcs, round, k + 1) =
           log \o WritesOf(token, tick, real_write_funcs)
    /\ DueTick(tune, round, k + 1) = tick + Ticks(token)

\* And each token does stand for that.
LEMMA TokenPasses ==
    ASSUME ZsmInv, NEW round, NEW k, Stands(round, k), k # Len(tune.tokens)
    PROVE  Passes(tune.tokens[k + 1], round, k) /\ log \in Seq(Writes)
<1> DEFINE token == tune.tokens[k + 1]
<1>1. /\ tune \in Tunes /\ IsTune(tune) /\ Loops \in Nat /\ g_ram_bank \in Pointers
  BY PlaceSetting
<1>2. /\ k \in 0 .. Len(tune.tokens) /\ IsPlace(tune, Loops, round, k)
      /\ Ram!Position(g_ram_bank) = Offset(tune, k) /\ DueTick(tune, round, k) = tick
      /\ log = PlayedTo(tune, Loops, real_write_funcs, round, k)
  BY DEF Stands
<1>3. Reads(token, k)
  BY <1>1, <1>2, AtToken
<1>4. token \in Tokens /\ k + 1 \in 0 .. Len(tune.tokens)
  BY <1>3 DEF Reads
<1>5. token.op \in {"psg", "fm", "delay", "ext"}
  BY <1>4, TokenFields
<1>6. Offset(tune, k) \in Nat /\ Offset(tune, k + 1) < Ram!Size
  BY <1>1, <1>2, <1>4, OffsetIs
<1>7. /\ IsPlace(tune, Loops, round, k + 1)
      /\ PlayedTo(tune, Loops, real_write_funcs, round, k + 1) =
             PlayedTo(tune, Loops, real_write_funcs, round, k) \o
                 WritesOf(tune.tokens[k + 1], DueTick(tune, round, k), real_write_funcs)
      /\ DueTick(tune, round, k + 1) = DueTick(tune, round, k) + Ticks(tune.tokens[k + 1])
  <2>1. k # Len(tune.tokens) /\ IsTune(tune) /\ Loops \in Nat
    BY <1>1
  <2>2. IsPlace(tune, Loops, round, k)
    BY <1>2
  <2>3. QED
    BY ONLY <2>1, <2>2, PlayedOneMore
<1>8. log \in Seq(Writes)
  <2>1. PlayedTo(tune, Loops, real_write_funcs, round, k) \in Seq(Writes)
    BY <1>1, <1>2, PlayedIsWrites
  <2>2. QED
    BY <1>2, <2>1
<1>9. QED
  BY <1>2, <1>3, <1>5, <1>6, <1>7, <1>8 DEF Passes

\* A command other than FM that does what its token asks leads to the next.
LEMMA PassedOn ==
    ASSUME ZsmInv, PlaceInv, update = "command", NEW round, NEW k, Stands(round, k),
           NEW token, Passes(token, round, k),
           UNCHANGED <<setup, pc, g_play_stream, g_repeat_count, tick, escaped>>,
           Resume("command"), g_delay_ticks' = Ticks(token), Ticks(token) \in Nat,
           log' = log \o WritesOf(token, tick, real_write_funcs),
           Ram!Position(g_ram_bank') = Offset(tune, k + 1)
    PROVE  PlaceInv'
<1>1. /\ g_play_stream /\ pc \in {"stream_on", "repeat_set", "playing"}
  BY CommandStands
<1>2. /\ IsPlace(tune, Loops, round, k + 1)
      /\ PlayedTo(tune, Loops, real_write_funcs, round, k + 1) = log'
      /\ DueTick(tune, round, k + 1) = tick + g_delay_ticks'
  BY DEF Passes
<1>3. /\ pc # "playing" => round = 0 /\ g_repeat_count' = 0 /\ tick <= 1
      /\ pc = "playing" /\ repeat_arg < ZSM_REPEAT_FOREVER =>
             round + g_repeat_count' = repeat_arg
  <2>1. RoundsCounted(round)
    BY DEF Stands
  <2>2. QED
    BY <1>1, <2>1 DEF RoundsCounted
<1>4. UNCHANGED <<setup, pc, g_play_stream, tick, escaped>> /\ g_delay_ticks' \in Nat
  OBVIOUS
<1>5. QED
  BY <1>1, <1>2, <1>3, <1>4, PlaceMoves

\* An extension takes no time and writes nothing.
LEMMA SkipExtensionPlace == ASSUME ZsmInv, PlaceInv, SkipExtension PROVE PlaceInv'
<1>1. update = "command" /\ Command = 64
  BY DEF SkipExtension
<1>2. PICK round, k : Stands(round, k)
  BY <1>1, CommandStands
<1>3. k # Len(tune.tokens)
  BY <1>1, <1>2, PlaceSetting, AtEnd DEF Stands
<1>4. PICK token : token = tune.tokens[k + 1]
  OBVIOUS
<1>5. Passes(token, round, k) /\ log \in Seq(Writes)
  BY <1>2, <1>3, <1>4, TokenPasses
<1>6. Reads(token, k) /\ token.op = "ext" /\ token \in Tokens
  BY <1>1, <1>5, CommandTells DEF Passes
<1>7. Len(token.payload) \in 0 .. 63
  BY <1>6, TokenFields
<1>8. Ram!Position(g_ram_bank') = Offset(tune, k + 1)
  <2> DEFINE n    == Len(token.payload)
             at   == Offset(tune, k)
             next == Offset(tune, k + 1)
             byte == ByteAt(Operand)
  <2>1. byte = 64 + n /\ next = at + 2 + n /\ Operand \in Pointers /\ Ram!Position(Operand) = at + 1
    BY <1>6 DEF Reads
  <2>2. at \in Nat /\ next < Ram!Size /\ n \in 0 .. 63
    BY <1>5, <1>7 DEF Passes
  <2>3. g_ram_bank' = Ram!SeekCurrent(Ram!UpdatePos(Operand), byte % 64)
    BY DEF SkipExtension
  <2> HIDE DEF n, at, next, byte
  <2>4. byte % 64 = n /\ n \in Nat
    BY <2>1, <2>2
  <2>5. at + 1 < Ram!Size /\ (at + 1) + 1 = at + 2 /\ at + 2 + n < Ram!Size
    BY <2>1, <2>2, SizeIsNat
  <2>6. Ram!UpdatePos(Operand) \in Pointers /\ Ram!Position(Ram!UpdatePos(Operand)) = at + 2
    BY <2>1, <2>5, OneFurther
  <2>7. Ram!Position(Ram!SeekCurrent(Ram!UpdatePos(Operand), n)) = at + 2 + n
    BY <2>4, <2>5, <2>6, SkipArrives
  <2>8. QED
    BY <2>1, <2>3, <2>4, <2>7 DEF next
<1>9. log' = log \o WritesOf(token, tick, real_write_funcs)
  <2>1. WritesOf(token, tick, real_write_funcs) = <<>>
    BY <1>6, WritesOfOthers
  <2>2. log \o <<>> = log
    BY <1>5, ConcatEmptySeq
  <2>3. QED
    BY <2>1, <2>2 DEF SkipExtension
<1>10. g_delay_ticks' = Ticks(token) /\ Ticks(token) \in Nat
  BY <1>1, <1>6, CommandStands DEF SkipExtension, Ticks
<1>11. QED
  BY <1>1, <1>2, <1>5, <1>8, <1>9, <1>10, PassedOn DEF SkipExtension

\* A PSG command is its token's only write.
LEMMA WritePsgPlace == ASSUME ZsmInv, PlaceInv, WritePsg PROVE PlaceInv'
<1>1. update = "command" /\ Command < 64
  BY DEF WritePsg
<1>2. PICK round, k : Stands(round, k)
  BY <1>1, CommandStands
<1>3. k # Len(tune.tokens)
  BY <1>1, <1>2, PlaceSetting, AtEnd DEF Stands
<1>4. PICK token : token = tune.tokens[k + 1]
  OBVIOUS
<1>5. Passes(token, round, k) /\ log \in Seq(Writes)
  BY <1>2, <1>3, <1>4, TokenPasses
<1>6. Reads(token, k) /\ token.op = "psg" /\ token \in Tokens
  BY <1>1, <1>5, CommandTells DEF Passes
<1>7. Ram!Position(g_ram_bank') = Offset(tune, k + 1)
  <2> DEFINE at   == Offset(tune, k)
             next == Offset(tune, k + 1)
  <2>1. next = at + 2 /\ Operand \in Pointers /\ Ram!Position(Operand) = at + 1
    BY <1>6 DEF Reads
  <2>2. at \in Nat /\ next < Ram!Size
    BY <1>5 DEF Passes
  <2>3. g_ram_bank' = Ram!UpdatePos(Operand)
    BY DEF WritePsg
  <2> HIDE DEF at, next
  <2>4. at + 1 < Ram!Size /\ (at + 1) + 1 = at + 2
    BY <2>1, <2>2, SizeIsNat
  <2>5. Ram!Position(Ram!UpdatePos(Operand)) = at + 2
    BY <2>1, <2>4, OneFurther
  <2>6. QED
    BY <2>1, <2>3, <2>5 DEF next
<1>8. log' = log \o WritesOf(token, tick, real_write_funcs)
  <2> DEFINE rec == [tick |-> tick, chip |-> "psg", address |-> token.address, data |-> token.data]
  <2>1. Command = token.address /\ ByteAt(Operand) = token.data
    BY <1>6 DEF Reads
  <2>2. log' = IF "psg" \in real_write_funcs THEN Append(log, rec) ELSE log
    BY <2>1 DEF WritePsg, Record
  <2>3. tick \in Nat
    BY PlaceSetting
  <2>4. WritesOf(token, tick, real_write_funcs) =
            IF "psg" \in real_write_funcs THEN <<rec>> ELSE <<>>
    BY <1>6, <2>3, WritesOfPsg
  <2> HIDE DEF rec
  <2>5. Append(log, rec) = log \o <<rec>> /\ log \o <<>> = log
    BY <1>5, ConcatEmptySeq
  <2>6. QED
    BY <2>2, <2>4, <2>5
<1>9. g_delay_ticks' = Ticks(token) /\ Ticks(token) \in Nat
  BY <1>1, <1>6, CommandStands DEF WritePsg, Ticks
<1>10. QED
  BY <1>1, <1>2, <1>5, <1>7, <1>8, <1>9, PassedOn DEF WritePsg

\* A delay puts the next token off by as many ticks.
LEMMA WaitTicksPlace == ASSUME ZsmInv, PlaceInv, WaitTicks PROVE PlaceInv'
<1>1. update = "command" /\ Command > 128
  BY DEF WaitTicks
<1>2. PICK round, k : Stands(round, k)
  BY <1>1, CommandStands
<1>3. k # Len(tune.tokens)
  BY <1>1, <1>2, PlaceSetting, AtEnd DEF Stands
<1>4. PICK token : token = tune.tokens[k + 1]
  OBVIOUS
<1>5. Passes(token, round, k) /\ log \in Seq(Writes)
  BY <1>2, <1>3, <1>4, TokenPasses
<1>6. Reads(token, k) /\ token.op = "delay" /\ token \in Tokens
  BY <1>1, <1>5, CommandTells DEF Passes
<1>7. Ram!Position(g_ram_bank') = Offset(tune, k + 1)
  BY <1>6 DEF Reads, WaitTicks
<1>8. log' = log \o WritesOf(token, tick, real_write_funcs)
  <2>1. WritesOf(token, tick, real_write_funcs) = <<>>
    BY <1>6, WritesOfOthers
  <2>2. log \o <<>> = log
    BY <1>5, ConcatEmptySeq
  <2>3. QED
    BY <2>1, <2>2 DEF WaitTicks
<1>9. g_delay_ticks' = Ticks(token) /\ Ticks(token) \in Nat
  <2>1. token.ticks \in 1 .. 127
    BY <1>6, TokenFields
  <2>2. Command = 128 + token.ticks
    BY <1>6 DEF Reads
  <2> DEFINE n == token.ticks
             c == Command
  <2>3. n \in 1 .. 127 /\ c = 128 + n
    BY <2>1, <2>2
  <2> HIDE DEF n, c
  <2>4. c % 128 = n
    BY ONLY <2>3
  <2>5. g_delay_ticks' = n
    BY <2>4 DEF WaitTicks, c
  <2>6. QED
    BY <1>6, <2>1, <2>5 DEF Ticks, n
<1>10. QED
  BY <1>1, <1>2, <1>5, <1>7, <1>8, <1>9, PassedOn DEF WaitTicks

\* An FM command stands before its first pair.
LEMMA StartFmPlace == ASSUME ZsmInv, PlaceInv, StartFm PROVE PlaceInv'
<1>1. update = "command" /\ Command \in 65 .. 127
  BY DEF StartFm
<1>2. PICK round, k : Stands(round, k)
  BY <1>1, CommandStands
<1>3. k # Len(tune.tokens)
  BY <1>1, <1>2, PlaceSetting, AtEnd DEF Stands
<1>4. PICK token : token = tune.tokens[k + 1]
  OBVIOUS
<1>5. Passes(token, round, k) /\ log \in Seq(Writes)
  BY <1>2, <1>3, <1>4, TokenPasses
<1>6. Reads(token, k) /\ token.op = "fm" /\ token \in Tokens
  BY <1>1, <1>5, CommandTells DEF Passes
<1>7. /\ g_play_stream /\ pc \in {"stream_on", "repeat_set", "playing"}
  BY <1>1, CommandStands
<1>8. /\ tune' = tune /\ repeat_arg' = repeat_arg /\ real_write_funcs' = real_write_funcs
      /\ pc' = pc /\ g_play_stream' = g_play_stream /\ tick' = tick /\ log' = log
      /\ g_repeat_count' = g_repeat_count /\ Loops' = Loops /\ update' = "pairs"
  BY DEF StartFm, setup, Loops
<1> DEFINE n == Len(token.pairs)
           w == WritesOf(token, tick, real_write_funcs)
           p == PlayedTo(tune, Loops, real_write_funcs, round, k)
<1>9. n \in 1 .. 63
  BY <1>6, TokenFields
<1>10. pairs' = n
  <2> DEFINE c == Command
  <2>1. c = 64 + n /\ pairs' = c % 64
    BY <1>6 DEF Reads, StartFm
  <2> HIDE DEF c, n
  <2>2. c % 64 = n
    BY ONLY <1>9, <2>1
  <2>3. QED
    BY <2>1, <2>2
<1>11. Ram!Position(g_ram_bank') = Offset(tune, k) + 1 + 2 * (n - pairs') /\ n - pairs' = 0
  <2> DEFINE at == Offset(tune, k)
  <2>1. at \in Nat /\ Ram!Position(g_ram_bank') = at + 1
    BY <1>5, <1>6 DEF Reads, Passes, StartFm
  <2> HIDE DEF at, n
  <2>2. at + 1 + 2 * (n - pairs') = at + 1 /\ n - pairs' = 0
    BY <1>9, <1>10, <2>1
  <2>3. QED
    BY <2>1, <2>2 DEF at
<1>12. log = p \o (IF "ym" \in real_write_funcs THEN SubSeq(w, 1, 0) ELSE <<>>)
  <2>1. SubSeq(w, 1, 0) = <<>>
    <3>1. w \in Seq(Writes)
      BY <1>6, PlaceSetting, WritesOfToken
    <3> HIDE DEF w
    <3>2. QED
      BY <3>1
  <2>2. log \o <<>> = log
    BY <1>5, ConcatEmptySeq
  <2>3. log = p
    BY <1>2 DEF Stands
  <2> HIDE DEF p, w
  <2>4. QED
    BY <2>1, <2>2, <2>3
<1>13. AmidPairs(round, k)'
  <2>1. k < Len(tune.tokens) /\ DueTick(tune, round, k) = tick
    BY <1>2, <1>3, PlaceSetting DEF Stands
  <2>2. pairs' \in 1 .. n
    <3> HIDE DEF n
    <3>1. QED
      BY ONLY <1>9, <1>10
  <2>3. log' = p \o (IF "ym" \in real_write_funcs THEN SubSeq(w, 1, n - pairs') ELSE <<>>)
    BY <1>8, <1>11, <1>12
  <2>4. QED
    BY <1>4, <1>6, <1>8, <1>11, <2>1, <2>2, <2>3 DEF AmidPairs
<1>14. RoundsCounted(round)' /\ Ended(round, k)'
  BY <1>2, <1>7, <1>8 DEF Stands, RoundsCounted, Ended
<1>15. IsPlace(tune, Loops, round, k) /\ round \in 0 .. Loops /\ k \in 0 .. Len(tune.tokens)
  BY <1>2, PlaceSetting, PlaceFields DEF Stands
<1>16. At(round, k)' /\ StartInv'
  BY <1>7, <1>8, <1>13, <1>14, <1>15 DEF At, StartInv
<1>17. QED
  BY <1>8, <1>15, <1>16 DEF PlaceInv

\* Before the d-th register/value pair of a token.
PairStands(token, round, k, d) ==
    /\ IsPlace(tune, Loops, round, k) /\ round \in 0 .. Loops
    /\ k \in 0 .. Len(tune.tokens) /\ k < Len(tune.tokens)
    /\ token = tune.tokens[k + 1] /\ token \in Tokens /\ token.op = "fm"
    /\ d \in 1 .. Len(token.pairs) /\ pairs = Len(token.pairs) - d + 1
    /\ DueTick(tune, round, k) = tick /\ RoundsCounted(round)
    /\ log = PlayedTo(tune, Loops, real_write_funcs, round, k) \o
             (IF "ym" \in real_write_funcs
              THEN SubSeq(WritesOf(token, tick, real_write_funcs), 1, d - 1)
              ELSE <<>>)
    /\ ByteAt(g_ram_bank) = token.pairs[d][1] /\ ByteAt(Operand) = token.pairs[d][2]
    /\ Offset(tune, k) \in Nat
    /\ Ram!Position(Ram!UpdatePos(Operand)) = Offset(tune, k) + 1 + 2 * d

\* zsm_update among the pairs is before one of them.
LEMMA PairsStand ==
    ASSUME ZsmInv, PlaceInv, update = "pairs"
    PROVE  /\ \E token, round, k, d : PairStands(token, round, k, d)
           /\ g_play_stream /\ g_delay_ticks = 0
           /\ pc \in {"stream_on", "repeat_set", "playing"}
<1>1. PICK round \in 0 .. Loops : \E k \in 0 .. Len(tune.tokens) : At(round, k)
  BY DEF PlaceInv
<1>2. PICK k \in 0 .. Len(tune.tokens) : At(round, k)
  BY <1>1
<1>3. IsPlace(tune, Loops, round, k) /\ RoundsCounted(round) /\ AmidPairs(round, k)
  BY <1>2 DEF At
<1>4. PICK token : token = tune.tokens[k + 1]
  OBVIOUS
<1> DEFINE n == Len(token.pairs)
           d == n - pairs + 1
           at == Offset(tune, k)
<1>5. /\ k < Len(tune.tokens) /\ token.op = "fm" /\ pairs \in 1 .. n
      /\ Ram!Position(g_ram_bank) = at + 1 + 2 * (n - pairs)
      /\ DueTick(tune, round, k) = tick
      /\ log = PlayedTo(tune, Loops, real_write_funcs, round, k) \o
               (IF "ym" \in real_write_funcs
                THEN SubSeq(WritesOf(token, tick, real_write_funcs), 1, n - pairs)
                ELSE <<>>)
  BY <1>3, <1>4 DEF AmidPairs
<1>6. tune \in Tunes /\ g_ram_bank \in Pointers /\ Len(tune.tokens) \in Nat
  BY PlaceSetting
<1>7. k # Len(tune.tokens)
  BY <1>5, <1>6
<1>8. token \in Tokens
  BY <1>4, <1>6, <1>7, TokenInFile
<1>9. n \in 1 .. 63
  BY <1>5, <1>8, TokenFields
<1>10. d \in 1 .. n /\ pairs = n - d + 1 /\ d - 1 = n - pairs
  <2> HIDE DEF n
  <2>1. QED
    BY <1>5, <1>9
<1>11. /\ Byte(tune, at + 2 * d - 1) = token.pairs[d][1]
       /\ Byte(tune, at + 2 * d) = token.pairs[d][2]
       /\ at \in Nat /\ at + 2 * d < Ram!Size
  <2> HIDE DEF d
  <2>1. QED
    BY <1>4, <1>5, <1>6, <1>7, <1>10, PairInFile
<1>12. Ram!Position(g_ram_bank) = at + 2 * d - 1
  <2> HIDE DEF n, at
  <2>1. at + 1 + 2 * (n - pairs) = at + 2 * d - 1
    BY <1>5, <1>9, <1>11
  <2>2. QED
    BY <1>5, <2>1
<1>13. d \in Nat /\ d >= 1
  BY <1>9, <1>10
<1> HIDE DEF d, at, n
<1>14. at + 2 * d - 1 < Ram!Size /\ (at + 2 * d - 1) + 1 = at + 2 * d
       /\ (at + 2 * d) + 1 = at + 1 + 2 * d
  BY <1>11, <1>13, SizeIsNat
<1>15. Operand \in Pointers /\ Ram!Position(Operand) = at + 2 * d
  BY <1>6, <1>12, <1>14, OneFurther DEF Operand
<1>16. Ram!Position(Ram!UpdatePos(Operand)) = at + 1 + 2 * d
  BY <1>11, <1>14, <1>15, OneFurther
<1>17. ByteAt(g_ram_bank) = token.pairs[d][1] /\ ByteAt(Operand) = token.pairs[d][2]
  BY <1>11, <1>12, <1>15 DEF ByteAt
<1>18. PairStands(token, round, k, d)
  BY <1>3, <1>4, <1>5, <1>8, <1>10, <1>11, <1>16, <1>17 DEF PairStands, at, n
<1>19. /\ g_play_stream /\ g_delay_ticks = 0 /\ pc \in {"stream_on", "repeat_set", "playing"}
  BY DEF ZsmInv, PointerInv
<1>20. QED
  BY <1>18, <1>19

\* The write of a pair.
LEMMA PairWritten ==
    ASSUME ZsmInv, WriteFmPair, NEW token, NEW round, NEW k, NEW d,
           PairStands(token, round, k, d)
    PROVE  LET w == WritesOf(token, tick, real_write_funcs)
               p == PlayedTo(tune, Loops, real_write_funcs, round, k)
           IN  /\ p \in Seq(Writes) /\ w \in Seq(Writes) /\ log \in Seq(Writes)
               /\ log' = p \o (IF "ym" \in real_write_funcs THEN SubSeq(w, 1, d) ELSE <<>>)
               /\ "ym" \in real_write_funcs =>
                      /\ log' = Append(log, w[d]) /\ Len(w) = Len(token.pairs)
                      /\ w[d] \in Writes /\ w[d].tick = tick
               /\ "ym" \notin real_write_funcs => log' = log /\ w = <<>> /\ p \o w = log
<1> DEFINE w == WritesOf(token, tick, real_write_funcs)
           p == PlayedTo(tune, Loops, real_write_funcs, round, k)
           n == Len(token.pairs)
<1>1. token \in Tokens /\ token.op = "fm" /\ d \in 1 .. n
  BY DEF PairStands
<1>2. n \in 1 .. 63
  BY <1>1, TokenFields
<1>3. tick \in Nat /\ IsTune(tune) /\ Loops \in Nat
  BY PlaceSetting
<1>4. p \in Seq(Writes)
  <2>1. IsPlace(tune, Loops, round, k)
    BY DEF PairStands
  <2>2. QED
    BY <1>3, <2>1, PlayedIsWrites
<1>5. w \in Seq(Writes) /\ \A i \in 1 .. Len(w) : w[i].tick = tick
  BY <1>1, <1>3, WritesOfToken
<1>6. log = p \o (IF "ym" \in real_write_funcs THEN SubSeq(w, 1, d - 1) ELSE <<>>)
  BY DEF PairStands
<1>7. log' = IF "ym" \in real_write_funcs
             THEN Append(log, [tick |-> tick, chip |-> "ym",
                               address |-> token.pairs[d][1], data |-> token.pairs[d][2]])
             ELSE log
  BY DEF WriteFmPair, Record, PairStands
<1>8. "ym" \in real_write_funcs =>
          /\ Len(w) = n
          /\ w[d] = [tick |-> tick, chip |-> "ym",
                     address |-> token.pairs[d][1], data |-> token.pairs[d][2]]
  BY <1>1, <1>3, WritesOfFm
<1>9. "ym" \notin real_write_funcs => w = <<>>
  BY <1>1, <1>3, WritesOfFm
<1> HIDE DEF w, p
<1>10. p \o <<>> = p
  BY <1>4, ConcatEmptySeq
<1>11. CASE "ym" \in real_write_funcs
  <2> DEFINE e == d - 1
  <2>1. e \in Nat /\ e < Len(w) /\ e + 1 = d /\ d \in 1 .. Len(w)
    <3> HIDE DEF n
    <3>1. QED
      BY <1>1, <1>2, <1>8, <1>11
  <2>2. log = p \o SubSeq(w, 1, e) /\ log' = Append(log, w[d])
    BY <1>6, <1>7, <1>8, <1>11
  <2> HIDE DEF e
  <2>3. /\ Append(p \o SubSeq(w, 1, e), w[e + 1]) = p \o SubSeq(w, 1, e + 1)
        /\ w[e + 1] \in Writes /\ SubSeq(w, 1, e) \in Seq(Writes)
    <3>1. p \in Seq(Writes) /\ w \in Seq(Writes) /\ e \in Nat /\ e < Len(w)
      BY <1>4, <1>5, <2>1
    <3>2. /\ Append(p \o SubSeq(w, 1, e), w[e + 1]) = p \o SubSeq(w, 1, e + 1)
          /\ SubSeq(w, 1, Len(w)) = w /\ SubSeq(w, 1, 0) = <<>>
          /\ w[e + 1] \in Writes /\ SubSeq(w, 1, e) \in Seq(Writes)
      BY ONLY <3>1, OneWriteMore, Zenon
    <3>3. QED
      BY ONLY <3>2
  <2>4. log \in Seq(Writes)
    BY <1>4, <2>2, <2>3, ConcatProperties
  <2>5. w[d].tick = tick
    BY <1>5, <2>1
  <2>6. log' = p \o SubSeq(w, 1, d) /\ w[d] \in Writes
    BY <2>1, <2>2, <2>3
  <2>7. QED
    BY <1>4, <1>5, <1>8, <1>11, <2>2, <2>4, <2>5, <2>6 DEF w, p
<1>12. CASE "ym" \notin real_write_funcs
  BY <1>4, <1>5, <1>6, <1>7, <1>9, <1>10, <1>12 DEF w, p
<1>13. QED
  BY <1>11, <1>12

\* After the last pair of an FM command its token is done.
LEMMA WriteFmPairPlace == ASSUME ZsmInv, PlaceInv, WriteFmPair PROVE PlaceInv'
<1>1. update = "pairs"
  BY DEF WriteFmPair
<1>2. PICK token, round, k, d : PairStands(token, round, k, d)
  BY <1>1, PairsStand
<1>3. /\ g_play_stream /\ g_delay_ticks = 0 /\ pc \in {"stream_on", "repeat_set", "playing"}
  BY <1>1, PairsStand
<1> DEFINE w == WritesOf(token, tick, real_write_funcs)
           p == PlayedTo(tune, Loops, real_write_funcs, round, k)
           n == Len(token.pairs)
           at == Offset(tune, k)
<1>4. /\ p \in Seq(Writes) /\ w \in Seq(Writes) /\ log \in Seq(Writes)
      /\ log' = p \o (IF "ym" \in real_write_funcs THEN SubSeq(w, 1, d) ELSE <<>>)
      /\ "ym" \in real_write_funcs => Len(w) = n
      /\ "ym" \notin real_write_funcs => log' = log /\ w = <<>> /\ p \o w = log
  BY <1>2, PairWritten
<1>5. /\ token = tune.tokens[k + 1] /\ token \in Tokens /\ token.op = "fm"
      /\ k < Len(tune.tokens) /\ k \in 0 .. Len(tune.tokens) /\ round \in 0 .. Loops
      /\ IsPlace(tune, Loops, round, k) /\ d \in 1 .. n /\ pairs = n - d + 1
      /\ at \in Nat /\ DueTick(tune, round, k) = tick /\ RoundsCounted(round)
      /\ Ram!Position(g_ram_bank') = at + 1 + 2 * d
  BY <1>2 DEF PairStands, WriteFmPair
<1>6. n \in 1 .. 63
  BY <1>5, TokenFields
<1>7. pairs' = n - d /\ pairs' \in 0 .. n - 1 /\ d = n - pairs'
  <2>1. pairs' = pairs - 1
    BY DEF WriteFmPair
  <2> HIDE DEF n
  <2>2. QED
    BY <1>5, <1>6, <2>1
<1>8. /\ tune' = tune /\ repeat_arg' = repeat_arg /\ real_write_funcs' = real_write_funcs
      /\ pc' = pc /\ g_play_stream' = g_play_stream /\ tick' = tick
      /\ g_repeat_count' = g_repeat_count /\ Loops' = Loops
      /\ g_delay_ticks' = 0
      /\ update' = IF pairs' = 0 THEN "command" ELSE "pairs"
      /\ UNCHANGED <<setup, pc, g_play_stream, tick, escaped>>
  BY <1>3 DEF WriteFmPair, setup, Loops, Resume
<1>9. CASE pairs' # 0
  <2>1. AmidPairs(round, k)'
    <3>1. pairs' \in 1 .. n
      <4> HIDE DEF n
      <4>1. QED
        BY <1>6, <1>7, <1>9
    <3>2. /\ Ram!Position(g_ram_bank') = Offset(tune, k) + 1 + 2 * (n - pairs')
          /\ log' = p \o (IF "ym" \in real_write_funcs THEN SubSeq(w, 1, n - pairs') ELSE <<>>)
      BY <1>4, <1>5, <1>7
    <3>3. QED
      BY <1>5, <1>8, <3>1, <3>2 DEF AmidPairs
  <2>2. RoundsCounted(round)' /\ Ended(round, k)'
    BY <1>3, <1>5, <1>8 DEF RoundsCounted, Ended
  <2>3. At(round, k)' /\ StartInv'
    BY <1>3, <1>5, <1>8, <1>9, <2>1, <2>2 DEF At, StartInv
  <2>4. QED
    BY <1>5, <1>8, <2>3 DEF PlaceInv
<1>10. CASE pairs' = 0
  <2>1. /\ tune \in Tunes /\ IsTune(tune) /\ Loops \in Nat /\ tick \in Nat
        /\ Len(tune.tokens) \in Nat
    BY PlaceSetting
  <2>2. k # Len(tune.tokens)
    BY <1>5, <2>1
  <2>3. /\ IsPlace(tune, Loops, round, k + 1)
        /\ PlayedTo(tune, Loops, real_write_funcs, round, k + 1) =
               PlayedTo(tune, Loops, real_write_funcs, round, k) \o
                   WritesOf(tune.tokens[k + 1], DueTick(tune, round, k), real_write_funcs)
        /\ DueTick(tune, round, k + 1) = DueTick(tune, round, k) + Ticks(tune.tokens[k + 1])
    <3>1. IsTune(tune) /\ Loops \in Nat /\ IsPlace(tune, Loops, round, k)
      BY <1>5, <2>1
    <3>2. QED
      BY ONLY <2>2, <3>1, PlayedOneMore
  <2>4. log' = PlayedTo(tune, Loops, real_write_funcs, round, k + 1)
    <3>1. d = n
      <4> HIDE DEF n
      <4>1. QED
        BY <1>5, <1>6, <1>7, <1>10
    <3>2. PlayedTo(tune, Loops, real_write_funcs, round, k + 1) = p \o w
      BY <1>5, <2>3
    <3>3. "ym" \in real_write_funcs => SubSeq(w, 1, d) = w
      <4> HIDE DEF w, n
      <4>1. "ym" \in real_write_funcs => d = Len(w)
        BY <1>4, <3>1
      <4>2. SubSeq(w, 1, Len(w)) = w
        BY <1>4
      <4>3. QED
        BY <4>1, <4>2
    <3> HIDE DEF w, p, n
    <3>4. QED
      BY <1>4, <3>2, <3>3
  <2>5. DueTick(tune, round, k + 1) = tick + g_delay_ticks'
    BY <1>5, <1>8, <2>1, <2>3 DEF Ticks
  <2>6. Ram!Position(g_ram_bank') = Offset(tune, k + 1)
    <3>1. Offset(tune, k + 1) = at + Len(Bytes(token))
      BY <1>5, <2>1, <2>2, TokenInFile
    <3>2. Len(Bytes(token)) = 1 + 2 * n
      BY <1>5, FmBytes
    <3> HIDE DEF at, n
    <3>3. at + 1 + 2 * d = at + (1 + 2 * n)
      BY <1>5, <1>6, <1>7, <1>10
    <3>4. QED
      BY <1>5, <3>1, <3>2, <3>3
  <2>7. /\ pc # "playing" => round = 0 /\ g_repeat_count' = 0 /\ tick <= 1
        /\ pc = "playing" /\ repeat_arg < ZSM_REPEAT_FOREVER =>
               round + g_repeat_count' = repeat_arg
    BY <1>3, <1>5, <1>8 DEF RoundsCounted
  <2>8. Resume("command")
    BY <1>10 DEF WriteFmPair
  <2>9. g_delay_ticks' \in Nat
    BY <1>8
  <2>10. QED
    BY <1>3, <1>8, <2>3, <2>4, <2>5, <2>6, <2>7, <2>8, <2>9, PlaceMoves
<1>11. QED
  BY <1>9, <1>10

\* The loop is taken as often as the count says; forever, the bound on the ticks
\* comes first, for every round takes one.
LEMMA TakeLoopPlace ==
    ASSUME ZsmInv, PlaceInv, Waits(tune), TakeLoop PROVE PlaceInv'
<1>1. update = "command" /\ Command = 128 /\ g_repeat_count > 0 /\ LoopPoint(tune) # 0
  BY DEF TakeLoop
<1>2. PICK round, k : Stands(round, k)
  BY <1>1, CommandStands
<1>3. k = Len(tune.tokens)
  <2> SUFFICES ASSUME k # Len(tune.tokens) PROVE FALSE
    OBVIOUS
  <2>1. Passes(tune.tokens[k + 1], round, k)
    BY <1>2, TokenPasses
  <2>2. PICK token : token = tune.tokens[k + 1]
    OBVIOUS
  <2>3. Reads(token, k) /\ token.op \in {"psg", "fm", "delay", "ext"}
    BY <2>1, <2>2 DEF Passes
  <2>4. QED
    BY <1>1, <2>3, CommandTells
<1>4. /\ g_play_stream /\ g_delay_ticks = 0 /\ pc \in {"stream_on", "repeat_set", "playing"}
  BY <1>1, CommandStands
<1>5. /\ tune \in Tunes /\ IsTune(tune) /\ Loops \in Nat /\ tick \in Nat /\ tick <= MaxTicks
      /\ MaxTicks \in Nat /\ g_repeat_count \in 0 .. 255
      /\ repeat_arg < ZSM_REPEAT_FOREVER => Loops = repeat_arg
      /\ ~(repeat_arg < ZSM_REPEAT_FOREVER) => Loops = MaxTicks
  BY PlaceSetting
<1>6. tune.loop # 0 /\ LoopPoint(tune) = Offset(tune, tune.loop - 1)
        /\ tune.loop - 1 \in 0 .. Len(tune.tokens)
  BY <1>1, <1>5, CommandsInFile, TuneFields DEF LoopPoint
<1>7. /\ IsPlace(tune, Loops, round, Len(tune.tokens)) /\ round \in Nat
      /\ DueTick(tune, round, Len(tune.tokens)) = tick /\ RoundsCounted(round)
      /\ log = PlayedTo(tune, Loops, real_write_funcs, round, Len(tune.tokens))
  BY <1>2, <1>3 DEF Stands
<1>8. pc = "playing"
  BY <1>1, <1>4, <1>7 DEF RoundsCounted
<1>9. round + 1 <= Loops
  <2>1. CASE repeat_arg < ZSM_REPEAT_FOREVER
    <3>1. round + g_repeat_count = repeat_arg /\ Loops = repeat_arg
      BY <1>5, <1>7, <1>8, <2>1 DEF RoundsCounted
    <3>2. QED
      BY <1>1, <1>5, <1>7, <3>1
  <2>2. CASE ~(repeat_arg < ZSM_REPEAT_FOREVER)
    <3>1. tick >= round + 2
      BY <1>5, <1>6, <1>7, LoopTakesTime
    <3>2. Loops = MaxTicks
      BY <1>5, <2>2
    <3>3. QED
      BY <1>5, <1>7, <3>1, <3>2
  <2>3. QED
    BY <2>1, <2>2
<1>10. /\ IsPlace(tune, Loops, round + 1, tune.loop - 1)
       /\ PlayedTo(tune, Loops, real_write_funcs, round + 1, tune.loop - 1) =
              PlayedTo(tune, Loops, real_write_funcs, round, Len(tune.tokens))
       /\ DueTick(tune, round + 1, tune.loop - 1) = DueTick(tune, round, Len(tune.tokens))
  BY <1>5, <1>6, <1>7, <1>9, PlayedRoundOver
<1>11. Ram!Position(g_ram_bank') = Offset(tune, tune.loop - 1)
  <2>1. Offset(tune, tune.loop - 1) \in Nat /\ Offset(tune, tune.loop - 1) < Ram!Size
    BY <1>5, <1>6, OffsetIs
  <2>2. g_ram_bank' = Ram!SeekSet(Offset(tune, tune.loop - 1))
    BY <1>6 DEF TakeLoop
  <2>3. QED
    BY <2>1, <2>2, SeekArrives
<1>12. repeat_arg < ZSM_REPEAT_FOREVER => (round + 1) + g_repeat_count' = repeat_arg
  <2> SUFFICES ASSUME repeat_arg < ZSM_REPEAT_FOREVER
               PROVE  (round + 1) + g_repeat_count' = repeat_arg
    OBVIOUS
  <2>1. round + g_repeat_count = repeat_arg
    BY <1>7, <1>8 DEF RoundsCounted
  <2>2. g_zsm_repeat = repeat_arg
    BY <1>8 DEF ZsmInv, RepeatInv
  <2>3. ~(g_zsm_repeat >= ZSM_REPEAT_FOREVER)
    BY <2>2, PlaceSetting DEF ZSM_REPEAT_FOREVER
  <2>4. g_repeat_count' = g_repeat_count - 1
    BY <2>3 DEF TakeLoop
  <2>5. QED
    BY <1>5, <1>7, <2>1, <2>4
<1>13. /\ UNCHANGED <<setup, pc, g_play_stream, tick, escaped>> /\ Resume("command")
       /\ g_delay_ticks' = 0 /\ log' = log
  BY <1>4 DEF TakeLoop
<1>14. tick = tick + g_delay_ticks' /\ g_delay_ticks' \in Nat
  BY <1>5, <1>13
<1>15. QED
  <2> DEFINE r == round + 1
             j == tune.loop - 1
  <2>1. /\ IsPlace(tune, Loops, r, j)
        /\ log' = PlayedTo(tune, Loops, real_write_funcs, r, j)
        /\ Ram!Position(g_ram_bank') = Offset(tune, j)
        /\ DueTick(tune, r, j) = tick + g_delay_ticks'
        /\ repeat_arg < ZSM_REPEAT_FOREVER => r + g_repeat_count' = repeat_arg
    BY <1>7, <1>10, <1>11, <1>12, <1>13, <1>14
  <2> HIDE DEF r, j
  <2>2. QED
    BY <1>4, <1>8, <1>13, <1>14, <2>1, PlaceMoves

\* The stream ends behind the last token of the last round: the count is only zero
\* before zsm_start has stored it on the first tick, on which a tune that waits in
\* its loop cannot be at its end.
LEMMA EndStreamPlace ==
    ASSUME ZsmInv, PlaceInv, Waits(tune), EndStream PROVE PlaceInv'
<1>1. update = "command" /\ Command = 128 /\ (g_repeat_count = 0 \/ LoopPoint(tune) = 0)
  BY DEF EndStream
<1>2. PICK round, k : Stands(round, k)
  BY <1>1, CommandStands
<1>3. k = Len(tune.tokens)
  <2> SUFFICES ASSUME k # Len(tune.tokens) PROVE FALSE
    OBVIOUS
  <2>1. Passes(tune.tokens[k + 1], round, k)
    BY <1>2, TokenPasses
  <2>2. PICK token : token = tune.tokens[k + 1]
    OBVIOUS
  <2>3. Reads(token, k) /\ token.op \in {"psg", "fm", "delay", "ext"}
    BY <2>1, <2>2 DEF Passes
  <2>4. QED
    BY <1>1, <2>3, CommandTells
<1>4. /\ g_play_stream /\ pc \in {"stream_on", "repeat_set", "playing"}
  BY <1>1, CommandStands
<1>5. /\ tune \in Tunes /\ IsTune(tune) /\ Loops \in Nat /\ tick \in Nat
  BY PlaceSetting
<1>6. /\ IsPlace(tune, Loops, round, k) /\ round \in Nat /\ k \in 0 .. Len(tune.tokens)
      /\ DueTick(tune, round, Len(tune.tokens)) = tick /\ RoundsCounted(round)
      /\ log = PlayedTo(tune, Loops, real_write_funcs, round, k)
  BY <1>2, <1>3 DEF Stands
<1>7. tune.loop # 0 => LoopPoint(tune) # 0
  BY <1>5, CommandsInFile
<1>8. repeat_arg < ZSM_REPEAT_FOREVER /\ tune.loop # 0 => round = repeat_arg
  <2> SUFFICES ASSUME repeat_arg < ZSM_REPEAT_FOREVER, tune.loop # 0 PROVE round = repeat_arg
    OBVIOUS
  <2>1. tick >= round + 2
    BY <1>5, <1>6, LoopTakesTime
  <2>2. pc = "playing"
    <3>1. ~(tick <= 1)
      BY <1>5, <1>6, <2>1
    <3>2. QED
      BY <1>4, <1>6, <3>1 DEF RoundsCounted
  <2>3. g_repeat_count = 0 /\ round + g_repeat_count = repeat_arg
    BY <1>1, <1>6, <1>7, <2>2 DEF RoundsCounted
  <2>4. QED
    BY <1>6, <2>3
<1>9. /\ tune' = tune /\ repeat_arg' = repeat_arg /\ real_write_funcs' = real_write_funcs
      /\ pc' = pc /\ ~g_play_stream' /\ tick' = tick /\ log' = log /\ escaped' = escaped
      /\ g_repeat_count' = g_repeat_count /\ Loops' = Loops /\ update' = "idle"
  BY DEF EndStream, setup, Loops, Resume
<1>10. BetweenTokens(round, k)'
  BY <1>4, <1>6, <1>9 DEF BetweenTokens
<1>11. RoundsCounted(round)'
  BY <1>6, <1>9 DEF RoundsCounted
<1>12. Ended(round, k)'
  BY <1>3, <1>8, <1>9 DEF Ended
<1>13. At(round, k)'
  BY <1>6, <1>9, <1>10, <1>11, <1>12 DEF At
<1>14. StartInv'
  BY <1>4, <1>9 DEF StartInv
<1>15. round \in 0 .. Loops
  BY <1>5, <1>6, PlaceFields
<1>16. QED
  BY <1>6, <1>9, <1>13, <1>14, <1>15 DEF PlaceInv

-----------------------------------------------------------------------------
\* Every step keeps the place.
LEMMA PlaceKeeps ==
    ASSUME \A t \in Tunes : Waits(t), ZsmInv, PlaceInv, [Next]_vars
    PROVE  PlaceInv'
<1>1. CASE \E write_funcs \in SUBSET {"ym", "psg"} : Initialize(write_funcs)
  BY <1>1, InitializePlace
<1>2. CASE Start
  BY <1>2, StartPlace
<1>3. CASE Stop \/ LeaveLoop
  BY <1>3, MainPlace
<1>4. CASE Tick
  BY <1>4, TickPlace
<1>5. CASE Execute
  <2>1. Waits(tune)
    BY PlaceSetting
  <2>2. QED
    BY <1>5, <2>1, SkipExtensionPlace, TakeLoopPlace, EndStreamPlace, WritePsgPlace,
       StartFmPlace, WriteFmPairPlace, WaitTicksPlace DEF Execute
<1>6. CASE UNCHANGED vars
  <2>1. tune' = tune /\ Loops' = Loops
    BY <1>6 DEF vars, setup, Loops
  <2>2. StartInv'
    BY <1>6 DEF vars, setup, decoder, PlaceInv, StartInv
  <2>3. ASSUME NEW round, NEW k, At(round, k) PROVE At(round, k)'
    BY <1>6, <2>1, <2>3 DEF vars, setup, decoder, At, BetweenTokens, AmidPairs,
       RoundsCounted, Ended
  <2>4. QED
    BY <2>1, <2>2, <2>3 DEF PlaceInv
<1>7. QED
  BY <1>1, <1>2, <1>3, <1>4, <1>5, <1>6 DEF Next

\* At every moment the writes so far are those of the performance up to a place
\* that the pointer, the delay and the count of zsm.c belong to.  A loop without
\* a delay is left out: forever, it would keep zsm_update from returning, and the
\* stores of zsm_start could come too late for it.
THEOREM ZsmPlaceAlways ==
    ASSUME \A t \in Tunes : Waits(t)
    PROVE  Spec => []PlaceInv
<1>1. Init => ZsmInv /\ PlaceInv
  BY InitZsm, InitPlace
<1>2. ZsmInv /\ PlaceInv /\ [Next]_vars => ZsmInv' /\ PlaceInv'
  BY NextKeeps, PlaceKeeps
<1>3. QED
  BY <1>1, <1>2, PTL DEF Spec

\* A stream that ends by itself has been played to its last write, its loop taken
\* as often as -rN asks, for every set of tunes that wait in their loops: no write
\* of any round is lost to the 8-bit count, the banks or the interrupted stores of
\* zsm_start.  A tune whose loop does not wait can lose its loop to an interrupt
\* between the stores; the run ZsmStartRace shows it.
THEOREM ZsmEndsComplete ==
    ASSUME \A t \in Tunes : Waits(t)
    PROVE  Spec => []EndsComplete
<1>1. ZsmInv /\ PlaceInv => EndsComplete
  <2> SUFFICES ASSUME ZsmInv, PlaceInv, pc = "stopped", ~escaped,
                      repeat_arg < ZSM_REPEAT_FOREVER
               PROVE  log = Performance(tune, Loops, real_write_funcs)
    BY DEF EndsComplete
  <2>1. PICK round \in 0 .. Loops : \E k \in 0 .. Len(tune.tokens) : At(round, k)
    BY DEF PlaceInv
  <2>2. PICK k \in 0 .. Len(tune.tokens) : At(round, k)
    BY <2>1
  <2>3. ~g_play_stream
    BY DEF PlaceInv, StartInv
  <2>4. update # "pairs"
    BY <2>3 DEF ZsmInv, PointerInv
  <2>5. /\ k = Len(tune.tokens) /\ (tune.loop # 0 => round = repeat_arg)
        /\ IsPlace(tune, Loops, round, k)
        /\ log = PlayedTo(tune, Loops, real_write_funcs, round, k)
    BY <2>2, <2>3, <2>4 DEF At, Ended, BetweenTokens
  <2>6. IsTune(tune) /\ Loops \in Nat /\ Loops = repeat_arg
    BY PlaceSetting
  <2>7. round = IF tune.loop = 0 THEN 0 ELSE Loops
    BY <2>5, <2>6 DEF IsPlace
  <2>8. QED
    BY <2>5, <2>6, <2>7, PlayedAll
<1>2. QED
  BY <1>1, ZsmAlways, ZsmPlaceAlways, PTL

-----------------------------------------------------------------------------
(***************************************************************************)
(* The steps of the score.                                                 *)
(***************************************************************************)
\* The initial states are those of the score.
LEMMA ScoreStarts == Init => Score!Init
<1> SUFFICES ASSUME Init PROVE Score!Init
  OBVIOUS
<1>1. Loops \in Nat
  BY InitZsm, PlaceSetting
<1>2. tune \in Tunes /\ {} \in SUBSET Chips /\ real_write_funcs = {} /\ tick = 0 /\ log = <<>>
  BY DEF Init
<1>3. QED
  BY <1>1, <1>2 DEF Score!Init, Score!Chips, Chips

\* A step without a write or a tick is none of the score's.
LEMMA ScoreWaits ==
    ASSUME UNCHANGED <<setup, tick, log>>
    PROVE  UNCHANGED Score!vars
BY DEF Score!vars, setup, Loops

\* ZsmScore has the operators of ZsmTune as its own; they are the same.
LEMMA DueIsPerformance ==
    Score!Due = Performance(tune, Loops, real_write_funcs)
BY DEF Score!Due, Score!Performance, Performance, Score!Rounds, Rounds, Score!RoundWrites,
   RoundWrites, Score!WritesOf, WritesOf, Score!DueTick, DueTick, Score!LoopTicks, LoopTicks,
   Score!Elapsed, Elapsed, Score!Ticks, Ticks, Score!Skipped, Skipped

\* A write that the performance has next, on its tick, is a step of the score.
LEMMA ScoreEmits ==
    ASSUME UNCHANGED <<setup, tick>>, log \in Seq(Writes),
           NEW rec \in Writes, rec.tick = tick, log' = Append(log, rec),
           NEW rest \in Seq(Writes),
           Performance(tune, Loops, real_write_funcs) = log' \o rest
    PROVE  Score!Emit
<1> DEFINE due == Performance(tune, Loops, real_write_funcs)
<1>1. Append(log, rec) \in Seq(Writes) /\ Len(Append(log, rec)) = Len(log) + 1
        /\ Append(log, rec)[Len(log) + 1] = rec /\ Len(log) \in Nat
  BY AppendProperties, LenProperties
<1>2. due = Append(log, rec) \o rest
  OBVIOUS
<1> HIDE DEF due
<1>3. /\ Len(due) = Len(log) + 1 + Len(rest) /\ Len(rest) \in Nat
      /\ \A i \in 1 .. Len(log) + 1 + Len(rest) :
             due[i] = IF i <= Len(log) + 1 THEN Append(log, rec)[i] ELSE rest[i - (Len(log) + 1)]
  BY <1>1, <1>2, ConcatProperties, LenProperties
<1>4. Len(log) < Len(due) /\ due[Len(log) + 1] = rec
  <2>1. Len(log) + 1 \in 1 .. Len(log) + 1 + Len(rest) /\ Len(log) + 1 <= Len(log) + 1
    BY <1>1, <1>3
  <2>2. QED
    BY <1>1, <1>3, <2>1
<1>5. Score!Due = due
  BY DueIsPerformance DEF due
<1>6. tune' = tune /\ Loops' = Loops /\ real_write_funcs' = real_write_funcs /\ tick' = tick
  BY DEF setup, Loops
<1>7. log' = Append(log, due[Len(log) + 1])
  BY <1>4
<1>8. QED
  BY <1>4, <1>5, <1>6, <1>7 DEF Score!Emit

\* The performance from a place of it.
LEMMA StillToPlay ==
    ASSUME ZsmInv, NEW round, NEW k, IsPlace(tune, Loops, round, k)
    PROVE  \E rest \in Seq(Writes) :
               /\ Performance(tune, Loops, real_write_funcs) =
                      PlayedTo(tune, Loops, real_write_funcs, round, k) \o rest
               /\ \A i \in 1 .. Len(rest) : rest[i].tick >= DueTick(tune, round, k)
<1>1. IsTune(tune) /\ Loops \in Nat
  BY PlaceSetting
<1>2. PICK rest : Rest(tune, Loops, real_write_funcs, round, k, rest)
  BY <1>1, PlayedIsPrefix
<1>3. QED
  BY <1>2 DEF Rest

\* No update begins while a write of an earlier one is outstanding.
LEMMA TickAdvances == ASSUME ZsmInv, PlaceInv, Tick PROVE Score!Advance
<1>1. /\ update = "idle" /\ g_play_stream /\ tick' = tick + 1 /\ UNCHANGED <<setup, log>>
      /\ tick < (IF pc \in {"stream_on", "repeat_set"} THEN 1 ELSE MaxTicks)
  BY DEF Tick
<1>2. g_delay_ticks \in 1 .. 127 /\ tick \in Nat /\ MaxTicks \in Nat \ {0}
        /\ IsTune(tune) /\ Loops \in Nat
  BY <1>1, PlaceSetting DEF PlaceInv, StartInv
<1>3. tick < MaxTicks
  BY <1>1, <1>2
<1>4. PICK round \in 0 .. Loops : \E k \in 0 .. Len(tune.tokens) : At(round, k)
  BY DEF PlaceInv
<1>5. PICK k \in 0 .. Len(tune.tokens) : At(round, k)
  BY <1>4
<1>6. /\ IsPlace(tune, Loops, round, k)
      /\ log = PlayedTo(tune, Loops, real_write_funcs, round, k)
      /\ DueTick(tune, round, k) = tick + g_delay_ticks
  BY <1>1, <1>5 DEF At, BetweenTokens
<1>7. PICK rest \in Seq(Writes) :
          /\ Performance(tune, Loops, real_write_funcs) =
                 PlayedTo(tune, Loops, real_write_funcs, round, k) \o rest
          /\ \A i \in 1 .. Len(rest) : rest[i].tick >= DueTick(tune, round, k)
  BY <1>6, StillToPlay
<1>8. log \in Seq(Writes)
  BY <1>2, <1>6, PlayedIsWrites
<1> DEFINE due == Performance(tune, Loops, real_write_funcs)
<1>9. due = log \o rest
  BY <1>6, <1>7
<1>10. \A i \in 1 .. Len(rest) : rest[i].tick >= tick + g_delay_ticks
  BY <1>6, <1>7
<1>11. Score!Due = due
  BY DueIsPerformance
<1> HIDE DEF due
<1>12. Len(log) < Len(due) => due[Len(log) + 1].tick > tick
  <2> SUFFICES ASSUME Len(log) < Len(due) PROVE due[Len(log) + 1].tick > tick
    OBVIOUS
  <2>1. /\ Len(due) = Len(log) + Len(rest) /\ Len(rest) \in Nat /\ Len(log) \in Nat
        /\ \A i \in 1 .. Len(log) + Len(rest) :
               due[i] = IF i <= Len(log) THEN log[i] ELSE rest[i - Len(log)]
    BY <1>8, <1>9, ConcatProperties, LenProperties
  <2>2. /\ Len(log) + 1 \in 1 .. Len(log) + Len(rest) /\ ~(Len(log) + 1 <= Len(log))
        /\ (Len(log) + 1) - Len(log) = 1 /\ 1 \in 1 .. Len(rest)
    BY <2>1
  <2>3. due[Len(log) + 1] = rest[1]
    BY <2>1, <2>2
  <2>4. rest[1].tick >= tick + g_delay_ticks
    BY <1>10, <2>2
  <2>5. rest[1].tick \in Nat
    <3>1. rest[1] \in Writes
      BY <2>2, ElementOfSeq
    <3>2. QED
      BY <3>1 DEF Writes
  <2> DEFINE r == rest[1].tick
  <2>6. r \in Nat /\ r >= tick + g_delay_ticks
    BY <2>4, <2>5
  <2> HIDE DEF r
  <2>7. r > tick
    BY ONLY <1>2, <2>6
  <2>8. QED
    BY <2>3, <2>7 DEF r
<1>13. Loops' = Loops /\ tune' = tune /\ real_write_funcs' = real_write_funcs /\ log' = log
  BY <1>1 DEF setup, Loops
<1>14. QED
  BY <1>1, <1>3, <1>11, <1>12, <1>13 DEF Score!Advance

\* A PSG command writes what is due, or nothing if there is no SAA1099.
LEMMA WritePsgEmits ==
    ASSUME ZsmInv, PlaceInv, WritePsg
    PROVE  Score!Emit \/ UNCHANGED Score!vars
<1>1. update = "command" /\ Command < 64 /\ UNCHANGED <<setup, tick>>
  BY DEF WritePsg
<1>2. PICK round, k : Stands(round, k)
  BY <1>1, CommandStands
<1>3. k # Len(tune.tokens)
  BY <1>1, <1>2, PlaceSetting, AtEnd DEF Stands
<1>4. PICK token : token = tune.tokens[k + 1]
  OBVIOUS
<1>5. Passes(token, round, k) /\ log \in Seq(Writes)
  BY <1>2, <1>3, <1>4, TokenPasses
<1>6. Reads(token, k) /\ token.op = "psg" /\ token \in Tokens
  BY <1>1, <1>5, CommandTells DEF Passes
<1> DEFINE rec == [tick |-> tick, chip |-> "psg", address |-> token.address, data |-> token.data]
<1>7. log' = IF "psg" \in real_write_funcs THEN Append(log, rec) ELSE log
  <2>1. Command = token.address /\ ByteAt(Operand) = token.data
    BY <1>6 DEF Reads
  <2>2. QED
    BY <2>1 DEF WritePsg, Record
<1>8. CASE "psg" \notin real_write_funcs
  BY <1>1, <1>7, <1>8, ScoreWaits
<1>9. CASE "psg" \in real_write_funcs
  <2>1. tick \in Nat /\ IsPlace(tune, Loops, round, k + 1)
    BY <1>5, PlaceSetting DEF Passes
  <2>2. rec \in Writes
    <3>1. token.address \in 0 .. 63 /\ token.data \in Octets
      BY <1>6, TokenFields
    <3>2. QED
      BY <2>1, <3>1 DEF Writes, Chips, Octets
  <2>3. WritesOf(token, tick, real_write_funcs) = <<rec>>
    BY <1>6, <1>9, <2>1, WritesOfPsg
  <2>4. rec.tick = tick
    OBVIOUS
  <2> HIDE DEF rec
  <2>5. PlayedTo(tune, Loops, real_write_funcs, round, k + 1) = log'
    <3>1. PlayedTo(tune, Loops, real_write_funcs, round, k + 1) = log \o <<rec>>
      BY <1>5, <2>3 DEF Passes
    <3>2. log \o <<rec>> = Append(log, rec)
      BY <1>5, <2>2
    <3>3. QED
      BY <1>7, <1>9, <3>1, <3>2
  <2>6. PICK rest \in Seq(Writes) :
            Performance(tune, Loops, real_write_funcs) =
                PlayedTo(tune, Loops, real_write_funcs, round, k + 1) \o rest
    BY <2>1, StillToPlay
  <2>7. Performance(tune, Loops, real_write_funcs) = log' \o rest
    BY <2>5, <2>6
  <2>8. log' = Append(log, rec)
    BY <1>7, <1>9
  <2>9. Score!Emit
    BY <1>1, <1>5, <2>2, <2>4, <2>7, <2>8, ScoreEmits
  <2>10. QED
    BY <2>9
<1>10. QED
  BY <1>8, <1>9

\* A register/value pair is what is due, or nothing if there is no YM2151.
LEMMA WriteFmPairEmits ==
    ASSUME ZsmInv, PlaceInv, WriteFmPair
    PROVE  Score!Emit \/ UNCHANGED Score!vars
<1>1. update = "pairs" /\ UNCHANGED <<setup, tick>>
  BY DEF WriteFmPair
<1>2. PICK token, round, k, d : PairStands(token, round, k, d)
  BY <1>1, PairsStand
<1> DEFINE w == WritesOf(token, tick, real_write_funcs)
           p == PlayedTo(tune, Loops, real_write_funcs, round, k)
<1>3. /\ p \in Seq(Writes) /\ w \in Seq(Writes) /\ log \in Seq(Writes)
      /\ log' = p \o (IF "ym" \in real_write_funcs THEN SubSeq(w, 1, d) ELSE <<>>)
      /\ "ym" \in real_write_funcs =>
             /\ log' = Append(log, w[d]) /\ Len(w) = Len(token.pairs)
             /\ w[d] \in Writes /\ w[d].tick = tick
      /\ "ym" \notin real_write_funcs => log' = log
  BY <1>2, PairWritten
<1>4. CASE "ym" \notin real_write_funcs
  BY <1>1, <1>3, <1>4, ScoreWaits
<1>5. CASE "ym" \in real_write_funcs
  <2>1. /\ k # Len(tune.tokens) /\ IsPlace(tune, Loops, round, k)
        /\ token = tune.tokens[k + 1] /\ DueTick(tune, round, k) = tick
        /\ d \in 1 .. Len(w)
    <3>1. /\ k < Len(tune.tokens) /\ k \in 0 .. Len(tune.tokens) /\ IsPlace(tune, Loops, round, k)
          /\ token = tune.tokens[k + 1] /\ DueTick(tune, round, k) = tick
          /\ d \in 1 .. Len(token.pairs)
      BY <1>2 DEF PairStands
    <3>2. Len(tune.tokens) \in Nat
      BY PlaceSetting
    <3>3. k # Len(tune.tokens)
      BY ONLY <3>1, <3>2
    <3>4. Len(w) = Len(token.pairs)
      BY <1>3, <1>5
    <3> HIDE DEF w
    <3>5. QED
      BY <3>1, <3>3, <3>4
  <2>2. IsTune(tune) /\ Loops \in Nat
    BY PlaceSetting
  <2>3. /\ IsPlace(tune, Loops, round, k + 1)
        /\ PlayedTo(tune, Loops, real_write_funcs, round, k + 1) =
               PlayedTo(tune, Loops, real_write_funcs, round, k) \o
                   WritesOf(tune.tokens[k + 1], DueTick(tune, round, k), real_write_funcs)
    <3>1. k # Len(tune.tokens) /\ IsPlace(tune, Loops, round, k)
      BY <2>1
    <3>2. QED
      BY ONLY <2>2, <3>1, PlayedOneMore
  <2>4. PICK rest \in Seq(Writes) :
            Performance(tune, Loops, real_write_funcs) =
                PlayedTo(tune, Loops, real_write_funcs, round, k + 1) \o rest
    BY <2>3, StillToPlay
  <2>5. Performance(tune, Loops, real_write_funcs) = (p \o w) \o rest
    BY <2>1, <2>3, <2>4
  <2> DEFINE a == SubSeq(w, 1, d)
             b == SubSeq(w, d + 1, Len(w))
  <2> HIDE DEF w, p
  <2>6. a \in Seq(Writes) /\ b \in Seq(Writes) /\ w = a \o b
    <3>1. w \in Seq(Writes) /\ d \in 1 .. Len(w) /\ Len(w) \in Nat
      BY <1>3, <2>1
    <3>2. QED
      BY ONLY <3>1
  <2>7. log' = p \o a /\ log' = Append(log, w[d]) /\ w[d] \in Writes /\ w[d].tick = tick
    BY <1>3, <1>5
  <2> HIDE DEF a, b
  <2>8. (p \o w) \o rest = log' \o (b \o rest) /\ b \o rest \in Seq(Writes)
    <3>1. p \o (a \o b) = (p \o a) \o b
      <4>1. p \in Seq(Writes) /\ a \in Seq(Writes) /\ b \in Seq(Writes)
        BY <1>3, <2>6
      <4>2. QED
        BY ONLY <4>1, ConcatAssociative
    <3>2. p \o a \in Seq(Writes)
      BY <1>3, <2>6, ConcatProperties
    <3>3. ((p \o a) \o b) \o rest = (p \o a) \o (b \o rest)
      <4> DEFINE pa == p \o a
      <4>1. pa \in Seq(Writes) /\ b \in Seq(Writes) /\ rest \in Seq(Writes)
        BY <2>6, <3>2
      <4> HIDE DEF pa
      <4>2. (pa \o b) \o rest = pa \o (b \o rest)
        BY ONLY <4>1, ConcatAssociative
      <4>3. QED
        BY <4>2 DEF pa
    <3>4. b \o rest \in Seq(Writes)
      BY <2>6, ConcatProperties
    <3>5. QED
      BY <2>6, <2>7, <3>1, <3>3, <3>4
  <2>9. Score!Emit
    <3> DEFINE rec == w[d]
               last == b \o rest
    <3>1. /\ rec \in Writes /\ rec.tick = tick /\ log' = Append(log, rec) /\ log \in Seq(Writes)
          /\ last \in Seq(Writes) /\ UNCHANGED <<setup, tick>>
          /\ Performance(tune, Loops, real_write_funcs) = log' \o last
      BY <1>1, <1>3, <2>5, <2>7, <2>8
    <3> HIDE DEF rec, last
    <3>2. QED
      BY <3>1, ScoreEmits
  <2>10. QED
    BY <2>9
<1>6. QED
  BY <1>4, <1>5

\* zsm_initialize settles on which of the chips of the tune it is played.
LEMMA InitializeSettles ==
    ASSUME ZsmInv, PlaceInv, NEW write_funcs \in SUBSET {"ym", "psg"}, Initialize(write_funcs)
    PROVE  Score!Settle \/ UNCHANGED Score!vars
<1>1. pc = "boot" /\ tick = 0 /\ log = <<>> /\ real_write_funcs = {}
  BY DEF Initialize, PlaceInv, StartInv
<1>2. tune' = tune /\ Loops' = Loops /\ tick' = tick /\ log' = log
  BY DEF Initialize, Loops
<1>3. real_write_funcs' = real_write_funcs
        \/ real_write_funcs' = real_write_funcs \cup (tune.chips \cap write_funcs)
  BY DEF Initialize
<1>4. real_write_funcs' \in SUBSET tune.chips
  BY <1>1, <1>3
<1>5. QED
  BY <1>1, <1>2, <1>4 DEF Score!Settle

\* Every step of the decoder is a step of the score or none.
LEMMA ScoreSteps ==
    ASSUME ZsmInv, PlaceInv, [Next]_vars
    PROVE  [Score!Next]_(Score!vars)
<1>1. CASE \E write_funcs \in SUBSET {"ym", "psg"} : Initialize(write_funcs)
  BY <1>1, InitializeSettles DEF Score!Next
<1>2. CASE Start
  BY <1>2, ScoreWaits DEF Start, StartDelay, StartStream, StartRepeat, StartCount
<1>3. CASE Stop \/ LeaveLoop
  BY <1>3, ScoreWaits DEF Stop, LeaveLoop
<1>4. CASE Tick
  BY <1>4, TickAdvances DEF Score!Next
<1>5. CASE Execute
  <2>1. CASE WritePsg
    BY <2>1, WritePsgEmits DEF Score!Next
  <2>2. CASE WriteFmPair
    BY <2>2, WriteFmPairEmits DEF Score!Next
  <2>3. CASE SkipExtension \/ TakeLoop \/ EndStream \/ StartFm \/ WaitTicks
    BY <2>3, ScoreWaits DEF SkipExtension, TakeLoop, EndStream, StartFm, WaitTicks
  <2>4. QED
    BY <1>5, <2>1, <2>2, <2>3 DEF Execute
<1>6. CASE UNCHANGED vars
  BY <1>6, ScoreWaits DEF vars
<1>7. QED
  BY <1>1, <1>2, <1>3, <1>4, <1>5, <1>6 DEF Next

\* zsm_update, the banks under it and zsm_start implement ZsmScore: each write
\* reaches its chip on the tick on which the performance of the tune has it, and
\* none is early, late, lost, repeated or out of order, for every set of tunes that
\* wait in their loops, every bank size and number of banks, every -r and on
\* whichever of the chips there are.
THEOREM ZsmPlaysScore ==
    ASSUME \A t \in Tunes : Waits(t)
    PROVE  Spec => PlaysScore
<1>1. Init => Score!Init
  BY ScoreStarts
<1>2. ZsmInv /\ PlaceInv /\ [Next]_vars => [Score!Next]_(Score!vars)
  BY ScoreSteps
<1>3. QED
  BY <1>1, <1>2, ZsmAlways, ZsmPlaceAlways, PTL DEF Spec, PlaysScore, Score!Spec

-----------------------------------------------------------------------------
(***************************************************************************)
(* The end of the banks.                                                   *)
(***************************************************************************)
\* A pointer at a command or before one is in the banks.
LEMMA InsideBanks ==
    ASSUME NEW t \in Tunes, NEW p \in Pointers, NEW n \in Nat,
           Ram!Position(p) + n \in CommandOffsets(t)
    PROVE  p.bank < NumBanks
<1>1. Ram!Position(p) \in Nat
  BY PointerInside
<1>2. Ram!Position(p) + n < Ram!Size
  BY CommandsInFile
<1>3. Ram!Position(p) < Ram!Size
  BY <1>1, <1>2, SizeIsNat
<1>4. p \in Inside
  BY <1>3, PointerInside
<1>5. QED
  BY <1>4, ZsmAssumption DEF Inside

\* Where the stream plays, or is about to, its pointer is in the banks.
LEMMA PlayingInBanks ==
    ASSUME tune' \in Tunes, g_ram_bank' \in Pointers, pairs' \in Nat, PointerInv',
           g_play_stream' \/ pc' = "ready"
    PROVE  NextBankExists'
<1>1. CASE update' = "pairs"
  <2>1. Ram!Position(g_ram_bank') + 2 * pairs' \in CommandOffsets(tune')
    BY <1>1 DEF PointerInv
  <2>2. 2 * pairs' \in Nat
    <3>1. \A m \in Nat : 2 * m \in Nat
      OBVIOUS
    <3>2. QED
      BY <3>1
  <2> DEFINE n == 2 * pairs'
  <2> HIDE DEF n
  <2>3. g_ram_bank'.bank < NumBanks
    BY <2>1, <2>2, InsideBanks DEF n
  <2>4. QED
    BY <2>3 DEF NextBankExists
<1>2. CASE update' # "pairs"
  <2>1. Ram!Position(g_ram_bank') \in CommandOffsets(tune')
    BY <1>2 DEF PointerInv
  <2>2. Ram!Position(g_ram_bank') + 0 = Ram!Position(g_ram_bank')
    <3>1. Ram!Position(g_ram_bank') \in Nat
      BY PointerInside
    <3>2. QED
      BY <3>1
  <2>3. Ram!Position(g_ram_bank') + 0 \in CommandOffsets(tune') /\ 0 \in Nat
    BY <2>1, <2>2
  <2>4. g_ram_bank'.bank < NumBanks
    BY <2>3, InsideBanks
  <2>5. QED
    BY <2>4 DEF NextBankExists
<1>3. QED
  BY <1>1, <1>2

\* The pointer after the end-of-file command is in the banks if the file goes on.
LEMMA EndInBanks ==
    ASSUME \A t \in Tunes : HeaderSize + Len(Encoding(t.tokens)) + 1 < Ram!Size,
           ZsmInv, EndStream
    PROVE  NextBankExists'
<1>1. update = "command" /\ Command = 128 /\ g_ram_bank' = Operand
  BY DEF EndStream
<1>2. tune \in Tunes /\ g_ram_bank \in Pointers
        /\ Ram!Position(g_ram_bank) \in CommandOffsets(tune)
  BY <1>1, AtCommand
<1>3. PICK k \in 0 .. Len(tune.tokens) : Ram!Position(g_ram_bank) = Offset(tune, k)
  BY <1>2 DEF CommandOffsets
<1>4. k = Len(tune.tokens)
  <2> SUFFICES ASSUME k # Len(tune.tokens) PROVE FALSE
    OBVIOUS
  <2>1. Reads(tune.tokens[k + 1], k)
    BY <1>2, <1>3, AtToken
  <2>2. PICK token : token = tune.tokens[k + 1]
    OBVIOUS
  <2>3. Reads(token, k) /\ token \in Tokens
    BY <2>1, <2>2 DEF Reads
  <2>4. token.op \in {"psg", "fm", "delay", "ext"}
    BY <2>3, TokenFields
  <2>5. QED
    BY <1>1, <2>3, <2>4, CommandTells
<1> DEFINE at == HeaderSize + Len(Encoding(tune.tokens))
<1>5. Ram!Position(g_ram_bank) = at
  BY <1>3, <1>4 DEF Offset, Encoding
<1>6. at + 1 < Ram!Size
  BY <1>2
<1>7. at \in Nat
  BY <1>2, <1>5, PointerInside
<1> HIDE DEF at
<1>8. at < Ram!Size
  BY <1>6, <1>7, SizeIsNat
<1>9. Operand \in Pointers /\ Ram!Position(Operand) = at + 1
  BY <1>2, <1>5, <1>8, OneFurther DEF Operand
<1>10. Operand \in Inside
  BY <1>6, <1>9, PointerInside
<1>11. QED
  BY <1>1, <1>10, ZsmAssumption DEF Inside, NextBankExists

\* Where at least a byte follows the end-of-file command in the banks, the comment
\* of ram_get_bank holds (source/ram.c:335): the bank asked for is one the loader
\* allocated.  The run ZsmLastByte shows what happens where none follows.
THEOREM ZsmNextBank ==
    ASSUME \A t \in Tunes : HeaderSize + Len(Encoding(t.tokens)) + 1 < Ram!Size
    PROVE  Spec => []NextBankExists
<1>1. Init => NextBankExists
  <2> SUFFICES ASSUME Init PROVE NextBankExists
    OBVIOUS
  <2>1. 0 \in Nat /\ 0 < Ram!Size
    BY SizeIsNat
  <2>2. g_ram_bank \in Pointers /\ Ram!Position(g_ram_bank) = 0
    BY <2>1, SeekArrives DEF Init
  <2>3. g_ram_bank \in Inside
    BY <2>1, <2>2, PointerInside
  <2>4. QED
    BY <2>3, ZsmAssumption DEF Inside, NextBankExists
<1>2. ZsmInv /\ ZsmInv' /\ NextBankExists /\ [Next]_vars => NextBankExists'
  <2> SUFFICES ASSUME ZsmInv, ZsmInv', NextBankExists, [Next]_vars PROVE NextBankExists'
    OBVIOUS
  <2>1. tune' \in Tunes /\ g_ram_bank' \in Pointers /\ pairs' \in Nat /\ PointerInv'
    BY DEF ZsmInv, TypeOK, Pointers
  <2>2. CASE g_play_stream' \/ pc' = "ready"
    BY <2>1, <2>2, PlayingInBanks
  <2>3. CASE EndStream
    BY <2>3, EndInBanks
  <2>4. CASE g_ram_bank' = g_ram_bank
    BY <2>4 DEF NextBankExists
  <2>5. CASE \E write_funcs \in SUBSET {"ym", "psg"} : Initialize(write_funcs)
    BY <2>2, <2>4, <2>5 DEF Initialize
  <2>6. CASE Start \/ Stop \/ LeaveLoop \/ Tick
    BY <2>4, <2>6 DEF Start, StartDelay, StartStream, StartRepeat, StartCount, Stop, LeaveLoop,
       Tick, decoder
  <2>7. CASE Execute
    <3>1. g_play_stream
      BY <2>7 DEF Execute, SkipExtension, TakeLoop, EndStream, WritePsg, StartFm, WriteFmPair,
         WaitTicks, ZsmInv, PointerInv
    <3>2. EndStream \/ g_play_stream' = g_play_stream
      BY <2>7 DEF Execute, SkipExtension, TakeLoop, WritePsg, StartFm, WriteFmPair, WaitTicks
    <3>3. QED
      BY <2>2, <2>3, <3>1, <3>2
  <2>8. CASE UNCHANGED vars
    BY <2>4, <2>8 DEF vars, decoder
  <2>9. QED
    BY <2>5, <2>6, <2>7, <2>8 DEF Next
<1>3. QED
  BY <1>1, <1>2, ZsmAlways, PTL DEF Spec

-----------------------------------------------------------------------------
(***************************************************************************)
(* An update comes to its end.                                             *)
(***************************************************************************)

\* Where the next command is; whether a delay is still ahead of it in the file; and
\* what is left to decode at most before this update ends: if no delay is ahead, all
\* of the file once more behind the loop.
Upcoming   == Ram!Position(g_ram_bank) + (IF update = "pairs" THEN 2 * pairs ELSE 0)
DelayAhead ==
    \E offset \in CommandOffsets(tune) : offset >= Upcoming /\ Byte(tune, offset) > 128
Left == (IF DelayAhead THEN 0 ELSE Ram!Size) + (Ram!Size - Ram!Position(g_ram_bank))

LEMMA OffsetsAscend ==
    ASSUME NEW t \in Tunes, NEW i \in 0 .. Len(t.tokens), NEW j \in i .. Len(t.tokens)
    PROVE  Offset(t, i) <= Offset(t, j)
<1> DEFINE n == Len(t.tokens)
           T == {d \in Nat : i + d <= n => Offset(t, i) <= Offset(t, i + d)}
<1>1. n \in Nat
  BY FileLayout
<1>2. 0 \in T
  <2>1. i + 0 = i /\ Offset(t, i) \in Nat
    BY <1>1, OffsetIs
  <2>2. QED
    BY <2>1
<1>3. ASSUME NEW d \in T PROVE d + 1 \in T
  <2>1. SUFFICES ASSUME i + (d + 1) <= n PROVE Offset(t, i) <= Offset(t, i + (d + 1))
    OBVIOUS
  <2>2. /\ i + d \in 0 .. n /\ i + d # n /\ (i + d) + 1 = i + (d + 1)
        /\ Offset(t, i) <= Offset(t, i + d)
    BY <1>1, <2>1
  <2>3. /\ t.tokens[(i + d) + 1] \in Tokens
        /\ Offset(t, (i + d) + 1) = Offset(t, i + d) + Len(Bytes(t.tokens[(i + d) + 1]))
    BY <2>2, TokenInFile
  <2>4. Len(Bytes(t.tokens[(i + d) + 1])) \in Nat
    BY <2>3, BytesOfToken
  <2>5. Offset(t, i) \in Nat /\ Offset(t, i + d) \in Nat
    BY <2>2, OffsetIs
  <2>6. QED
    BY ONLY <2>2, <2>3, <2>4, <2>5
<1>4. T = Nat
  <2> HIDE DEF T
  <2>1. T \subseteq Nat
    BY DEF T
  <2>2. QED
    BY <1>2, <1>3, <2>1, SetInduction
<1>5. j - i \in Nat /\ i + (j - i) = j /\ j <= n
  BY <1>1
<1>6. j - i \in T
  BY <1>4, <1>5
<1>7. QED
  BY <1>5, <1>6

\* No command is between a command and the next.
LEMMA CommandsApart ==
    ASSUME NEW t \in Tunes, NEW k \in 0 .. Len(t.tokens), k # Len(t.tokens),
           NEW offset \in CommandOffsets(t), offset > Offset(t, k)
    PROVE  offset >= Offset(t, k + 1)
<1>1. PICK j \in 0 .. Len(t.tokens) : offset = Offset(t, j)
  BY DEF CommandOffsets
<1>2. Len(t.tokens) \in Nat
  BY FileLayout
<1>3. k + 1 \in 0 .. Len(t.tokens) /\ (j \in k + 1 .. Len(t.tokens) \/ k \in j .. Len(t.tokens))
  BY <1>2
<1>4. CASE j \in k + 1 .. Len(t.tokens)
  <2>1. Offset(t, k + 1) <= Offset(t, j)
    BY <1>3, <1>4, OffsetsAscend
  <2>2. Offset(t, k + 1) \in Nat /\ Offset(t, j) \in Nat
    BY <1>3, OffsetIs
  <2>3. QED
    BY <1>1, <2>1, <2>2
<1>5. CASE k \in j .. Len(t.tokens)
  <2>1. Offset(t, j) <= Offset(t, k)
    BY <1>5, OffsetsAscend
  <2>2. Offset(t, j) \in Nat /\ Offset(t, k) \in Nat
    BY OffsetIs
  <2>3. QED
    BY <1>1, <2>1, <2>2
<1>6. QED
  BY <1>3, <1>4, <1>5

\* The last command is the end-of-file command.
LEMMA NothingBehindEnd ==
    ASSUME NEW t \in Tunes, NEW offset \in CommandOffsets(t),
           offset >= Offset(t, Len(t.tokens))
    PROVE  ~(Byte(t, offset) > 128)
<1>1. PICK j \in 0 .. Len(t.tokens) : offset = Offset(t, j)
  BY DEF CommandOffsets
<1>2. Len(t.tokens) \in Nat
  BY FileLayout
<1>3. /\ Len(t.tokens) \in j .. Len(t.tokens) /\ Len(t.tokens) \in 0 .. Len(t.tokens)
  BY <1>2
<1>4. Offset(t, j) <= Offset(t, Len(t.tokens))
  BY <1>3, OffsetsAscend
<1>5. Offset(t, j) \in Nat /\ Offset(t, Len(t.tokens)) \in Nat
  BY <1>3, OffsetIs
<1>6. offset = Offset(t, Len(t.tokens))
  BY <1>1, <1>4, <1>5
<1>7. QED
  BY <1>6, EndInFile

\* The loop of a tune that waits has a delay.
LEMMA DelayInLoop ==
    ASSUME NEW t \in Tunes, t.loop # 0, Waits(t)
    PROVE  \E offset \in CommandOffsets(t) : offset >= LoopPoint(t) /\ Byte(t, offset) > 128
<1>1. IsTune(t) /\ Len(t.tokens) \in Nat
  BY FileLayout
<1>2. t.loop \in 1 .. Len(t.tokens)
  BY <1>1, TuneFields
<1>3. PICK i \in t.loop .. Len(t.tokens) : t.tokens[i].op = "delay"
  BY DEF Waits
<1> DEFINE k == i - 1
<1>4. /\ k \in 0 .. Len(t.tokens) /\ k # Len(t.tokens) /\ k + 1 = i
      /\ t.loop - 1 \in 0 .. Len(t.tokens) /\ k \in t.loop - 1 .. Len(t.tokens)
  BY <1>1, <1>2
<1> HIDE DEF k
<1> DEFINE token == t.tokens[k + 1]
<1>5. /\ token \in Tokens /\ token.op = "delay"
      /\ \A j \in 1 .. Len(Bytes(token)) : Byte(t, Offset(t, k) + j - 1) = Bytes(token)[j]
  BY <1>3, <1>4, TokenInFile
<1>6. Len(Bytes(token)) = 1 /\ Bytes(token)[1] = 128 + token.ticks /\ token.ticks \in 1 .. 127
  BY <1>5, DelayBytes, TokenFields
<1>7. Offset(t, k) \in Nat /\ Offset(t, t.loop - 1) \in Nat
        /\ Offset(t, t.loop - 1) <= Offset(t, k)
  BY <1>4, OffsetIs, OffsetsAscend
<1>8. Byte(t, Offset(t, k)) = 128 + token.ticks
  <2>1. 1 \in 1 .. Len(Bytes(token)) /\ Offset(t, k) + 1 - 1 = Offset(t, k)
    BY <1>6, <1>7
  <2>2. QED
    BY <1>5, <1>6, <2>1
<1>9. Byte(t, Offset(t, k)) > 128
  <2> DEFINE ticks == token.ticks
  <2>1. ticks \in 1 .. 127 /\ Byte(t, Offset(t, k)) = 128 + ticks
    BY <1>6, <1>8
  <2> HIDE DEF ticks
  <2>2. QED
    BY ONLY <2>1
<1>10. Offset(t, k) >= LoopPoint(t)
  BY <1>7 DEF LoopPoint
<1>11. Offset(t, k) \in CommandOffsets(t)
  BY <1>4 DEF CommandOffsets
<1>12. QED
  BY <1>9, <1>10, <1>11

\* Amid an update the pointer is in the file.
LEMMA LeftIsNat == ASSUME ZsmInv, update # "idle" PROVE Left \in Nat
<1> DEFINE at == Ram!Position(g_ram_bank)
<1>1. /\ tune \in Tunes /\ g_ram_bank \in Pointers /\ pairs \in 0 .. 63
      /\ update \in {"command", "pairs"}
  BY DEF ZsmInv, TypeOK, Pointers
<1>2. at \in Nat
  BY <1>1, PointerInside
<1>3. at < Ram!Size
  <2>1. CASE update = "command"
    BY <1>1, <2>1, AtCommand, CommandsInFile
  <2>2. CASE update = "pairs"
    <3>1. at + 2 * pairs \in CommandOffsets(tune)
      BY <2>2 DEF ZsmInv, PointerInv
    <3>2. at + 2 * pairs < Ram!Size
      BY <1>1, <3>1, CommandsInFile
    <3> HIDE DEF at
    <3>3. QED
      BY <1>1, <1>2, <3>2, SizeIsNat
  <2>3. QED
    BY <1>1, <2>1, <2>2
<1> HIDE DEF at
<1>4. Ram!Size - at \in Nat /\ Ram!Size + (Ram!Size - at) \in Nat /\ 0 + (Ram!Size - at) \in Nat
  BY <1>2, <1>3, SizeIsNat
<1>5. QED
  BY <1>4 DEF Left, at

\* A command that is neither a delay nor the end.
LEMMA CommandReads ==
    ASSUME ZsmInv, update = "command", Command # 128
    PROVE  \E token : \E k \in 0 .. Len(tune.tokens) :
               /\ Reads(token, k) /\ token.op \in {"psg", "fm", "delay", "ext"}
               /\ k # Len(tune.tokens) /\ Ram!Position(g_ram_bank) = Offset(tune, k)
<1>1. tune \in Tunes /\ g_ram_bank \in Pointers
        /\ Ram!Position(g_ram_bank) \in CommandOffsets(tune)
  BY AtCommand
<1>2. PICK k \in 0 .. Len(tune.tokens) : Ram!Position(g_ram_bank) = Offset(tune, k)
  BY <1>1 DEF CommandOffsets
<1>3. k # Len(tune.tokens)
  BY <1>1, <1>2, AtEnd
<1>4. Reads(tune.tokens[k + 1], k)
  BY <1>1, <1>2, <1>3, AtToken
<1>5. tune.tokens[k + 1].op \in {"psg", "fm", "delay", "ext"}
  BY <1>4, TokenFields DEF Reads
<1>6. QED
  BY <1>2, <1>3, <1>4, <1>5

\* Past it the same delays are ahead, and less of the file.
LEMMA LessIsLeft ==
    ASSUME ZsmInv, update = "command", ~(Command > 128), tune' = tune,
           NEW k \in 0 .. Len(tune.tokens), k # Len(tune.tokens),
           Ram!Position(g_ram_bank) = Offset(tune, k), Upcoming' = Offset(tune, k + 1),
           Ram!Position(g_ram_bank') \in Nat,
           Ram!Position(g_ram_bank') > Offset(tune, k)
    PROVE  Left' < Left
<1> DEFINE at   == Ram!Position(g_ram_bank)
           next == Ram!Position(g_ram_bank')
<1>1. tune \in Tunes /\ Offset(tune, k) \in Nat
  BY AtCommand, OffsetIs
<1>2. Upcoming = Offset(tune, k)
  BY <1>1 DEF Upcoming
<1>3. DelayAhead => DelayAhead'
  <2> SUFFICES ASSUME NEW offset \in CommandOffsets(tune), offset >= Upcoming,
                      Byte(tune, offset) > 128
               PROVE  DelayAhead'
    BY DEF DelayAhead
  <2>1. Byte(tune, Offset(tune, k)) = Command
    BY DEF Command, ByteAt
  <2>2. offset # Offset(tune, k)
    BY <2>1
  <2>3. offset \in Nat
    BY <1>1, CommandsInFile
  <2>4. offset > Offset(tune, k)
    BY <1>1, <1>2, <2>2, <2>3
  <2>5. offset >= Upcoming'
    BY <1>1, <2>4, CommandsApart
  <2>6. QED
    BY <2>5 DEF DelayAhead
<1>4. Left = (IF DelayAhead THEN 0 ELSE Ram!Size) + (Ram!Size - at)
      /\ Left' = (IF DelayAhead' THEN 0 ELSE Ram!Size) + (Ram!Size - next)
  BY DEF Left, Ram!Size
<1>5. at \in Nat /\ next \in Nat /\ next > at
  BY <1>1
<1> HIDE DEF at, next
<1>6. QED
  BY ONLY <1>3, <1>4, <1>5, SizeIsNat

LEMMA SkipExtensionLess == ASSUME ZsmInv, SkipExtension PROVE Left' < Left
<1> DEFINE data == Ram!UpdatePos(Operand)
           n    == ByteAt(Operand) % 64
<1>1. update = "command" /\ Command = 64 /\ tune' = tune
        /\ g_ram_bank' = Ram!SeekCurrent(data, n)
  BY DEF SkipExtension, setup
<1>2. PICK token : \E k \in 0 .. Len(tune.tokens) :
               /\ Reads(token, k) /\ token.op \in {"psg", "fm", "delay", "ext"}
               /\ k # Len(tune.tokens) /\ Ram!Position(g_ram_bank) = Offset(tune, k)
  BY <1>1, CommandReads
<1>3. PICK k \in 0 .. Len(tune.tokens) :
               /\ Reads(token, k) /\ token.op \in {"psg", "fm", "delay", "ext"}
               /\ k # Len(tune.tokens) /\ Ram!Position(g_ram_bank) = Offset(tune, k)
  BY <1>2
<1> DEFINE at == Offset(tune, k)
           m  == Len(token.payload)
<1>4. token.op = "ext" /\ token \in Tokens
  BY <1>1, <1>3, CommandTells
<1>5. /\ k + 1 \in 0 .. Len(tune.tokens) /\ Operand \in Pointers
      /\ Ram!Position(Operand) = at + 1
      /\ ByteAt(Operand) = 64 + m /\ Offset(tune, k + 1) = at + 2 + m
  BY <1>3, <1>4 DEF Reads
<1>6. m \in 0 .. 63
  BY <1>4, TokenFields
<1>7. tune \in Tunes
  BY <1>1, AtCommand
<1>8. at \in Nat /\ at + 2 + m < Ram!Size
  BY <1>5, <1>7, OffsetIs
<1>9. n = m
  <2> HIDE DEF m
  <2>1. (64 + m) % 64 = m
    BY ONLY <1>6
  <2>2. QED
    BY <1>5, <2>1
<1> HIDE DEF m, n, at
<1>10. at + 1 < Ram!Size
  BY ONLY <1>6, <1>8, SizeIsNat
<1>11. data \in Pointers /\ Ram!Position(data) = (at + 1) + 1
  BY <1>5, <1>10, OneFurther
<1> HIDE DEF data
<1>12. m \in Nat /\ (at + 1) + 1 + m = at + 2 + m /\ at + 2 + m > at /\ at + 2 + m \in Nat
  BY ONLY <1>6, <1>8
<1>13. Ram!Position(g_ram_bank') = at + 2 + m
  BY <1>1, <1>8, <1>9, <1>11, <1>12, SkipArrives
<1>14. update' # "pairs"
  BY DEF SkipExtension, Resume
<1>15. Upcoming' = at + 2 + m
  <2>1. Upcoming' = Ram!Position(g_ram_bank') + 0
    BY <1>14 DEF Upcoming, Ram!Position
  <2>2. QED
    BY <1>12, <1>13, <2>1
<1>16. ~(Command > 128)
  BY <1>1
<1>17. QED
  BY <1>1, <1>3, <1>5, <1>12, <1>13, <1>15, <1>16, LessIsLeft DEF at

LEMMA WritePsgLess == ASSUME ZsmInv, WritePsg PROVE Left' < Left
<1>1. update = "command" /\ Command < 64 /\ tune' = tune
        /\ g_ram_bank' = Ram!UpdatePos(Operand)
  BY DEF WritePsg, setup
<1>2. tune \in Tunes /\ Command \in 0 .. 255
  BY <1>1, AtCommand, CommandLeadsOn
<1>3. Command # 128 /\ ~(Command > 128)
  BY <1>1, <1>2
<1>4. PICK token : \E k \in 0 .. Len(tune.tokens) :
               /\ Reads(token, k) /\ token.op \in {"psg", "fm", "delay", "ext"}
               /\ k # Len(tune.tokens) /\ Ram!Position(g_ram_bank) = Offset(tune, k)
  BY <1>1, <1>3, CommandReads
<1>5. PICK k \in 0 .. Len(tune.tokens) :
               /\ Reads(token, k) /\ token.op \in {"psg", "fm", "delay", "ext"}
               /\ k # Len(tune.tokens) /\ Ram!Position(g_ram_bank) = Offset(tune, k)
  BY <1>4
<1> DEFINE at == Offset(tune, k)
<1>6. token.op = "psg"
  BY <1>1, <1>5, CommandTells
<1>7. /\ k + 1 \in 0 .. Len(tune.tokens) /\ Operand \in Pointers
      /\ Ram!Position(Operand) = at + 1 /\ Offset(tune, k + 1) = at + 2
  BY <1>5, <1>6 DEF Reads
<1>8. at \in Nat /\ at + 2 < Ram!Size
  BY <1>2, <1>7, OffsetIs
<1> HIDE DEF at
<1>9. at + 1 < Ram!Size /\ (at + 1) + 1 = at + 2 /\ at + 2 > at /\ at + 2 \in Nat
  BY ONLY <1>8, SizeIsNat
<1>10. Ram!Position(g_ram_bank') = at + 2
  BY <1>1, <1>7, <1>9, OneFurther
<1>11. update' # "pairs"
  BY DEF WritePsg, Resume
<1>12. Upcoming' = at + 2
  <2>1. Upcoming' = Ram!Position(g_ram_bank') + 0
    BY <1>11 DEF Upcoming, Ram!Position
  <2>2. QED
    BY <1>9, <1>10, <2>1
<1>13. QED
  BY <1>1, <1>3, <1>5, <1>7, <1>9, <1>10, <1>12, LessIsLeft DEF at

LEMMA StartFmLess == ASSUME ZsmInv, StartFm PROVE Left' < Left
<1>1. update = "command" /\ Command \in 65 .. 127 /\ tune' = tune /\ update' = "pairs"
        /\ g_ram_bank' = Operand /\ pairs' = Command % 64
  BY DEF StartFm, setup
<1>2. tune \in Tunes /\ Command # 128 /\ ~(Command > 128)
  BY <1>1, AtCommand
<1>3. PICK token : \E k \in 0 .. Len(tune.tokens) :
               /\ Reads(token, k) /\ token.op \in {"psg", "fm", "delay", "ext"}
               /\ k # Len(tune.tokens) /\ Ram!Position(g_ram_bank) = Offset(tune, k)
  BY <1>1, <1>2, CommandReads
<1>4. PICK k \in 0 .. Len(tune.tokens) :
               /\ Reads(token, k) /\ token.op \in {"psg", "fm", "delay", "ext"}
               /\ k # Len(tune.tokens) /\ Ram!Position(g_ram_bank) = Offset(tune, k)
  BY <1>3
<1> DEFINE at == Offset(tune, k)
           n  == Len(token.pairs)
           c  == Command
<1>5. token.op = "fm" /\ token \in Tokens
  BY <1>1, <1>4, CommandTells
<1>6. /\ k + 1 \in 0 .. Len(tune.tokens) /\ Ram!Position(Operand) = at + 1
      /\ c = 64 + n /\ Offset(tune, k + 1) = at + 1 + 2 * n
  BY <1>4, <1>5 DEF Reads
<1>7. n \in 1 .. 63 /\ at \in Nat
  BY <1>2, <1>5, TokenFields, OffsetIs
<1>8. pairs' = c % 64 /\ Ram!Position(g_ram_bank') = at + 1
  BY <1>1, <1>6
<1> HIDE DEF at, n, c
<1>9. pairs' = n /\ at + 1 \in Nat /\ at + 1 > at
  BY ONLY <1>6, <1>7, <1>8
<1>10. Upcoming' = at + 1 + 2 * n
  <2>1. Upcoming' = Ram!Position(g_ram_bank') + 2 * pairs'
    BY <1>1 DEF Upcoming, Ram!Position
  <2>2. QED
    BY <1>8, <1>9, <2>1
<1>11. QED
  BY <1>1, <1>2, <1>4, <1>6, <1>8, <1>9, <1>10, LessIsLeft DEF at

LEMMA WriteFmPairLess == ASSUME ZsmInv, WriteFmPair PROVE Left' < Left
<1> DEFINE at   == Ram!Position(g_ram_bank)
           next == Ram!Position(g_ram_bank')
<1>1. /\ update = "pairs" /\ tune' = tune /\ pairs' = pairs - 1
      /\ g_ram_bank' = Ram!UpdatePos(Operand)
      /\ update' = "idle" \/ update' = IF pairs' = 0 THEN "command" ELSE "pairs"
  BY DEF WriteFmPair, setup, Resume
<1>2. /\ tune \in Tunes /\ g_ram_bank \in Pointers /\ pairs \in 1 .. 63
      /\ at + 2 * pairs \in CommandOffsets(tune)
      /\ g_play_stream /\ g_delay_ticks = 0
  BY <1>1 DEF ZsmInv, TypeOK, PointerInv, Pointers
<1>3. update' = IF pairs' = 0 THEN "command" ELSE "pairs"
  BY <1>2 DEF WriteFmPair, Resume
<1>4. at \in Nat /\ at + 2 * pairs < Ram!Size
  BY <1>2, PointerInside, CommandsInFile
<1> HIDE DEF at
<1>5. at < Ram!Size /\ at + 1 < Ram!Size
  BY <1>2, <1>4, SizeIsNat
<1>6. Operand \in Pointers /\ Ram!Position(Operand) = at + 1
  BY <1>2, <1>5, OneFurther DEF Operand, at
<1>7. next = (at + 1) + 1
  BY <1>1, <1>5, <1>6, OneFurther
<1> HIDE DEF next
<1>8. next + (IF update' = "pairs" THEN 2 * pairs' ELSE 0) = at + 2 * pairs
  <2>1. CASE pairs' = 0
    <3>1. next + 0 = at + 2 * pairs
      BY <1>1, <1>2, <1>4, <1>7, <2>1
    <3>2. QED
      BY <1>3, <2>1, <3>1
  <2>2. CASE pairs' # 0
    <3>1. next + 2 * pairs' = at + 2 * pairs
      BY <1>1, <1>2, <1>4, <1>7
    <3>2. QED
      BY <1>3, <2>2, <3>1
  <2>3. QED
    BY <2>1, <2>2
<1>9. Upcoming' = Upcoming
  <2>1. Upcoming = at + 2 * pairs
    BY <1>1 DEF Upcoming, at
  <2>2. Upcoming' = next + (IF update' = "pairs" THEN 2 * pairs' ELSE 0)
    BY DEF Upcoming, next, Ram!Position
  <2>3. QED
    BY <1>8, <2>1, <2>2
<1>10. DelayAhead' <=> DelayAhead
  BY <1>1, <1>9 DEF DelayAhead
<1>11. Left = (IF DelayAhead THEN 0 ELSE Ram!Size) + (Ram!Size - at)
       /\ Left' = (IF DelayAhead' THEN 0 ELSE Ram!Size) + (Ram!Size - next)
  BY DEF Left, at, next, Ram!Size, Ram!Position
<1>12. QED
  BY ONLY <1>4, <1>7, <1>10, <1>11, SizeIsNat

\* At the end of the file no delay is ahead; behind the loop there is one.
LEMMA TakeLoopLess == ASSUME ZsmInv, Waits(tune), TakeLoop PROVE Left' < Left
<1> DEFINE at   == Ram!Position(g_ram_bank)
           next == Ram!Position(g_ram_bank')
<1>1. /\ update = "command" /\ Command = 128 /\ tune' = tune /\ LoopPoint(tune) # 0
      /\ g_ram_bank' = Ram!SeekSet(LoopPoint(tune)) /\ update' # "pairs"
  BY DEF TakeLoop, setup, Resume
<1>2. tune \in Tunes /\ g_ram_bank \in Pointers /\ at \in CommandOffsets(tune)
  BY <1>1, AtCommand
<1>3. tune.loop # 0 /\ LoopPoint(tune) \in CommandOffsets(tune)
  BY <1>1, <1>2, CommandsInFile
<1>4. LoopPoint(tune) \in Nat /\ LoopPoint(tune) < Ram!Size /\ at \in Nat /\ at < Ram!Size
  BY <1>2, <1>3, CommandsInFile
<1>5. next = LoopPoint(tune)
  BY <1>1, <1>4, SeekArrives
<1>6. at = Offset(tune, Len(tune.tokens))
  <2>1. PICK k \in 0 .. Len(tune.tokens) : at = Offset(tune, k)
    BY <1>2 DEF CommandOffsets
  <2>2. k = Len(tune.tokens)
    <3> SUFFICES ASSUME k # Len(tune.tokens) PROVE FALSE
      OBVIOUS
    <3>1. PICK token : token = tune.tokens[k + 1]
      OBVIOUS
    <3>2. Reads(token, k)
      BY <1>2, <2>1, <3>1, AtToken
    <3>3. token.op \in {"psg", "fm", "delay", "ext"}
      BY <3>2, TokenFields DEF Reads
    <3>4. QED
      BY <1>1, <3>2, <3>3, CommandTells
  <2>3. QED
    BY <2>1, <2>2
<1>7. ~DelayAhead
  <2>1. Upcoming = at
    BY <1>1, <1>4 DEF Upcoming
  <2>2. QED
    BY <1>2, <1>6, <2>1, NothingBehindEnd DEF DelayAhead
<1>8. DelayAhead'
  <2>1. Upcoming' = next + 0
    BY <1>1 DEF Upcoming, Ram!Position
  <2>2. Upcoming' = LoopPoint(tune)
    BY <1>4, <1>5, <2>1
  <2>3. PICK offset \in CommandOffsets(tune) :
            offset >= LoopPoint(tune) /\ Byte(tune, offset) > 128
    BY <1>2, <1>3, DelayInLoop
  <2>4. QED
    BY <1>1, <2>2, <2>3 DEF DelayAhead
<1>9. Left = (IF DelayAhead THEN 0 ELSE Ram!Size) + (Ram!Size - at)
      /\ Left' = (IF DelayAhead' THEN 0 ELSE Ram!Size) + (Ram!Size - next)
  BY DEF Left, Ram!Size, Ram!Position
<1> HIDE DEF at, next
<1>10. QED
  BY ONLY <1>4, <1>5, <1>7, <1>8, <1>9, SizeIsNat

\* A delay and the end of the stream end the update.
LEMMA UpdateEnds == ASSUME ZsmInv, WaitTicks \/ EndStream PROVE update' = "idle"
<1>1. CASE WaitTicks
  <2>1. update = "command" /\ Command > 128 /\ g_delay_ticks' = Command % 128
          /\ Resume("command")
    BY <1>1 DEF WaitTicks
  <2>2. Command # 128 /\ ~(Command < 64) /\ Command # 64 /\ Command \notin 65 .. 127
    BY <2>1, AtCommand, CommandLeadsOn
  <2>3. PICK token : \E k \in 0 .. Len(tune.tokens) :
               Reads(token, k) /\ token.op \in {"psg", "fm", "delay", "ext"}
    BY <2>1, <2>2, CommandReads
  <2>4. token.op = "delay" /\ token \in Tokens /\ Command = 128 + token.ticks
    BY <2>1, <2>3, CommandTells DEF Reads
  <2> DEFINE n == token.ticks
             c == Command
  <2>5. n \in 1 .. 127 /\ c = 128 + n
    BY <2>4, TokenFields
  <2> HIDE DEF n, c
  <2>6. c % 128 = n /\ n # 0
    BY ONLY <2>5
  <2>7. g_delay_ticks' # 0
    BY <2>1, <2>6 DEF c
  <2>8. QED
    BY <2>1, <2>7 DEF Resume
<1>2. CASE EndStream
  <2>1. g_play_stream' = FALSE /\ Resume("command")
    BY <1>2 DEF EndStream
  <2>2. QED
    BY ONLY <2>1 DEF Resume
<1>3. QED
  BY <1>1, <1>2

\* Every step of zsm_update either ends the update or leaves less to decode, and what
\* is left is a natural number: however long the tune, and repeated forever too,
\* the handler comes back, if its loop waits.  The run zsm_play checks UpdateReturns
\* on small tunes.
THEOREM ZsmUpdateEnds ==
    ASSUME \A t \in Tunes : Waits(t)
    PROVE  Spec => /\ [](update # "idle" => Left \in Nat)
                   /\ [][Execute => update' = "idle" \/ Left' < Left]_vars
<1>1. ZsmInv => (update # "idle" => Left \in Nat)
  BY LeftIsNat
<1>2. ZsmInv /\ [Next]_vars => [Execute => update' = "idle" \/ Left' < Left]_vars
  <2> SUFFICES ASSUME ZsmInv, Execute PROVE update' = "idle" \/ Left' < Left
    OBVIOUS
  <2>1. Waits(tune)
    BY PlaceSetting
  <2>2. QED
    BY <2>1, SkipExtensionLess, TakeLoopLess, WritePsgLess, StartFmLess, WriteFmPairLess,
       UpdateEnds DEF Execute
<1>3. QED
  BY <1>1, <1>2, ZsmAlways, PTL DEF Spec

=============================================================================
