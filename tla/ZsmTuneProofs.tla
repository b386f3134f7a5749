--------------------------- MODULE ZsmTuneProofs ---------------------------
(***************************************************************************)
(* What the recursive functions of ZsmTune compute, for every tune: where  *)
(* the bytes of a token are in the file, on which tick a token is due, and *)
(* that the writes up to a place come before those that follow.  Each of   *)
(* these is an induction over the tokens or the rounds; it is done with    *)
(* sets of numbers: one that holds 0 and with n also n + 1 is all of Nat.  *)
(***************************************************************************)
EXTENDS ZsmTune, Integers, SequenceTheorems, WellFoundedInduction, TLAPS

-----------------------------------------------------------------------------
(***************************************************************************)
(* Induction and recursion.                                                *)
(***************************************************************************)
Below == {pair \in Nat \X Nat : pair[1] < pair[2]}

LEMMA BelowWellFounded == IsWellFoundedOn(Below, Nat)
BY NatLessThanWellFounded DEF OpToRel, Below

LEMMA LeastElement ==
    ASSUME NEW T, T \subseteq Nat, T # {}
    PROVE  \E x \in T : \A y \in T : x <= y
<1>1. PICK x \in T : \A y \in T : ~(<<y, x>> \in Below)
  BY BelowWellFounded, WFMin
<1>2. ASSUME NEW y \in T PROVE x <= y
  <2>1. x \in Nat /\ y \in Nat
    OBVIOUS
  <2>2. y < x => <<y, x>> \in Below
    BY <2>1 DEF Below
  <2>3. QED
    BY <1>1, <2>1, <2>2
<1>3. QED
  BY <1>2

LEMMA SetInduction ==
    ASSUME NEW T, T \subseteq Nat, 0 \in T, \A n \in T : n + 1 \in T
    PROVE  T = Nat
<1> DEFINE U == Nat \ T
<1>1. SUFFICES ASSUME U # {} PROVE FALSE
  OBVIOUS
<1>2. PICK x \in U : \A y \in U : x <= y
  <2>1. U \subseteq Nat
    OBVIOUS
  <2> HIDE DEF U
  <2>2. QED
    BY <1>1, <2>1, LeastElement
<1>3. x # 0 /\ x \in Nat /\ x - 1 \in Nat
  BY <1>2
<1>4. x - 1 \in T
  BY <1>2, <1>3
<1>5. (x - 1) + 1 \in T
  BY <1>4
<1>6. QED
  BY <1>2, <1>3, <1>5

\* The function on m .. n that starts with b and takes each value from the one
\* before it by F exists.
Unrolls(g, S, b, m, n, F) ==
    /\ g \in [m .. n -> S]
    /\ g[m] = b
    /\ \A i \in m + 1 .. n : g[i] = F[<<g[i - 1], i>>]

LEMMA Recursion ==
    ASSUME NEW S, NEW b \in S, NEW m \in Nat, NEW n \in Nat, m <= n,
           NEW F \in [S \X (m + 1 .. n) -> S]
    PROVE  \E g : Unrolls(g, S, b, m, n, F)
<1> DEFINE Good(g, k) == g \in [m .. k -> S] /\ g[m] = b
                         /\ \A i \in m + 1 .. k : g[i] = F[<<g[i - 1], i>>]
           T == {d \in Nat : m + d <= n => \E g : Good(g, m + d)}
<1>1. 0 \in T
  <2>1. Good([i \in m .. m |-> b], m)
    OBVIOUS
  <2>2. m + 0 = m
    OBVIOUS
  <2>3. QED
    BY <2>1, <2>2
<1>2. ASSUME NEW d \in T PROVE d + 1 \in T
  <2>1. SUFFICES ASSUME m + (d + 1) <= n PROVE \E g : Good(g, m + (d + 1))
    OBVIOUS
  <2>2. d \in Nat /\ m + d <= n
    BY <2>1
  <2>3. PICK g : Good(g, m + d)
    BY <2>2
  <2> DEFINE k == m + (d + 1)
             h == [i \in m .. k |-> IF i <= m + d THEN g[i] ELSE F[<<g[m + d], k>>]]
  <2>4. k \in m + 1 .. n /\ k - 1 = m + d
    BY <2>1, <2>2
  <2>5. F[<<g[m + d], k>>] \in S
    BY <2>2, <2>3, <2>4
  <2>6. h \in [m .. k -> S]
    BY <2>2, <2>3, <2>5
  <2>7. h[m] = b
    BY <2>2, <2>3
  <2>8. ASSUME NEW i \in m + 1 .. k PROVE h[i] = F[<<h[i - 1], i>>]
    <3>1. CASE i = k
      <4>1. h[k] = F[<<g[m + d], k>>]
        BY <2>2
      <4>2. h[k - 1] = g[m + d]
        BY <2>2, <2>4
      <4>3. QED
        BY <3>1, <4>1, <4>2
    <3>2. CASE i # k
      <4>1. i \in m + 1 .. m + d /\ i - 1 \in m .. m + d
        BY <2>2, <3>2
      <4>2. h[i] = g[i] /\ h[i - 1] = g[i - 1]
        BY <2>2, <4>1
      <4>3. QED
        BY <2>3, <4>1, <4>2
    <3>3. QED
      BY <3>1, <3>2
  <2>9. Good(h, k)
    BY <2>6, <2>7, <2>8
  <2>10. QED
    BY <2>9
<1>3. T = Nat
  <2>1. T \subseteq Nat
    OBVIOUS
  <2> HIDE DEF T
  <2>2. QED
    BY <1>1, <1>2, <2>1, SetInduction
<1>4. n - m \in Nat /\ m + (n - m) = n
  OBVIOUS
<1>5. n - m \in T
  BY <1>3, <1>4
<1>6. \E g : Good(g, n)
  <2>1. m + (n - m) <= n => \E g : Good(g, m + (n - m))
    BY <1>5
  <2>2. QED
    BY <1>4, <2>1
<1>7. QED
  BY <1>6 DEF Unrolls

\* One that follows F as long as its values are in S has all of them there.
Follows(h, S, b, m, n, F) ==
    /\ h[m] = b
    /\ \A i \in m + 1 .. n : h[i - 1] \in S => h[i] = F[<<h[i - 1], i>>]

LEMMA RecursionTyped ==
    ASSUME NEW S, NEW b \in S, NEW m \in Nat, NEW n \in Nat,
           NEW F \in [S \X (m + 1 .. n) -> S],
           NEW h, Follows(h, S, b, m, n, F)
    PROVE  \A i \in m .. n : h[i] \in S
<1> DEFINE T == {d \in Nat : m + d <= n => h[m + d] \in S}
<1>1. 0 \in T
  BY DEF Follows
<1>2. ASSUME NEW d \in T PROVE d + 1 \in T
  <2>1. SUFFICES ASSUME m + (d + 1) <= n PROVE h[m + (d + 1)] \in S
    OBVIOUS
  <2> DEFINE k == m + (d + 1)
  <2>2. d \in Nat /\ k \in m + 1 .. n /\ k - 1 = m + d /\ m + d <= n
    BY <2>1
  <2>3. h[k - 1] \in S
    BY <2>2
  <2>4. h[k] = F[<<h[k - 1], k>>]
    BY <2>2, <2>3 DEF Follows
  <2>5. QED
    BY <2>2, <2>3, <2>4
<1>3. T = Nat
  <2>1. T \subseteq Nat
    OBVIOUS
  <2> HIDE DEF T
  <2>2. QED
    BY <1>1, <1>2, <2>1, SetInduction
<1>4. ASSUME NEW i \in m .. n PROVE h[i] \in S
  <2>1. i - m \in Nat /\ m + (i - m) = i /\ i <= n
    OBVIOUS
  <2>2. i - m \in T
    BY <1>3, <2>1
  <2>3. m + (i - m) <= n => h[m + (i - m)] \in S
    BY <2>2
  <2>4. QED
    BY <2>1, <2>3
<1>5. QED
  BY <1>4

-----------------------------------------------------------------------------
(***************************************************************************)
(* Bytes.                                                                  *)
(***************************************************************************)
LEMMA TokenFields ==
    ASSUME NEW token \in Tokens
    PROVE  /\ token.op \in {"psg", "fm", "delay", "ext"}
           /\ token.op = "psg" => token.address \in 0 .. 63 /\ token.data \in Octets
           /\ token.op = "fm" => /\ token.pairs \in Seq(Octets \X Octets)
                                 /\ Len(token.pairs) \in 1 .. 63
           /\ token.op = "delay" => token.ticks \in 1 .. 127
           /\ token.op = "ext" => token.payload \in Seq(Octets) /\ Len(token.payload) \in 0 .. 63
BY DEF Tokens

LEMMA OctetSequences ==
    ASSUME NEW x \in Octets, NEW y \in Octets
    PROVE  /\ <<x>> \in Seq(Octets) /\ Len(<<x>>) = 1
           /\ <<x, y>> \in Seq(Octets) /\ Len(<<x, y>>) = 2
OBVIOUS

LEMMA CommandOctets ==
    ASSUME NEW n \in 0 .. 63
    PROVE  n \in Octets /\ 64 + n \in Octets
BY DEF Octets

LEMMA BytesOfToken ==
    ASSUME NEW token \in Tokens
    PROVE  Bytes(token) \in Seq(Octets) /\ Len(Bytes(token)) \in Nat \ {0}
<1>1. CASE token.op = "psg"
  <2>1. Bytes(token) = <<token.address, token.data>>
    BY <1>1 DEF Bytes
  <2>2. QED
    <3>1. token.address \in 0 .. 63 /\ token.data \in Octets
      BY <1>1, TokenFields
    <3>2. token.address \in Octets
      BY <3>1 DEF Octets
    <3>3. QED
      BY <2>1, <3>1, <3>2, OctetSequences
<1>2. CASE token.op = "delay"
  <2>1. Bytes(token) = <<128 + token.ticks>>
    BY <1>2 DEF Bytes
  <2>2. QED
    <3>1. token.ticks \in 1 .. 127
      BY <1>2, TokenFields
    <3>2. 128 + token.ticks \in Octets
      BY <3>1 DEF Octets
    <3>3. QED
      BY <2>1, <3>2, OctetSequences
<1>3. CASE token.op = "ext"
  <2>1. Bytes(token) = <<64, 64 + Len(token.payload)>> \o token.payload
    BY <1>3 DEF Bytes
  <2>2. <<64, 64 + Len(token.payload)>> \in Seq(Octets)
    <3>1. Len(token.payload) \in 0 .. 63
      BY <1>3, TokenFields
    <3>2. 64 + Len(token.payload) \in Octets
      BY <3>1, CommandOctets
    <3>3. 64 \in Octets
      BY DEF Octets
    <3>4. QED
      BY <3>2, <3>3, OctetSequences
  <2>3. QED
    BY <1>3, <2>1, <2>2, TokenFields
<1>4. CASE token.op = "fm"
  <2> DEFINE tail == [i \in 1 .. 2 * Len(token.pairs) |->
                         token.pairs[(i + 1) \div 2][2 - (i % 2)]]
  <2>1. Bytes(token) = <<64 + Len(token.pairs)>> \o tail
    BY <1>4 DEF Bytes
  <2>2. token.pairs \in Seq(Octets \X Octets) /\ Len(token.pairs) \in 1 .. 63
    BY <1>4, TokenFields
  <2>3. ASSUME NEW i \in 1 .. 2 * Len(token.pairs)
        PROVE  token.pairs[(i + 1) \div 2][2 - (i % 2)] \in Octets
    <3>1. (i + 1) \div 2 \in 1 .. Len(token.pairs)
      BY <2>2
    <3>2. token.pairs[(i + 1) \div 2] \in Octets \X Octets
      BY <2>2, <3>1, ElementOfSeq
    <3>3. 2 - (i % 2) \in {1, 2}
      BY <2>2
    <3>4. QED
      BY <3>2, <3>3
  <2>4. tail \in Seq(Octets)
    BY <2>2, <2>3
  <2>5. <<64 + Len(token.pairs)>> \in Seq(Octets)
    <3>1. Len(token.pairs) \in 0 .. 63
      BY <2>2
    <3>2. 64 + Len(token.pairs) \in Octets
      BY <3>1, CommandOctets
    <3>3. QED
      BY <3>2, OctetSequences
  <2>6. QED
    <3> HIDE DEF tail
    <3>1. QED
      BY <2>1, <2>4, <2>5
<1>5. QED
  BY <1>1, <1>2, <1>3, <1>4, TokenFields

\* What the bytes of a token are.
LEMMA PsgBytes ==
    ASSUME NEW token \in Tokens, token.op = "psg"
    PROVE  /\ Len(Bytes(token)) = 2
           /\ Bytes(token)[1] = token.address /\ Bytes(token)[2] = token.data
<1>1. Bytes(token) = <<token.address, token.data>>
  BY DEF Bytes
<1>2. QED
  BY <1>1

LEMMA DelayBytes ==
    ASSUME NEW token \in Tokens, token.op = "delay"
    PROVE  Len(Bytes(token)) = 1 /\ Bytes(token)[1] = 128 + token.ticks
<1>1. Bytes(token) = <<128 + token.ticks>>
  BY DEF Bytes
<1>2. QED
  BY <1>1

LEMMA ExtensionBytes ==
    ASSUME NEW token \in Tokens, token.op = "ext"
    PROVE  /\ Len(Bytes(token)) = 2 + Len(token.payload)
           /\ Bytes(token)[1] = 64 /\ Bytes(token)[2] = 64 + Len(token.payload)
<1> DEFINE head == <<64, 64 + Len(token.payload)>>
<1>1. Bytes(token) = head \o token.payload
  BY DEF Bytes
<1>2. token.payload \in Seq(Octets) /\ Len(token.payload) \in 0 .. 63
  BY TokenFields
<1>3. 64 \in Octets /\ 64 + Len(token.payload) \in Octets
  <2>1. 64 + Len(token.payload) \in Octets
    BY <1>2, CommandOctets
  <2>2. QED
    BY <2>1 DEF Octets
<1>4. /\ head \in Seq(Octets) /\ Len(head) = 2
      /\ head[1] = 64 /\ head[2] = 64 + Len(token.payload)
  BY <1>3, OctetSequences
<1> DEFINE tail == token.payload
<1>5. tail \in Seq(Octets) /\ Len(tail) \in 0 .. 63 /\ Bytes(token) = head \o tail
  BY <1>1, <1>2
<1> HIDE DEF head, tail
<1>6. /\ Len(Bytes(token)) = Len(head) + Len(tail)
      /\ \A i \in 1 .. Len(head) + Len(tail) :
             Bytes(token)[i] = IF i <= Len(head) THEN head[i] ELSE tail[i - Len(head)]
  <2> DEFINE all == Bytes(token)
  <2>1. tail \in Seq(Octets) /\ head \in Seq(Octets) /\ all = head \o tail
    BY <1>4, <1>5
  <2> HIDE DEF all
  <2>2. /\ Len(all) = Len(head) + Len(tail)
        /\ \A i \in 1 .. Len(head) + Len(tail) :
               all[i] = IF i <= Len(head) THEN head[i] ELSE tail[i - Len(head)]
    BY <2>1, ConcatProperties
  <2>3. QED
    BY <2>2 DEF all
<1>7. 1 \in 1 .. Len(head) + Len(tail) /\ 2 \in 1 .. Len(head) + Len(tail)
  BY <1>4, <1>5
<1>8. Bytes(token)[1] = head[1] /\ Bytes(token)[2] = head[2]
  BY <1>4, <1>6, <1>7
<1>9. QED
  BY <1>4, <1>6, <1>8 DEF tail

LEMMA FmBytes ==
    ASSUME NEW token \in Tokens, token.op = "fm"
    PROVE  /\ Len(Bytes(token)) = 1 + 2 * Len(token.pairs)
           /\ Bytes(token)[1] = 64 + Len(token.pairs)
           /\ \A d \in 1 .. Len(token.pairs) :
                  /\ Bytes(token)[2 * d] = token.pairs[d][1]
                  /\ Bytes(token)[2 * d + 1] = token.pairs[d][2]
<1> DEFINE n    == Len(token.pairs)
           head == <<64 + n>>
           tail == [i \in 1 .. 2 * n |-> token.pairs[(i + 1) \div 2][2 - (i % 2)]]
<1>1. Bytes(token) = head \o tail
  BY DEF Bytes
<1>2. token.pairs \in Seq(Octets \X Octets) /\ n \in 1 .. 63
  BY TokenFields
<1>3. ASSUME NEW i \in 1 .. 2 * n
      PROVE  token.pairs[(i + 1) \div 2][2 - (i % 2)] \in Octets
  <2>1. (i + 1) \div 2 \in 1 .. n /\ 2 - (i % 2) \in {1, 2}
    BY <1>2
  <2>2. token.pairs[(i + 1) \div 2] \in Octets \X Octets
    BY <1>2, <2>1, ElementOfSeq
  <2>3. QED
    BY <2>1, <2>2
<1>4. tail \in Seq(Octets) /\ Len(tail) = 2 * n
  BY <1>2, <1>3
<1>5. head \in Seq(Octets) /\ Len(head) = 1 /\ head[1] = 64 + n
  <2>1. n \in 0 .. 63
    BY <1>2
  <2>2. 64 + n \in Octets
    BY <2>1, CommandOctets
  <2>3. QED
    BY <2>2, OctetSequences
<1>6. ASSUME NEW d \in 1 .. n
      PROVE  /\ 2 * d - 1 \in 1 .. 2 * n /\ 2 * d \in 1 .. 2 * n
             /\ tail[2 * d - 1] = token.pairs[d][1] /\ tail[2 * d] = token.pairs[d][2]
  <2> HIDE DEF n
  <2>1. n \in Nat /\ d \in Nat /\ d >= 1 /\ d <= n
    BY <1>2
  <2>2. /\ 2 * d - 1 \in 1 .. 2 * n /\ 2 * d \in 1 .. 2 * n
        /\ ((2 * d - 1) + 1) \div 2 = d /\ 2 - ((2 * d - 1) % 2) = 1
        /\ (2 * d + 1) \div 2 = d /\ 2 - ((2 * d) % 2) = 2
    BY <2>1
  <2>3. QED
    BY <2>2
<1> HIDE DEF head, tail
<1>7. /\ Len(Bytes(token)) = Len(head) + Len(tail)
      /\ \A i \in 1 .. Len(head) + Len(tail) :
             Bytes(token)[i] = IF i <= Len(head) THEN head[i] ELSE tail[i - Len(head)]
  BY <1>1, <1>4, <1>5, ConcatProperties, SMTT(30)
<1>8. Bytes(token)[1] = 64 + n
  <2> HIDE DEF n
  <2>1. 1 \in 1 .. Len(head) + Len(tail)
    BY <1>2, <1>4, <1>5
  <2>2. QED
    BY <1>5, <1>7, <2>1
<1>9. ASSUME NEW d \in 1 .. n
      PROVE  /\ Bytes(token)[2 * d] = token.pairs[d][1]
             /\ Bytes(token)[2 * d + 1] = token.pairs[d][2]
  <2> HIDE DEF n
  <2>1. /\ 2 * d \in 1 .. Len(head) + Len(tail) /\ 2 * d + 1 \in 1 .. Len(head) + Len(tail)
        /\ ~(2 * d <= Len(head)) /\ ~(2 * d + 1 <= Len(head))
        /\ 2 * d - Len(head) = 2 * d - 1 /\ (2 * d + 1) - Len(head) = 2 * d
    BY <1>2, <1>4, <1>5
  <2>2. Bytes(token)[2 * d] = tail[2 * d - 1] /\ Bytes(token)[2 * d + 1] = tail[2 * d]
    BY <1>7, <2>1
  <2>3. QED
    BY <1>6, <2>2
<1>10. Len(Bytes(token)) = 1 + 2 * n
  BY <1>4, <1>5, <1>7
<1>11. QED
  BY <1>8, <1>9, <1>10

\* The bytes of the first tokens, and of one more.
LEMMA EncodedIs ==
    ASSUME NEW tokens \in Seq(Tokens)
    PROVE  /\ \A i \in 0 .. Len(tokens) : Encoded(tokens)[i] \in Seq(Octets)
           /\ Encoded(tokens)[0] = <<>>
           /\ \A i \in 1 .. Len(tokens) :
                  Encoded(tokens)[i] = Encoded(tokens)[i - 1] \o Bytes(tokens[i])
<1> DEFINE m    == 0
           n    == Len(tokens)
           F    == [x \in Seq(Octets) \X (m + 1 .. n) |-> x[1] \o Bytes(tokens[x[2]])]
           E(f) == [i \in m .. n |-> IF i = m THEN <<>> ELSE f[i - 1] \o Bytes(tokens[i])]
           e    == Encoded(tokens)
<1>1. m \in Nat /\ n \in Nat /\ m <= n /\ <<>> \in Seq(Octets)
  OBVIOUS
<1>2. ASSUME NEW x \in Seq(Octets), NEW i \in m + 1 .. n
      PROVE  x \o Bytes(tokens[i]) \in Seq(Octets)
  <2>1. tokens[i] \in Tokens
    BY ElementOfSeq
  <2>2. QED
    BY <2>1, BytesOfToken
<1>3. F \in [Seq(Octets) \X (m + 1 .. n) -> Seq(Octets)]
  <2> HIDE DEF m, n
  <2>1. QED
    BY <1>2
<1>4. PICK g : Unrolls(g, Seq(Octets), <<>>, m, n, F)
  <2> HIDE DEF F, m, n
  <2>1. QED
    BY ONLY <1>1, <1>3, Recursion
<1>5. g = E(g)
  <2>1. ASSUME NEW i \in m .. n PROVE g[i] = E(g)[i]
    <3> HIDE DEF m, n
    <3>1. CASE i = m
      BY <1>4, <3>1 DEF Unrolls
    <3>2. CASE i # m
      <4>1. i \in m + 1 .. n /\ i - 1 \in m .. n
        BY <1>1, <3>2
      <4>2. F[<<g[i - 1], i>>] = g[i - 1] \o Bytes(tokens[i])
        BY <1>4, <4>1 DEF Unrolls
      <4>3. QED
        BY <1>4, <3>2, <4>1, <4>2 DEF Unrolls
    <3>3. QED
      BY <3>1, <3>2
  <2> HIDE DEF m, n
  <2>2. QED
    BY <1>4, <2>1 DEF Unrolls
<1>6. e = E(e)
  <2>1. e = CHOOSE f : f = E(f)
    BY DEF Encoded
  <2> HIDE DEF E
  <2>2. QED
    BY <1>5, <2>1
<1>7. \A i \in m .. n : e[i] = IF i = m THEN <<>> ELSE e[i - 1] \o Bytes(tokens[i])
  <2> HIDE DEF e, m, n
  <2>1. e = [i \in m .. n |-> IF i = m THEN <<>> ELSE e[i - 1] \o Bytes(tokens[i])]
    BY <1>6
  <2>2. QED
    BY ONLY <2>1
<1>8. e[m] = <<>>
  <2> HIDE DEF e, m, n
  <2>1. QED
    BY <1>1, <1>7
<1>9. ASSUME NEW i \in m + 1 .. n
      PROVE  e[i] = e[i - 1] \o Bytes(tokens[i])
  <2> HIDE DEF e, m, n
  <2>1. i \in m .. n /\ i # m
    BY <1>1
  <2>2. QED
    BY <1>7, <2>1
<1>10. Follows(e, Seq(Octets), <<>>, m, n, F)
  <2>1. ASSUME NEW i \in m + 1 .. n, e[i - 1] \in Seq(Octets)
        PROVE  e[i] = F[<<e[i - 1], i>>]
    <3> HIDE DEF e, m, n
    <3>1. F[<<e[i - 1], i>>] = e[i - 1] \o Bytes(tokens[i])
      BY <2>1
    <3>2. QED
      BY <1>9, <3>1
  <2> HIDE DEF e, m, n, F
  <2>2. QED
    BY <1>8, <2>1 DEF Follows
<1>11. \A i \in m .. n : e[i] \in Seq(Octets)
  <2> HIDE DEF e, m, n, F
  <2>1. QED
    BY ONLY <1>1, <1>3, <1>10, RecursionTyped
<1>12. ASSUME NEW i \in 1 .. n
       PROVE  e[i] = e[i - 1] \o Bytes(tokens[i])
  <2>1. i \in m + 1 .. n
    OBVIOUS
  <2> HIDE DEF e, m, n
  <2>2. QED
    BY <1>9, <2>1
<1>13. QED
  BY <1>8, <1>11, <1>12


\* The bytes of the first tokens start the encoding of all.
LEMMA EncodingGoesOn ==
    ASSUME NEW tokens \in Seq(Tokens), NEW i \in 0 .. Len(tokens)
    PROVE  \E rest \in Seq(Octets) : Encoding(tokens) = Encoded(tokens)[i] \o rest
<1> DEFINE n       == Len(tokens)
           e       == Encoded(tokens)
           Good(d) == \E rest \in Seq(Octets) : e[i + d] = e[i] \o rest
           T       == {d \in Nat : i + d <= n => Good(d)}
<1>1. n \in Nat /\ i \in 0 .. n
  BY LenProperties
<1>2. \A k \in 0 .. n : e[k] \in Seq(Octets)
  BY EncodedIs
<1>3. ASSUME NEW k \in 1 .. n
      PROVE  e[k] = e[k - 1] \o Bytes(tokens[k]) /\ Bytes(tokens[k]) \in Seq(Octets)
  <2>1. e[k] = e[k - 1] \o Bytes(tokens[k])
    BY EncodedIs
  <2>2. tokens[k] \in Tokens
    BY ElementOfSeq
  <2>3. QED
    BY <2>1, <2>2, BytesOfToken
<1>4. Encoding(tokens) = e[n]
  BY DEF Encoding
<1> HIDE DEF n, e
<1>5. 0 \in T
  <2>1. e[i] \o <<>> = e[i] /\ i + 0 = i /\ <<>> \in Seq(Octets)
    BY <1>1, <1>2, ConcatEmptySeq
  <2>2. QED
    BY <2>1
<1>6. ASSUME NEW d \in T PROVE d + 1 \in T
  <2>1. SUFFICES ASSUME i + (d + 1) <= n PROVE Good(d + 1)
    BY SMTT(30)
  <2>2. d \in Nat /\ i + (d + 1) \in 1 .. n /\ (i + (d + 1)) - 1 = i + d /\ Good(d)
    BY <1>1, <2>1, SMTT(30)
  <2>3. PICK rest \in Seq(Octets) : e[i + d] = e[i] \o rest
    BY <2>2
  <2> DEFINE more == Bytes(tokens[i + (d + 1)])
  <2>4. e[i + (d + 1)] = e[i + d] \o more /\ more \in Seq(Octets)
    BY <1>3, <2>2
  <2>5. e[i] \in Seq(Octets)
    BY <1>1, <1>2
  <2> HIDE DEF more
  <2> DEFINE first == e[i]
  <2> HIDE DEF first
  <2>6. (e[i] \o rest) \o more = e[i] \o (rest \o more)
    <3>1. first \in Seq(Octets) /\ more \in Seq(Octets)
      BY <2>4, <2>5 DEF first
    <3>2. (first \o rest) \o more = first \o (rest \o more)
      BY <3>1, ConcatAssociative
    <3>3. QED
      BY <3>2 DEF first
  <2>7. rest \o more \in Seq(Octets)
    BY <2>4, ConcatProperties
  <2>8. QED
    BY <2>3, <2>4, <2>6, <2>7
<1>7. T = Nat
  <2>1. T \subseteq Nat
    OBVIOUS
  <2> HIDE DEF T
  <2>2. QED
    BY <1>5, <1>6, <2>1, SetInduction
<1>8. n - i \in Nat /\ i + (n - i) = n
  BY <1>1
<1>9. n - i \in T
  BY <1>7, <1>8
<1>10. i + (n - i) <= n => \E rest \in Seq(Octets) : e[i + (n - i)] = e[i] \o rest
  BY <1>9
<1>11. QED
  BY <1>1, <1>4, <1>8, <1>10, SMTT(30) DEF e

LEMMA EncodingIsBytes ==
    ASSUME NEW tokens \in Seq(Tokens)
    PROVE  Encoding(tokens) \in Seq(Octets) /\ Len(Encoding(tokens)) \in Nat
<1>1. Len(tokens) \in 0 .. Len(tokens)
  BY LenProperties
<1>2. Encoded(tokens)[Len(tokens)] \in Seq(Octets)
  BY <1>1, EncodedIs
<1>3. QED
  BY <1>2, LenProperties DEF Encoding

\* Every token of a tune stands whole in its file, behind the bytes of the tokens
\* before it: what zsm_update reads at the offset of a command is that token.
LEMMA EncodingHasToken ==
    ASSUME NEW tokens \in Seq(Tokens), NEW i \in 0 .. Len(tokens), i # Len(tokens)
    PROVE  /\ Len(Encoded(tokens)[i]) \in Nat
           /\ Len(Encoded(tokens)[i + 1]) =
                  Len(Encoded(tokens)[i]) + Len(Bytes(tokens[i + 1]))
           /\ Len(Encoded(tokens)[i + 1]) <= Len(Encoding(tokens))
           /\ \A j \in 1 .. Len(Bytes(tokens[i + 1])) :
                  Encoding(tokens)[Len(Encoded(tokens)[i]) + j] = Bytes(tokens[i + 1])[j]
<1> DEFINE a == Encoded(tokens)[i]
           b == Bytes(tokens[i + 1])
           c == Encoded(tokens)[i + 1]
           e == Encoding(tokens)
<1>1. Len(tokens) \in Nat /\ i + 1 \in 1 .. Len(tokens) /\ i + 1 \in 0 .. Len(tokens)
        /\ (i + 1) - 1 = i
  BY LenProperties
<1>2. b \in Seq(Octets)
  BY <1>1, ElementOfSeq, BytesOfToken
<1>3. a \in Seq(Octets) /\ c \in Seq(Octets)
  BY <1>1, EncodedIs
<1>4. c = a \o b
  <2>1. c = Encoded(tokens)[(i + 1) - 1] \o b
    BY <1>1, EncodedIs
  <2>2. QED
    BY <1>1, <2>1
<1>5. PICK rest \in Seq(Octets) : e = c \o rest
  BY <1>1, EncodingGoesOn
<1> HIDE DEF a, b, c, e
<1>6. Len(a) \in Nat /\ Len(b) \in Nat /\ Len(rest) \in Nat /\ Len(c) = Len(a) + Len(b)
  BY <1>2, <1>3, <1>4, LenProperties, ConcatProperties
<1>7. Len(e) = Len(c) + Len(rest)
  BY <1>3, <1>5, ConcatProperties
<1>8. ASSUME NEW j \in 1 .. Len(b) PROVE e[Len(a) + j] = b[j]
  <2>1. Len(a) + j \in 1 .. Len(c) + Len(rest) /\ Len(a) + j <= Len(c)
        /\ Len(a) + j \in 1 .. Len(a) + Len(b) /\ ~(Len(a) + j <= Len(a))
        /\ (Len(a) + j) - Len(a) = j
    BY <1>6
  <2>2. e[Len(a) + j] = c[Len(a) + j]
    BY <1>3, <1>5, <2>1, ConcatProperties
  <2>3. c[Len(a) + j] = b[(Len(a) + j) - Len(a)]
    BY <1>2, <1>3, <1>4, <2>1, ConcatProperties
  <2>4. QED
    BY <2>1, <2>2, <2>3
<1>9. Len(c) <= Len(e)
  BY <1>6, <1>7
<1>10. QED
  BY <1>6, <1>8, <1>9 DEF a, b, c, e

-----------------------------------------------------------------------------
(***************************************************************************)
(* Ticks and writes.                                                       *)
(***************************************************************************)
Writes == [tick : Nat, chip : Chips, address : Octets, data : Octets]

LEMMA TicksOfToken ==
    ASSUME NEW token \in Tokens
    PROVE  Ticks(token) \in Nat /\ (token.op = "delay" => Ticks(token) >= 1)
<1>1. CASE token.op = "delay"
  <2>1. token.ticks \in 1 .. 127
    BY <1>1, TokenFields
  <2>2. Ticks(token) = token.ticks
    BY <1>1 DEF Ticks
  <2>3. QED
    BY <2>1, <2>2
<1>2. CASE token.op # "delay"
  BY <1>2 DEF Ticks
<1>3. QED
  BY <1>1, <1>2

\* The ticks the first tokens take, and one more.
LEMMA ElapsedIs ==
    ASSUME NEW tokens \in Seq(Tokens)
    PROVE  /\ \A i \in 0 .. Len(tokens) : Elapsed(tokens)[i] \in Nat
           /\ Elapsed(tokens)[0] = 0
           /\ \A i \in 1 .. Len(tokens) :
                  Elapsed(tokens)[i] = Elapsed(tokens)[i - 1] + Ticks(tokens[i])
<1> DEFINE m    == 0
           n    == Len(tokens)
           F    == [x \in Nat \X (m + 1 .. n) |-> x[1] + Ticks(tokens[x[2]])]
           E(f) == [i \in m .. n |-> IF i = m THEN 0 ELSE f[i - 1] + Ticks(tokens[i])]
           e    == Elapsed(tokens)
<1>1. m \in Nat /\ n \in Nat /\ m <= n /\ 0 \in Nat
  OBVIOUS
<1>2. ASSUME NEW x \in Nat, NEW i \in m + 1 .. n
      PROVE  x + Ticks(tokens[i]) \in Nat
  <2>1. tokens[i] \in Tokens
    BY ElementOfSeq
  <2>2. QED
    BY <2>1, TicksOfToken
<1>3. F \in [Nat \X (m + 1 .. n) -> Nat]
  <2> HIDE DEF m, n
  <2>1. QED
    BY <1>2
<1>4. PICK g : Unrolls(g, Nat, 0, m, n, F)
  <2> HIDE DEF F, m, n
  <2>1. QED
    BY ONLY <1>1, <1>3, Recursion
<1>5. g = E(g)
  <2>1. ASSUME NEW i \in m .. n PROVE g[i] = E(g)[i]
    <3> HIDE DEF m, n
    <3>1. CASE i = m
      BY <1>4, <3>1 DEF Unrolls
    <3>2. CASE i # m
      <4>1. i \in m + 1 .. n /\ i - 1 \in m .. n
        BY <1>1, <3>2
      <4>2. F[<<g[i - 1], i>>] = g[i - 1] + Ticks(tokens[i])
        BY <1>4, <4>1 DEF Unrolls
      <4>3. QED
        BY <1>4, <3>2, <4>1, <4>2 DEF Unrolls
    <3>3. QED
      BY <3>1, <3>2
  <2> HIDE DEF m, n
  <2>2. QED
    BY <1>4, <2>1 DEF Unrolls
<1>6. e = E(e)
  <2>1. e = CHOOSE f : f = E(f)
    BY DEF Elapsed
  <2> HIDE DEF E
  <2>2. QED
    BY <1>5, <2>1
<1>7. \A i \in m .. n : e[i] = IF i = m THEN 0 ELSE e[i - 1] + Ticks(tokens[i])
  <2> HIDE DEF e, m, n
  <2>1. e = [i \in m .. n |-> IF i = m THEN 0 ELSE e[i - 1] + Ticks(tokens[i])]
    BY <1>6
  <2>2. QED
    BY ONLY <2>1
<1>8. e[m] = 0
  <2> HIDE DEF e, m, n
  <2>1. QED
    BY <1>1, <1>7
<1>9. ASSUME NEW i \in m + 1 .. n
      PROVE  e[i] = e[i - 1] + Ticks(tokens[i])
  <2> HIDE DEF e, m, n
  <2>1. i \in m .. n /\ i # m
    BY <1>1
  <2>2. QED
    BY <1>7, <2>1
<1>10. Follows(e, Nat, 0, m, n, F)
  <2>1. ASSUME NEW i \in m + 1 .. n, e[i - 1] \in Nat
        PROVE  e[i] = F[<<e[i - 1], i>>]
    <3> HIDE DEF e, m, n
    <3>1. F[<<e[i - 1], i>>] = e[i - 1] + Ticks(tokens[i])
      BY <2>1
    <3>2. QED
      BY <1>9, <3>1
  <2> HIDE DEF e, m, n, F
  <2>2. QED
    BY <1>8, <2>1 DEF Follows
<1>11. \A i \in m .. n : e[i] \in Nat
  <2> HIDE DEF e, m, n, F
  <2>1. QED
    BY ONLY <1>1, <1>3, <1>10, RecursionTyped
<1>12. ASSUME NEW i \in 1 .. n
       PROVE  e[i] = e[i - 1] + Ticks(tokens[i])
  <2>1. i \in m + 1 .. n
    OBVIOUS
  <2> HIDE DEF e, m, n
  <2>2. QED
    BY <1>9, <2>1
<1>13. QED
  BY <1>8, <1>11, <1>12

LEMMA TuneFields ==
    ASSUME NEW t, IsTune(t)
    PROVE  /\ t.tokens \in Seq(Tokens) /\ Len(t.tokens) \in Nat
           /\ t.loop \in 0 .. Len(t.tokens)
           /\ \A i \in 1 .. Len(t.tokens) : t.tokens[i] \in Tokens
           /\ t.chips \subseteq Chips /\ t.tail \in Seq(Octets) /\ t.version \in Nat
<1>1. t.tokens \in Seq(Tokens) /\ t.loop \in Nat /\ t.loop <= Len(t.tokens)
      /\ t.chips \subseteq Chips /\ t.tail \in Seq(Octets) /\ t.version \in Nat
  BY DEF IsTune
<1>2. Len(t.tokens) \in Nat /\ \A i \in 1 .. Len(t.tokens) : t.tokens[i] \in Tokens
  BY <1>1, LenProperties, ElementOfSeq
<1>3. QED
  BY <1>1, <1>2

LEMMA SkippedTokens ==
    ASSUME NEW t, IsTune(t), NEW round \in Nat, round # 0 => t.loop # 0
    PROVE  /\ Skipped(t, round) \in 0 .. Len(t.tokens) /\ Len(t.tokens) \in Nat
           /\ round # 0 => Skipped(t, round) = t.loop - 1 /\ t.loop \in 1 .. Len(t.tokens)
           /\ round = 0 => Skipped(t, round) = 0
BY TuneFields DEF Skipped

\* Time does not run backwards.
LEMMA ElapsedGrows ==
    ASSUME NEW tokens \in Seq(Tokens), NEW i \in 0 .. Len(tokens), NEW j \in i .. Len(tokens)
    PROVE  Elapsed(tokens)[i] \in Nat /\ Elapsed(tokens)[j] \in Nat
           /\ Elapsed(tokens)[i] <= Elapsed(tokens)[j]
<1> DEFINE n == Len(tokens)
           e == Elapsed(tokens)
           T == {d \in Nat : i + d <= n => e[i] <= e[i + d]}
<1>1. n \in Nat /\ i \in Nat
  BY LenProperties
<1>2. \A k \in 0 .. n : e[k] \in Nat
  BY ElapsedIs
<1>3. ASSUME NEW k \in 1 .. n PROVE e[k - 1] <= e[k]
  <2>1. e[k] = e[k - 1] + Ticks(tokens[k])
    BY ElapsedIs
  <2>2. Ticks(tokens[k]) \in Nat
    BY ElementOfSeq, TicksOfToken
  <2>3. e[k - 1] \in Nat
    BY <1>1, <1>2
  <2> HIDE DEF e
  <2>4. QED
    BY <2>1, <2>2, <2>3
<1> HIDE DEF n, e
<1>4. 0 \in T
  BY <1>1, <1>2 DEF n
<1>5. ASSUME NEW d \in T PROVE d + 1 \in T
  <2>1. SUFFICES ASSUME i + (d + 1) <= n PROVE e[i] <= e[i + (d + 1)]
    OBVIOUS
  <2>2. d \in Nat /\ e[i] <= e[i + d] /\ i + (d + 1) \in 1 .. n /\ (i + (d + 1)) - 1 = i + d
    BY <1>1, <2>1
  <2>3. e[i + d] <= e[i + (d + 1)]
    BY <1>3, <2>2
  <2>4. i \in 0 .. n /\ i + d \in 0 .. n /\ i + (d + 1) \in 0 .. n
    BY <1>1, <2>1, <2>2
  <2>5. QED
    BY <1>2, <2>2, <2>3, <2>4
<1>6. T = Nat
  <2>1. T \subseteq Nat
    OBVIOUS
  <2> HIDE DEF T
  <2>2. QED
    BY <1>4, <1>5, <2>1, SetInduction
<1>7. j - i \in Nat /\ i + (j - i) = j /\ j <= n /\ i \in 0 .. n /\ j \in 0 .. n
  BY <1>1 DEF n
<1>8. j - i \in T
  BY <1>6, <1>7
<1>9. i + (j - i) <= n => e[i] <= e[i + (j - i)]
  BY <1>8
<1>10. QED
  BY <1>2, <1>7, <1>9 DEF e

LEMMA LoopTicksIsNat ==
    ASSUME NEW t, IsTune(t), t.loop # 0
    PROVE  /\ LoopTicks(t) \in Nat
           /\ Elapsed(t.tokens)[Len(t.tokens)] = Elapsed(t.tokens)[t.loop - 1] + LoopTicks(t)
           /\ Elapsed(t.tokens)[t.loop - 1] \in Nat
<1>1. t.tokens \in Seq(Tokens) /\ Len(t.tokens) \in Nat /\ t.loop \in 1 .. Len(t.tokens)
  BY TuneFields
<1>2. t.loop - 1 \in 0 .. Len(t.tokens) /\ Len(t.tokens) \in t.loop - 1 .. Len(t.tokens)
  BY <1>1
<1> DEFINE a == Elapsed(t.tokens)[t.loop - 1]
           b == Elapsed(t.tokens)[Len(t.tokens)]
<1>3. a \in Nat /\ b \in Nat /\ a <= b
  BY <1>1, <1>2, ElapsedGrows
<1>4. LoopTicks(t) = b - a
  BY DEF LoopTicks
<1> HIDE DEF a, b
<1>5. QED
  BY <1>3, <1>4 DEF a, b

LEMMA DueTickIsNat ==
    ASSUME NEW t, IsTune(t), NEW round \in Nat, round # 0 => t.loop # 0,
           NEW i \in 0 .. Len(t.tokens)
    PROVE  DueTick(t, round, i) \in Nat /\ DueTick(t, round, i) >= 1
<1> DEFINE a == Elapsed(t.tokens)[i]
           b == IF round = 0 THEN 0 ELSE round * LoopTicks(t)
<1>1. a \in Nat
  BY TuneFields, ElapsedIs
<1>2. b \in Nat
  <2>1. CASE round = 0
    BY <2>1
  <2>2. CASE round # 0
    BY <2>2, LoopTicksIsNat
  <2>3. QED
    BY <2>1, <2>2
<1>3. DueTick(t, round, i) = 1 + a + b
  BY DEF DueTick
<1> HIDE DEF a, b
<1>4. QED
  BY <1>1, <1>2, <1>3

LEMMA WritesOfToken ==
    ASSUME NEW token \in Tokens, NEW tick \in Nat, NEW present
    PROVE  /\ WritesOf(token, tick, present) \in Seq(Writes)
           /\ Len(WritesOf(token, tick, present)) \in Nat
           /\ \A i \in 1 .. Len(WritesOf(token, tick, present)) :
                  WritesOf(token, tick, present)[i].tick = tick
<1> DEFINE w == WritesOf(token, tick, present)
<1>1. CASE token.op = "psg" /\ "psg" \in present
  <2> DEFINE r == [tick |-> tick, chip |-> "psg", address |-> token.address,
                   data |-> token.data]
  <2>1. token.address \in 0 .. 63 /\ token.data \in Octets
    BY <1>1, TokenFields
  <2>2. token.address \in Octets /\ "psg" \in Chips
    BY <2>1 DEF Octets, Chips
  <2>3. r \in Writes /\ r.tick = tick
    BY <2>1, <2>2 DEF Writes
  <2>4. w = <<r>>
    BY <1>1 DEF WritesOf
  <2> HIDE DEF w, r
  <2>5. w \in Seq(Writes) /\ Len(w) = 1 /\ w[1] = r
    BY <2>3, <2>4
  <2>6. QED
    BY <2>3, <2>5 DEF w
<1>2. CASE token.op = "fm" /\ "ym" \in present
  <2> DEFINE n    == Len(token.pairs)
             r(i) == [tick |-> tick, chip |-> "ym",
                      address |-> token.pairs[i][1], data |-> token.pairs[i][2]]
  <2>1. token.pairs \in Seq(Octets \X Octets) /\ n \in Nat
    BY <1>2, TokenFields
  <2>2. ASSUME NEW i \in 1 .. n PROVE r(i) \in Writes /\ r(i).tick = tick
    <3>1. token.pairs[i] \in Octets \X Octets
      BY <2>1, ElementOfSeq
    <3>2. "ym" \in Chips
      BY DEF Chips
    <3>3. QED
      BY <3>1, <3>2 DEF Writes
  <2>3. w = [i \in 1 .. n |-> r(i)]
    BY <1>2 DEF WritesOf
  <2> HIDE DEF w, r, n
  <2>4. w \in Seq(Writes) /\ Len(w) = n /\ \A i \in 1 .. n : w[i] = r(i)
    BY <2>1, <2>2, <2>3
  <2>5. QED
    BY <2>1, <2>2, <2>4 DEF w
<1>3. CASE ~(token.op = "psg" /\ "psg" \in present) /\ ~(token.op = "fm" /\ "ym" \in present)
  <2>1. w = <<>>
    BY <1>3 DEF WritesOf
  <2> HIDE DEF w
  <2>2. w \in Seq(Writes) /\ Len(w) = 0
    BY <2>1
  <2>3. QED
    BY <2>2 DEF w
<1>4. QED
  BY <1>1, <1>2, <1>3

\* The writes of a round, token by token.
LEMMA RoundWritesIs ==
    ASSUME NEW t, IsTune(t), NEW round \in Nat, round # 0 => t.loop # 0, NEW present
    PROVE  /\ \A i \in Skipped(t, round) .. Len(t.tokens) :
                  RoundWrites(t, round, present)[i] \in Seq(Writes)
           /\ RoundWrites(t, round, present)[Skipped(t, round)] = <<>>
           /\ \A i \in Skipped(t, round) + 1 .. Len(t.tokens) :
                  RoundWrites(t, round, present)[i] =
                      RoundWrites(t, round, present)[i - 1]
                          \o WritesOf(t.tokens[i], DueTick(t, round, i - 1), present)
<1> DEFINE m    == Skipped(t, round)
           n    == Len(t.tokens)
           F    == [x \in Seq(Writes) \X (m + 1 .. n) |->
               x[1] \o WritesOf(t.tokens[x[2]], DueTick(t, round, x[2] - 1), present)]
           E(f) == [i \in m .. n |->
               IF i = m THEN <<>>
               ELSE f[i - 1] \o WritesOf(t.tokens[i], DueTick(t, round, i - 1), present)]
           e    == RoundWrites(t, round, present)
<1>1. m \in Nat /\ n \in Nat /\ m <= n /\ <<>> \in Seq(Writes)
  BY SkippedTokens
<1>2. ASSUME NEW x \in Seq(Writes), NEW i \in m + 1 .. n
      PROVE  x \o WritesOf(t.tokens[i], DueTick(t, round, i - 1), present) \in Seq(Writes)
  <2>1. t.tokens[i] \in Tokens
    BY <1>1, ElementOfSeq DEF IsTune
  <2>2. i - 1 \in 0 .. Len(t.tokens)
    BY <1>1
  <2>3. DueTick(t, round, i - 1) \in Nat
    BY <2>2, DueTickIsNat
  <2>4. QED
    BY <2>1, <2>3, WritesOfToken, ConcatProperties
<1>3. F \in [Seq(Writes) \X (m + 1 .. n) -> Seq(Writes)]
  <2> HIDE DEF m, n
  <2>1. QED
    BY <1>2
<1>4. PICK g : Unrolls(g, Seq(Writes), <<>>, m, n, F)
  <2> HIDE DEF F, m, n
  <2>1. QED
    BY ONLY <1>1, <1>3, Recursion
<1>5. g = E(g)
  <2>1. ASSUME NEW i \in m .. n PROVE g[i] = E(g)[i]
    <3> HIDE DEF m, n
    <3>1. CASE i = m
      BY <1>4, <3>1 DEF Unrolls
    <3>2. CASE i # m
      <4>1. i \in m + 1 .. n /\ i - 1 \in m .. n
        BY <1>1, <3>2
      <4>2. F[<<g[i - 1], i>>] =
                g[i - 1] \o WritesOf(t.tokens[i], DueTick(t, round, i - 1), present)
        BY <1>4, <4>1 DEF Unrolls
      <4>3. QED
        BY <1>4, <3>2, <4>1, <4>2 DEF Unrolls
    <3>3. QED
      BY <3>1, <3>2
  <2> HIDE DEF m, n
  <2>2. QED
    BY <1>4, <2>1 DEF Unrolls
<1>6. e = E(e)
  <2>1. e = CHOOSE f : f = E(f)
    BY DEF RoundWrites
  <2> HIDE DEF E
  <2>2. QED
    BY <1>5, <2>1
<1>7. \A i \in m .. n : e[i] =
          IF i = m THEN <<>>
          ELSE e[i - 1] \o WritesOf(t.tokens[i], DueTick(t, round, i - 1), present)
  <2> HIDE DEF e, m, n
  <2>1. e = [i \in m .. n |->
            IF i = m THEN <<>>
            ELSE e[i - 1] \o WritesOf(t.tokens[i], DueTick(t, round, i - 1), present)]
    BY <1>6
  <2>2. QED
    BY ONLY <2>1
<1>8. e[m] = <<>>
  <2> HIDE DEF e, m, n
  <2>1. QED
    BY <1>1, <1>7
<1>9. ASSUME NEW i \in m + 1 .. n
      PROVE  e[i] = e[i - 1] \o WritesOf(t.tokens[i], DueTick(t, round, i - 1), present)
  <2> HIDE DEF e, m, n
  <2>1. i \in m .. n /\ i # m
    BY <1>1
  <2>2. QED
    BY <1>7, <2>1
<1>10. Follows(e, Seq(Writes), <<>>, m, n, F)
  <2>1. ASSUME NEW i \in m + 1 .. n, e[i - 1] \in Seq(Writes)
        PROVE  e[i] = F[<<e[i - 1], i>>]
    <3> HIDE DEF e, m, n
    <3>1. F[<<e[i - 1], i>>] = e[i - 1] \o WritesOf(t.tokens[i], DueTick(t, round, i - 1), present)
      BY <2>1
    <3>2. QED
      BY <1>9, <3>1
  <2> HIDE DEF e, m, n, F
  <2>2. QED
    BY <1>8, <2>1 DEF Follows
<1>11. \A i \in m .. n : e[i] \in Seq(Writes)
  <2> HIDE DEF e, m, n, F
  <2>1. QED
    BY ONLY <1>1, <1>3, <1>10, RecursionTyped
<1>12. QED
  BY <1>8, <1>9, <1>11

LEMMA WholeRound ==
    ASSUME NEW t, IsTune(t), NEW round \in Nat, round # 0 => t.loop # 0, NEW present
    PROVE  RoundWrites(t, round, present)[Len(t.tokens)] \in Seq(Writes)
<1>1. Len(t.tokens) \in Skipped(t, round) .. Len(t.tokens)
  BY SkippedTokens
<1>2. QED
  BY <1>1, RoundWritesIs

\* The writes of the rounds, one by one.
LEMMA RoundsIs ==
    ASSUME NEW t, IsTune(t), NEW again \in Nat, again # 0 => t.loop # 0, NEW present
    PROVE  /\ \A i \in 0 .. again : Rounds(t, again, present)[i] \in Seq(Writes)
           /\ Rounds(t, again, present)[0] = RoundWrites(t, 0, present)[Len(t.tokens)]
           /\ \A i \in 1 .. again :
                  Rounds(t, again, present)[i] =
                      Rounds(t, again, present)[i - 1] \o RoundWrites(t, i, present)[Len(t.tokens)]
<1> DEFINE m    == 0
           n    == again
           F    == [x \in Seq(Writes) \X (m + 1 .. n) |->
               x[1] \o RoundWrites(t, x[2], present)[Len(t.tokens)]]
           E(f) == [i \in m .. n |->
               IF i = m THEN RoundWrites(t, 0, present)[Len(t.tokens)]
               ELSE f[i - 1] \o RoundWrites(t, i, present)[Len(t.tokens)]]
           e    == Rounds(t, again, present)
<1>1. /\ m \in Nat /\ n \in Nat /\ m <= n
      /\ RoundWrites(t, 0, present)[Len(t.tokens)] \in Seq(Writes)
  BY WholeRound
<1>2. ASSUME NEW x \in Seq(Writes), NEW i \in m + 1 .. n
      PROVE  x \o RoundWrites(t, i, present)[Len(t.tokens)] \in Seq(Writes)
  <2>1. i \in Nat /\ t.loop # 0
    BY <1>1
  <2>2. RoundWrites(t, i, present)[Len(t.tokens)] \in Seq(Writes)
    BY <2>1, WholeRound
  <2>3. QED
    BY <2>2, ConcatProperties
<1>3. F \in [Seq(Writes) \X (m + 1 .. n) -> Seq(Writes)]
  <2> HIDE DEF m, n
  <2>1. QED
    BY <1>2
<1>4. PICK g : Unrolls(g, Seq(Writes), RoundWrites(t, 0, present)[Len(t.tokens)], m, n, F)
  <2> HIDE DEF F, m, n
  <2>1. QED
    BY ONLY <1>1, <1>3, Recursion
<1>5. g = E(g)
  <2>1. ASSUME NEW i \in m .. n PROVE g[i] = E(g)[i]
    <3> HIDE DEF m, n
    <3>1. CASE i = m
      BY <1>4, <3>1 DEF Unrolls
    <3>2. CASE i # m
      <4>1. i \in m + 1 .. n /\ i - 1 \in m .. n
        BY <1>1, <3>2
      <4>2. F[<<g[i - 1], i>>] = g[i - 1] \o RoundWrites(t, i, present)[Len(t.tokens)]
        BY <1>4, <4>1 DEF Unrolls
      <4>3. QED
        BY <1>4, <3>2, <4>1, <4>2 DEF Unrolls
    <3>3. QED
      BY <3>1, <3>2
  <2> HIDE DEF m, n
  <2>2. QED
    BY <1>4, <2>1 DEF Unrolls
<1>6. e = E(e)
  <2>1. e = CHOOSE f : f = E(f)
    BY DEF Rounds
  <2> HIDE DEF E
  <2>2. QED
    BY <1>5, <2>1
<1>7. \A i \in m .. n : e[i] =
          IF i = m THEN RoundWrites(t, 0, present)[Len(t.tokens)]
          ELSE e[i - 1] \o RoundWrites(t, i, present)[Len(t.tokens)]
  <2> HIDE DEF e, m, n
  <2>1. e = [i \in m .. n |->
            IF i = m THEN RoundWrites(t, 0, present)[Len(t.tokens)]
            ELSE e[i - 1] \o RoundWrites(t, i, present)[Len(t.tokens)]]
    BY <1>6
  <2>2. QED
    BY ONLY <2>1
<1>8. e[m] = RoundWrites(t, 0, present)[Len(t.tokens)]
  <2> HIDE DEF e, m, n
  <2>1. QED
    BY <1>1, <1>7
<1>9. ASSUME NEW i \in m + 1 .. n
      PROVE  e[i] = e[i - 1] \o RoundWrites(t, i, present)[Len(t.tokens)]
  <2> HIDE DEF e, m, n
  <2>1. i \in m .. n /\ i # m
    BY <1>1
  <2>2. QED
    BY <1>7, <2>1
<1>10. Follows(e, Seq(Writes), RoundWrites(t, 0, present)[Len(t.tokens)], m, n, F)
  <2>1. ASSUME NEW i \in m + 1 .. n, e[i - 1] \in Seq(Writes)
        PROVE  e[i] = F[<<e[i - 1], i>>]
    <3> HIDE DEF e, m, n
    <3>1. F[<<e[i - 1], i>>] = e[i - 1] \o RoundWrites(t, i, present)[Len(t.tokens)]
      BY <2>1
    <3>2. QED
      BY <1>9, <3>1
  <2> HIDE DEF e, m, n, F
  <2>2. QED
    BY <1>8, <2>1 DEF Follows
<1>11. \A i \in m .. n : e[i] \in Seq(Writes)
  <2> HIDE DEF e, m, n, F
  <2>1. QED
    BY ONLY <1>1, <1>3, <1>10, RecursionTyped
<1>12. ASSUME NEW i \in 1 .. n
       PROVE  e[i] = e[i - 1] \o RoundWrites(t, i, present)[Len(t.tokens)]
  <2>1. i \in m + 1 .. n
    OBVIOUS
  <2> HIDE DEF e, m, n
  <2>2. QED
    BY <1>9, <2>1
<1>13. QED
  BY <1>8, <1>11, <1>12

-----------------------------------------------------------------------------
(***************************************************************************)
(* Places in a performance.                                                *)
(***************************************************************************)
LEMMA PlaceFields ==
    ASSUME NEW t, IsTune(t), NEW again \in Nat, NEW round, NEW k, IsPlace(t, again, round, k)
    PROVE  /\ round \in Nat /\ round <= again
           /\ round # 0 => t.loop # 0 /\ again # 0
           /\ k \in Skipped(t, round) .. Len(t.tokens) /\ k \in 0 .. Len(t.tokens)
           /\ Skipped(t, round) \in Nat /\ Len(t.tokens) \in Nat
<1>1. /\ round \in Nat /\ round <= again
      /\ round # 0 => t.loop # 0 /\ again # 0
      /\ k \in Skipped(t, round) .. Len(t.tokens)
  BY DEF IsPlace
<1>2. Skipped(t, round) \in 0 .. Len(t.tokens) /\ Len(t.tokens) \in Nat
  BY <1>1, SkippedTokens
<1>3. QED
  BY <1>1, <1>2

LEMMA PlayedIsWrites ==
    ASSUME NEW t, IsTune(t), NEW again \in Nat, NEW present,
           NEW round, NEW k, IsPlace(t, again, round, k)
    PROVE  /\ PlayedTo(t, again, present, round, k) \in Seq(Writes)
           /\ round # 0 => Rounds(t, again, present)[round - 1] \in Seq(Writes)
           /\ RoundWrites(t, round, present)[k] \in Seq(Writes)
<1>1. /\ round \in Nat /\ round <= again /\ (round # 0 => t.loop # 0 /\ again # 0)
      /\ k \in Skipped(t, round) .. Len(t.tokens)
  BY PlaceFields
<1>2. RoundWrites(t, round, present)[k] \in Seq(Writes)
  BY <1>1, RoundWritesIs
<1>3. round # 0 => Rounds(t, again, present)[round - 1] \in Seq(Writes)
  <2>1. round # 0 => round - 1 \in 0 .. again /\ t.loop # 0
    BY <1>1
  <2>2. QED
    BY <2>1, RoundsIs
<1>4. PlayedTo(t, again, present, round, k) \in Seq(Writes)
  BY <1>2, <1>3, ConcatProperties DEF PlayedTo
<1>5. QED
  BY <1>2, <1>3, <1>4

\* Nothing is written before the first token, which is due on tick 1.
LEMMA PlayedStarts ==
    ASSUME NEW t, IsTune(t), NEW again \in Nat, NEW present
    PROVE  /\ IsPlace(t, again, 0, 0)
           /\ PlayedTo(t, again, present, 0, 0) = <<>>
           /\ DueTick(t, 0, 0) = 1
<1>1. t.tokens \in Seq(Tokens) /\ Len(t.tokens) \in Nat /\ Skipped(t, 0) = 0
  BY TuneFields, SkippedTokens
<1>2. RoundWrites(t, 0, present)[0] = <<>>
  <2>1. RoundWrites(t, 0, present)[Skipped(t, 0)] = <<>>
    BY RoundWritesIs
  <2>2. QED
    BY <1>1, <2>1
<1>3. Elapsed(t.tokens)[0] = 0
  BY <1>1, ElapsedIs
<1>4. <<>> \o <<>> = <<>>
  BY ConcatEmptySeq, EmptySeq
<1>5. PlayedTo(t, again, present, 0, 0) = <<>>
  BY <1>2, <1>4 DEF PlayedTo
<1>6. DueTick(t, 0, 0) = 1
  BY <1>3 DEF DueTick
<1>7. IsPlace(t, again, 0, 0)
  BY <1>1 DEF IsPlace
<1>8. QED
  BY <1>5, <1>6, <1>7

\* The next token.
LEMMA PlayedOneMore ==
    ASSUME NEW t, IsTune(t), NEW again \in Nat, NEW present,
           NEW round, NEW k, IsPlace(t, again, round, k), k # Len(t.tokens)
    PROVE  /\ IsPlace(t, again, round, k + 1)
           /\ PlayedTo(t, again, present, round, k + 1) =
                  PlayedTo(t, again, present, round, k) \o
                      WritesOf(t.tokens[k + 1], DueTick(t, round, k), present)
           /\ DueTick(t, round, k + 1) = DueTick(t, round, k) + Ticks(t.tokens[k + 1])
           /\ t.tokens[k + 1] \in Tokens
<1>1. /\ round \in Nat /\ round <= again /\ (round # 0 => t.loop # 0 /\ again # 0)
      /\ k \in Skipped(t, round) .. Len(t.tokens) /\ k \in 0 .. Len(t.tokens)
      /\ Skipped(t, round) \in Nat /\ Len(t.tokens) \in Nat
  BY PlaceFields
<1>2. /\ k + 1 \in Skipped(t, round) + 1 .. Len(t.tokens) /\ (k + 1) - 1 = k
      /\ k + 1 \in 1 .. Len(t.tokens)
  BY <1>1
<1>3. t.tokens \in Seq(Tokens) /\ t.tokens[k + 1] \in Tokens
  BY <1>2, TuneFields
<1>4. IsPlace(t, again, round, k + 1)
  BY <1>1, <1>2 DEF IsPlace
<1> DEFINE a == IF round = 0 THEN <<>> ELSE Rounds(t, again, present)[round - 1]
           b == RoundWrites(t, round, present)[k]
           w == WritesOf(t.tokens[k + 1], DueTick(t, round, k), present)
<1>5. RoundWrites(t, round, present)[k + 1] = b \o w
  <2>1. RoundWrites(t, round, present)[k + 1] =
            RoundWrites(t, round, present)[(k + 1) - 1] \o
                WritesOf(t.tokens[k + 1], DueTick(t, round, (k + 1) - 1), present)
    BY <1>1, <1>2, RoundWritesIs
  <2>2. QED
    BY <1>2, <2>1
<1>6. a \in Seq(Writes) /\ b \in Seq(Writes) /\ w \in Seq(Writes)
  <2>1. w \in Seq(Writes)
    <3>1. DueTick(t, round, k) \in Nat
      BY <1>1, DueTickIsNat
    <3>2. QED
      BY <1>3, <3>1, WritesOfToken
  <2>2. QED
    BY <2>1, PlayedIsWrites
<1>7. PlayedTo(t, again, present, round, k + 1) = PlayedTo(t, again, present, round, k) \o w
  <2>1. /\ PlayedTo(t, again, present, round, k + 1) = a \o RoundWrites(t, round, present)[k + 1]
        /\ PlayedTo(t, again, present, round, k) = a \o b
    BY DEF PlayedTo
  <2> HIDE DEF a, b, w
  <2>2. a \o (b \o w) = (a \o b) \o w
    BY <1>6, ConcatAssociative, SMTT(30)
  <2>3. QED
    BY <1>5, <2>1, <2>2
<1>8. DueTick(t, round, k + 1) = DueTick(t, round, k) + Ticks(t.tokens[k + 1])
  <2> DEFINE e == Elapsed(t.tokens)[k]
             d == Ticks(t.tokens[k + 1])
             l == IF round = 0 THEN 0 ELSE round * LoopTicks(t)
  <2>1. Elapsed(t.tokens)[k + 1] = Elapsed(t.tokens)[(k + 1) - 1] + d
    BY <1>2, <1>3, ElapsedIs
  <2>2. Elapsed(t.tokens)[k + 1] = e + d /\ e \in Nat /\ d \in Nat
    BY <1>1, <1>2, <1>3, <2>1, ElapsedIs, TicksOfToken
  <2>3. l \in Nat
    BY <1>1, LoopTicksIsNat
  <2>4. DueTick(t, round, k + 1) = 1 + (e + d) + l /\ DueTick(t, round, k) = 1 + e + l
    BY <2>2 DEF DueTick
  <2> HIDE DEF e, d, l
  <2>5. QED
    BY <2>2, <2>3, <2>4 DEF d
<1>9. QED
  BY <1>3, <1>4, <1>7, <1>8

\* The loop is taken once more: its first token is due when the round is over.
LEMMA PlayedRoundOver ==
    ASSUME NEW t, IsTune(t), NEW again \in Nat, NEW present, NEW round,
           IsPlace(t, again, round, Len(t.tokens)), t.loop # 0, round + 1 <= again
    PROVE  /\ IsPlace(t, again, round + 1, t.loop - 1)
           /\ PlayedTo(t, again, present, round + 1, t.loop - 1) =
                  PlayedTo(t, again, present, round, Len(t.tokens))
           /\ DueTick(t, round + 1, t.loop - 1) = DueTick(t, round, Len(t.tokens))
<1>1. round \in Nat /\ round + 1 \in Nat /\ round + 1 # 0
  BY PlaceFields
<1>2. /\ Skipped(t, round + 1) = t.loop - 1
      /\ t.loop \in 1 .. Len(t.tokens) /\ Len(t.tokens) \in Nat
  BY <1>1, SkippedTokens
<1>3. IsPlace(t, again, round + 1, t.loop - 1)
  BY <1>1, <1>2 DEF IsPlace
<1> DEFINE done == Rounds(t, again, present)[round]
           this == RoundWrites(t, round, present)[Len(t.tokens)]
<1>4. done \in Seq(Writes)
  <2>1. round \in 0 .. again
    BY <1>1
  <2>2. QED
    BY <2>1, RoundsIs
<1>5. PlayedTo(t, again, present, round + 1, t.loop - 1) = done
  <2>1. RoundWrites(t, round + 1, present)[t.loop - 1] = <<>>
    <3>1. RoundWrites(t, round + 1, present)[Skipped(t, round + 1)] = <<>>
      BY <1>1, RoundWritesIs
    <3>2. QED
      BY <1>2, <3>1
  <2>2. (round + 1) - 1 = round
    BY <1>1
  <2>3. PlayedTo(t, again, present, round + 1, t.loop - 1) = done \o <<>>
    BY <1>1, <2>1, <2>2 DEF PlayedTo
  <2>4. QED
    BY <1>4, <2>3, ConcatEmptySeq
<1>6. PlayedTo(t, again, present, round, Len(t.tokens)) = done
  <2>1. CASE round = 0
    <3>1. done = this
      BY <2>1, RoundsIs
    <3>2. PlayedTo(t, again, present, round, Len(t.tokens)) = <<>> \o this
      BY <2>1 DEF PlayedTo
    <3>3. QED
      BY <1>4, <3>1, <3>2, ConcatEmptySeq
  <2>2. CASE round # 0
    <3>1. round \in 1 .. again
      BY <1>1, <2>2
    <3>2. done = Rounds(t, again, present)[round - 1] \o this
      BY <3>1, RoundsIs
    <3>3. QED
      BY <2>2, <3>2 DEF PlayedTo
  <2>3. QED
    BY <2>1, <2>2
<1>7. DueTick(t, round + 1, t.loop - 1) = DueTick(t, round, Len(t.tokens))
  <2> DEFINE a == Elapsed(t.tokens)[t.loop - 1]
             l == LoopTicks(t)
  <2>1. a \in Nat /\ l \in Nat /\ Elapsed(t.tokens)[Len(t.tokens)] = a + l
    BY LoopTicksIsNat
  <2>2. DueTick(t, round + 1, t.loop - 1) = 1 + a + (round + 1) * l
    BY <1>1 DEF DueTick
  <2>3. DueTick(t, round, Len(t.tokens)) = 1 + (a + l) + (IF round = 0 THEN 0 ELSE round * l)
    BY <2>1 DEF DueTick
  <2> HIDE DEF a, l
  <2>4. (round + 1) * l = round * l + l
    BY <1>1, <2>1
  <2>5. (IF round = 0 THEN 0 ELSE round * l) = round * l
    BY <1>1, <2>1
  <2>6. round * l \in Nat
    BY <1>1, <2>1
  <2>7. QED
    BY <2>1, <2>2, <2>3, <2>4, <2>5, <2>6
<1>8. QED
  BY <1>3, <1>5, <1>6, <1>7

\* The last place.
LEMMA PlayedAll ==
    ASSUME NEW t, IsTune(t), NEW again \in Nat, NEW present, NEW round,
           round = IF t.loop = 0 THEN 0 ELSE again
    PROVE  /\ IsPlace(t, again, round, Len(t.tokens))
           /\ PlayedTo(t, again, present, round, Len(t.tokens)) = Performance(t, again, present)
<1>1. round \in Nat /\ round <= again /\ (round # 0 => t.loop # 0)
  OBVIOUS
<1>2. Skipped(t, round) \in 0 .. Len(t.tokens) /\ Len(t.tokens) \in Nat
  BY <1>1, SkippedTokens
<1>3. IsPlace(t, again, round, Len(t.tokens))
  BY <1>1, <1>2 DEF IsPlace
<1> DEFINE this == RoundWrites(t, round, present)[Len(t.tokens)]
<1>4. this \in Seq(Writes)
  BY <1>1, WholeRound
<1>5. CASE round = 0
  <2>1. PlayedTo(t, again, present, round, Len(t.tokens)) = <<>> \o this
    BY <1>5 DEF PlayedTo
  <2>2. Performance(t, again, present) = Rounds(t, 0, present)[0]
    BY <1>5 DEF Performance
  <2>3. Rounds(t, 0, present)[0] = this
    BY <1>5, RoundsIs
  <2>4. QED
    BY <1>3, <1>4, <2>1, <2>2, <2>3, ConcatEmptySeq
<1>6. CASE round # 0
  <2>1. again = round /\ t.loop # 0 /\ round \in 1 .. again
    BY <1>1, <1>6
  <2>2. PlayedTo(t, again, present, round, Len(t.tokens)) =
            Rounds(t, again, present)[round - 1] \o this
    BY <1>6 DEF PlayedTo
  <2>3. Rounds(t, again, present)[round] = Rounds(t, again, present)[round - 1] \o this
    BY <2>1, RoundsIs
  <2>4. Performance(t, again, present) = Rounds(t, again, present)[round]
    BY <2>1 DEF Performance
  <2>5. QED
    BY <1>3, <2>2, <2>3, <2>4
<1>7. QED
  BY <1>5, <1>6

\* What follows a place in the performance is not due before the token there.
Rest(t, again, present, round, k, rest) ==
    /\ rest \in Seq(Writes)
    /\ Performance(t, again, present) = PlayedTo(t, again, present, round, k) \o rest
    /\ \A i \in 1 .. Len(rest) : rest[i].tick >= DueTick(t, round, k)

LEMMA RestBefore ==
    ASSUME NEW t, IsTune(t), NEW again \in Nat, NEW present,
           NEW round, NEW k, IsPlace(t, again, round, k), k # Len(t.tokens),
           NEW rest, Rest(t, again, present, round, k + 1, rest)
    PROVE  Rest(t, again, present, round, k,
                WritesOf(t.tokens[k + 1], DueTick(t, round, k), present) \o rest)
<1> DEFINE w    == WritesOf(t.tokens[k + 1], DueTick(t, round, k), present)
           d    == DueTick(t, round, k)
           e    == DueTick(t, round, k + 1)
           this == PlayedTo(t, again, present, round, k)
           all  == Performance(t, again, present)
<1>1. /\ round \in Nat /\ (round # 0 => t.loop # 0) /\ k \in 0 .. Len(t.tokens)
  BY PlaceFields
<1>2. /\ PlayedTo(t, again, present, round, k + 1) = this \o w
      /\ e = d + Ticks(t.tokens[k + 1]) /\ t.tokens[k + 1] \in Tokens
  BY PlayedOneMore
<1>3. d \in Nat
  BY <1>1, DueTickIsNat
<1>4. /\ w \in Seq(Writes) /\ Len(w) \in Nat
      /\ \A i \in 1 .. Len(w) : w[i].tick = d
  BY <1>2, <1>3, WritesOfToken
<1>5. Ticks(t.tokens[k + 1]) \in Nat
  BY <1>2, TicksOfToken
<1>6. e >= d
  <2> HIDE DEF d, e
  <2>1. QED
    BY <1>2, <1>3, <1>5
<1>7. this \in Seq(Writes)
  BY PlayedIsWrites
<1>8. /\ rest \in Seq(Writes) /\ all = (this \o w) \o rest
      /\ \A i \in 1 .. Len(rest) : rest[i].tick >= e
  BY <1>2 DEF Rest
<1>9. e \in Nat
  BY <1>2, <1>3, <1>5
<1> HIDE DEF w, d, e, this, all
<1>10. all = this \o (w \o rest) /\ w \o rest \in Seq(Writes)
  BY <1>4, <1>7, <1>8, ConcatAssociative, ConcatProperties, SMTT(30)
<1>11. ASSUME NEW i \in 1 .. Len(w \o rest)
       PROVE  (w \o rest)[i].tick >= d
  <2>1. /\ Len(rest) \in Nat /\ Len(w \o rest) = Len(w) + Len(rest)
        /\ (w \o rest)[i] = IF i <= Len(w) THEN w[i] ELSE rest[i - Len(w)]
    BY <1>4, <1>8, ConcatProperties, LenProperties
  <2>2. CASE i <= Len(w)
    <3>1. (w \o rest)[i] = w[i] /\ i \in 1 .. Len(w)
      BY <1>4, <2>1, <2>2
    <3>2. w[i].tick = d
      BY <1>4, <3>1
    <3>3. QED
      BY <1>3, <3>1, <3>2
  <2>3. CASE ~(i <= Len(w))
    <3>1. (w \o rest)[i] = rest[i - Len(w)] /\ i - Len(w) \in 1 .. Len(rest)
      BY <1>4, <2>1, <2>3
    <3>2. rest[i - Len(w)].tick >= e /\ rest[i - Len(w)] \in Writes
      BY <1>8, <3>1, ElementOfSeq
    <3>3. rest[i - Len(w)].tick \in Nat
      BY <3>2 DEF Writes
    <3>4. QED
      BY <1>3, <1>6, <1>9, <3>1, <3>2, <3>3
  <2>4. QED
    BY <2>2, <2>3
<1>12. QED
  BY <1>10, <1>11 DEF Rest, all, this, w, d

LEMMA RestOfRound ==
    ASSUME NEW t, IsTune(t), NEW again \in Nat, NEW present, NEW round \in Nat,
           NEW k, IsPlace(t, again, round, k),
           \E rest : Rest(t, again, present, round, Len(t.tokens), rest)
    PROVE  \E rest : Rest(t, again, present, round, k, rest)
<1> DEFINE n == Len(t.tokens)
           T == {d \in Nat : IsPlace(t, again, round, n - d) =>
                                 \E rest : Rest(t, again, present, round, n - d, rest)}
<1>1. n \in Nat /\ k \in 0 .. n
  BY PlaceFields
<1>2. 0 \in T
  <2>1. n - 0 = n
    BY <1>1
  <2>2. QED
    BY <2>1
<1>3. ASSUME NEW d \in T PROVE d + 1 \in T
  <2> DEFINE j == n - (d + 1)
  <2>1. SUFFICES ASSUME IsPlace(t, again, round, j)
                 PROVE  \E rest : Rest(t, again, present, round, j, rest)
    OBVIOUS
  <2>2. d \in Nat /\ j # n /\ j + 1 = n - d
    BY <1>1
  <2> HIDE DEF j
  <2>3. IsPlace(t, again, round, j + 1)
    BY <2>1, <2>2, PlayedOneMore
  <2>4. \E rest : Rest(t, again, present, round, j + 1, rest)
    BY <2>2, <2>3
  <2>5. QED
    BY <2>1, <2>2, <2>4, RestBefore
<1>4. T = Nat
  <2>1. T \subseteq Nat
    OBVIOUS
  <2> HIDE DEF T
  <2>2. QED
    BY <1>2, <1>3, <2>1, SetInduction
<1>5. n - k \in Nat /\ n - (n - k) = k
  BY <1>1
<1>6. n - k \in T
  BY <1>4, <1>5
<1>7. IsPlace(t, again, round, n - (n - k)) =>
          \E rest : Rest(t, again, present, round, n - (n - k), rest)
  BY <1>6
<1>8. QED
  BY <1>5, <1>7

\* From any place on, the performance goes on with writes that are not due before
\* the token there: zsm_update, which goes by the order of the file, never owes a
\* write of an earlier tick.
LEMMA PlayedIsPrefix ==
    ASSUME NEW t, IsTune(t), NEW again \in Nat, NEW present,
           NEW round, NEW k, IsPlace(t, again, round, k)
    PROVE  \E rest : Rest(t, again, present, round, k, rest)
<1> DEFINE n    == Len(t.tokens)
           last == IF t.loop = 0 THEN 0 ELSE again
           Good(r) == \E rest : Rest(t, again, present, r, n, rest)
           T    == {d \in Nat : last - d >= 0 => Good(last - d)}
<1>1. last \in Nat /\ n \in Nat /\ round \in 0 .. last
  BY TuneFields DEF IsPlace
<1>2. \A r \in 0 .. last : IsPlace(t, again, r, n)
  <2>1. ASSUME NEW r \in 0 .. last PROVE IsPlace(t, again, r, n)
    <3>1. r \in Nat /\ (r # 0 => t.loop # 0)
      BY <1>1
    <3>2. n \in Skipped(t, r) .. n
      BY <3>1, SkippedTokens
    <3>3. QED
      BY <3>2 DEF IsPlace
  <2>2. QED
    BY <2>1
<1>3. Good(last)
  <2>1. IsPlace(t, again, last, n) /\ Performance(t, again, present) =
            PlayedTo(t, again, present, last, n)
    BY PlayedAll
  <2>2. PlayedTo(t, again, present, last, n) \in Seq(Writes)
    BY <2>1, PlayedIsWrites
  <2>3. Rest(t, again, present, last, n, <<>>)
    <3> HIDE DEF last, n
    <3>1. PlayedTo(t, again, present, last, n) \o <<>> = PlayedTo(t, again, present, last, n)
      BY <2>2, ConcatEmptySeq
    <3>2. <<>> \in Seq(Writes) /\ Len(<<>>) = 0
      BY EmptySeq
    <3>3. QED
      BY <2>1, <3>1, <3>2 DEF Rest
  <2>4. QED
    BY <2>3
<1>4. ASSUME NEW r \in 0 .. last, r + 1 <= last, Good(r + 1) PROVE Good(r)
  <2>1. t.loop # 0 /\ r + 1 <= again /\ r \in Nat /\ r + 1 \in Nat
    BY <1>1, <1>4
  <2>2. IsPlace(t, again, r, n)
    BY <1>2
  <2>3. /\ IsPlace(t, again, r + 1, t.loop - 1)
        /\ PlayedTo(t, again, present, r + 1, t.loop - 1) = PlayedTo(t, again, present, r, n)
        /\ DueTick(t, r + 1, t.loop - 1) = DueTick(t, r, n)
    BY <2>1, <2>2, PlayedRoundOver
  <2>4. PICK rest : Rest(t, again, present, r + 1, t.loop - 1, rest)
    BY <1>4, <2>1, <2>3, RestOfRound
  <2>5. Rest(t, again, present, r, n, rest)
    BY <2>3, <2>4 DEF Rest
  <2>6. QED
    BY <2>5
<1> HIDE DEF Good, last, n
<1>5. 0 \in T
  <2>1. last - 0 = last
    BY <1>1
  <2>2. QED
    BY <1>3, <2>1
<1>6. ASSUME NEW d \in T PROVE d + 1 \in T
  <2>1. SUFFICES ASSUME last - (d + 1) >= 0 PROVE Good(last - (d + 1))
    OBVIOUS
  <2>2. d \in Nat /\ last - d >= 0 /\ Good(last - d)
    BY <1>1, <2>1
  <2>3. /\ last - (d + 1) \in 0 .. last /\ (last - (d + 1)) + 1 = last - d
        /\ (last - (d + 1)) + 1 <= last
    BY <1>1, <2>1, <2>2
  <2>4. QED
    BY <1>4, <2>2, <2>3
<1>7. T = Nat
  <2>1. T \subseteq Nat
    OBVIOUS
  <2> HIDE DEF T
  <2>2. QED
    BY <1>5, <1>6, <2>1, SetInduction
<1>8. last - round \in Nat /\ last - (last - round) = round /\ round >= 0
  BY <1>1
<1>9. last - round \in T
  BY <1>7, <1>8
<1>10. last - (last - round) >= 0 => Good(last - (last - round))
  BY <1>9
<1>11. Good(round)
  BY <1>8, <1>10
<1>12. round \in Nat /\ \E rest : Rest(t, again, present, round, Len(t.tokens), rest)
  BY <1>1, <1>11 DEF Good, n
<1>13. QED
  BY <1>12, RestOfRound

\* A round of a tune that waits takes a tick, and so does the tune before it.
LEMMA LoopTakesTime ==
    ASSUME NEW t, IsTune(t), t.loop # 0, Waits(t), NEW round \in Nat
    PROVE  DueTick(t, round, Len(t.tokens)) >= round + 2
<1> DEFINE n    == Len(t.tokens)
           e(i) == Elapsed(t.tokens)[i]
           l    == LoopTicks(t)
<1>1. t.tokens \in Seq(Tokens) /\ n \in Nat /\ t.loop \in 1 .. n
  BY TuneFields
<1>2. PICK i \in t.loop .. n : t.tokens[i].op = "delay"
  BY DEF Waits
<1>3. /\ i \in 1 .. n /\ i - 1 \in 0 .. n /\ t.loop - 1 \in 0 .. n
      /\ i - 1 \in t.loop - 1 .. n /\ i \in 0 .. n /\ n \in i .. n
  BY <1>1
<1>4. e(i) = e(i - 1) + Ticks(t.tokens[i])
  BY <1>1, <1>3, ElapsedIs
<1>5. Ticks(t.tokens[i]) \in Nat /\ Ticks(t.tokens[i]) >= 1
  <2>1. t.tokens[i] \in Tokens
    BY <1>1, <1>3, ElementOfSeq
  <2>2. QED
    BY <1>2, <2>1, TicksOfToken
<1>6. e(t.loop - 1) \in Nat /\ e(i - 1) \in Nat /\ e(t.loop - 1) <= e(i - 1)
  BY <1>1, <1>3, ElapsedGrows
<1>7. e(i) \in Nat /\ e(n) \in Nat /\ e(i) <= e(n)
  BY <1>1, <1>3, ElapsedGrows
<1>8. l \in Nat /\ e(n) = e(t.loop - 1) + l
  BY LoopTicksIsNat
<1>9. DueTick(t, round, n) = 1 + e(n) + (IF round = 0 THEN 0 ELSE round * l)
  BY DEF DueTick
<1> HIDE DEF e, l, n
<1>10. l >= 1 /\ e(n) >= 1
  BY <1>4, <1>5, <1>6, <1>7, <1>8
<1>11. (IF round = 0 THEN 0 ELSE round * l) \in Nat
         /\ (IF round = 0 THEN 0 ELSE round * l) >= round
  <2>1. CASE round = 0
    BY <2>1
  <2>2. CASE round # 0
    <3>1. round * l = round + round * (l - 1)
      BY <1>8
    <3>2. l - 1 \in Nat
      BY <1>8, <1>10
    <3>3. round * (l - 1) \in Nat
      BY <3>2
    <3> DEFINE m == round * (l - 1)
    <3> HIDE DEF m
    <3>4. round * l = round + m /\ m \in Nat
      BY <3>1, <3>3 DEF m
    <3>5. QED
      BY <2>2, <3>4
  <2>3. QED
    BY <2>1, <2>2
<1>12. QED
  <2> DEFINE m == IF round = 0 THEN 0 ELSE round * l
  <2>1. m \in Nat /\ m >= round
    BY <1>11
  <2>2. DueTick(t, round, n) = 1 + e(n) + m
    BY <1>9
  <2> HIDE DEF m
  <2>3. DueTick(t, round, n) >= round + 2
    BY <1>7, <1>10, <2>1, <2>2
  <2>4. QED
    BY <2>3 DEF n

-----------------------------------------------------------------------------
(***************************************************************************)
(* The writes of a token, kind by kind.                                    *)
(***************************************************************************)
\* A PSG command is one write, where there is a SAA1099 to play it.
LEMMA WritesOfPsg ==
    ASSUME NEW token \in Tokens, token.op = "psg", NEW time \in Nat, NEW present
    PROVE  /\ "psg" \in present =>
                  WritesOf(token, time, present) =
                      <<[tick |-> time, chip |-> "psg",
                         address |-> token.address, data |-> token.data]>>
           /\ "psg" \notin present => WritesOf(token, time, present) = <<>>
BY DEF WritesOf

\* Where there is a YM2151, the pairs of an FM command one by one.
LEMMA WritesOfFm ==
    ASSUME NEW token \in Tokens, token.op = "fm", NEW time \in Nat, NEW present
    PROVE  /\ "ym" \in present =>
                  /\ Len(WritesOf(token, time, present)) = Len(token.pairs)
                  /\ \A d \in 1 .. Len(token.pairs) :
                         WritesOf(token, time, present)[d] =
                             [tick |-> time, chip |-> "ym",
                              address |-> token.pairs[d][1], data |-> token.pairs[d][2]]
           /\ "ym" \notin present => WritesOf(token, time, present) = <<>>
<1> DEFINE n == Len(token.pairs)
           w == [i \in 1 .. n |->
                    [tick |-> time, chip |-> "ym",
                     address |-> token.pairs[i][1], data |-> token.pairs[i][2]]]
<1>1. "ym" \in present => WritesOf(token, time, present) = w
  BY DEF WritesOf
<1>2. "ym" \notin present => WritesOf(token, time, present) = <<>>
  BY DEF WritesOf
<1>3. n \in 1 .. 63
  BY TokenFields
<1>4. w = [i \in 1 .. n |-> w[i]] /\ DOMAIN w = 1 .. n
  OBVIOUS
<1>5. \A i \in 1 .. n : w[i] = [tick |-> time, chip |-> "ym",
                     address |-> token.pairs[i][1], data |-> token.pairs[i][2]]
  OBVIOUS
<1> HIDE DEF w, n
<1>6. Len(w) = n
  <2>1. n \in Nat
    BY <1>3
  <2>2. QED
    BY <1>4, <2>1
<1>7. QED
  BY <1>1, <1>2, <1>5, <1>6 DEF n

\* Delays and extensions write nothing.
LEMMA WritesOfOthers ==
    ASSUME NEW token \in Tokens, token.op \notin {"psg", "fm"}, NEW time, NEW present
    PROVE  WritesOf(token, time, present) = <<>>
BY DEF WritesOf

\* The writes of a command done one by one.
LEMMA OneWriteMore ==
    ASSUME NEW S, NEW s \in Seq(S), NEW w \in Seq(S), NEW d \in Nat, d < Len(w)
    PROVE  /\ Append(s \o SubSeq(w, 1, d), w[d + 1]) = s \o SubSeq(w, 1, d + 1)
           /\ SubSeq(w, 1, Len(w)) = w /\ SubSeq(w, 1, 0) = <<>>
           /\ w[d + 1] \in S /\ SubSeq(w, 1, d) \in Seq(S)
<1>1. Len(w) \in Nat /\ d + 1 \in 1 .. Len(w)
  BY LenProperties
<1>2. w[d + 1] \in S
  BY <1>1, ElementOfSeq
<1>3. SubSeq(w, 1, d) \in Seq(S) /\ SubSeq(w, 1, d + 1) \in Seq(S)
  BY <1>1
<1>4. SubSeq(w, 1, d + 1) = Append(SubSeq(w, 1, d), w[d + 1])
  BY <1>1
<1>5. SubSeq(w, 1, Len(w)) = w /\ SubSeq(w, 1, 0) = <<>>
  BY <1>1
<1> DEFINE a == SubSeq(w, 1, d)
           x == w[d + 1]
<1>6. Append(s \o a, x) = s \o Append(a, x)
  <2>1. a \in Seq(S) /\ x \in S
    BY <1>2, <1>3
  <2> HIDE DEF a, x
  <2>2. <<x>> \in Seq(S)
    BY <2>1
  <2>3. (s \o a) \o <<x>> = s \o (a \o <<x>>)
    BY <2>1, <2>2, ConcatAssociative, SMTT(30)
  <2>4. s \o a \in Seq(S)
    BY <2>1, ConcatProperties
  <2>5. Append(s \o a, x) = (s \o a) \o <<x>> /\ Append(a, x) = a \o <<x>>
    BY <2>1, <2>4, AppendIsConcat
  <2>6. QED
    BY <2>3, <2>5
<1>7. QED
  BY <1>2, <1>3, <1>4, <1>5, <1>6

=============================================================================
