----------------------------- MODULE ReedSolomon -----------------------------
(***************************************************************************)
(* The erasure code of fec/reed_solomon.rs over the field of fec/gf256.rs: *)
(* bytes with the polynomial 0x11d, multiplied through tables of powers    *)
(* and logarithms of 2, linear systems solved by elimination, and the      *)
(* systematic generator made from a Vandermonde matrix.  Matrices are      *)
(* sequences of rows, counted from 1.                                      *)
(***************************************************************************)
EXTENDS Integers, Sequences, SequencesExt, FiniteSetsExt

CONSTANTS MaxK,   \* sources of a group, at most
          MaxN    \* symbols of a group, at most

Byte == 0 .. 255

(* s itself, each of its elements evaluated once. *)
Strict(s) == SubSeq(s, 1, Len(s))

(* Exclusive or, half a byte at a time. *)
XorBits[a \in 0 .. 15, b \in 0 .. 15] ==
  IF a = 0 THEN b ELSE IF b = 0 THEN a
  ELSE 2 * XorBits[a \div 2, b \div 2] + ((a + b) % 2)

Nibbles == Strict([i \in 1 .. 256 |-> XorBits[(i - 1) \div 16, (i - 1) % 16]])

XorNibble(a, b) == Nibbles[16 * a + b + 1]

Xor(a, b) == 16 * XorNibble(a \div 16, b \div 16) + XorNibble(a % 16, b % 16)


Doubles == Strict([i \in 1 .. 255 |-> IF i < 128 THEN 2 * i ELSE Xor(2 * i - 256, 29)])
PowerOf[i \in 1 .. 255] == IF i = 1 THEN 1 ELSE Doubles[PowerOf[i - 1]]
Exp == Strict([i \in 1 .. 255 |-> PowerOf[i]])
Log == LET e == Exp IN Strict([j \in 1 .. 255 |-> CHOOSE i \in 0 .. 254 : e[i + 1] = j])
Mul(a, b) == IF a = 0 \/ b = 0 THEN 0 ELSE Exp[((Log[a] + Log[b]) % 255) + 1]

Inv(a) == Exp[((255 - Log[a]) % 255) + 1]

Upto(n) == [i \in 1 .. n |-> i]

AddRow(r, s) == Strict([j \in DOMAIN r |-> Xor(r[j], s[j])])

ScaleRow(c, r) == Strict([j \in DOMAIN r |-> Mul(c, r[j])])

(* One column of solve_system: the first row below with a nonzero entry is *)
(* swapped up and normalised, the column is cleared everywhere else.  A    *)
(* singular system is <<>>. *)
EliminateColumn(rows, col) ==
  LET pivots == {r \in col .. Len(rows) : rows[r][col] # 0}
      p      == Min(pivots)
      swapped == [rows EXCEPT ![col] = rows[p], ![p] = rows[col]]
      top    == ScaleRow(Inv(swapped[col][col]), swapped[col])
  IN  IF pivots = {} THEN <<>>
      ELSE Strict([r \in DOMAIN rows |->
              IF r = col THEN top ELSE AddRow(swapped[r], ScaleRow(swapped[r][col], top))])

(* solve_system: the last column after the elimination. *)
SolveSystem(rows) ==
  LET reduced == FoldLeft(LAMBDA m, col : IF m = <<>> THEN m ELSE EliminateColumn(m, col),
                          rows, Upto(Len(rows)))
  IN  Strict([r \in DOMAIN reduced |-> Last(reduced[r])])

Vandermonde(k) ==
  [i \in 1 .. MaxN |-> [j \in 1 .. k |-> Exp[(((i - 1) * (j - 1)) % 255) + 1]]]

(* invert_matrix, one column of the identity at a time: column c of the    *)
(* inverse. *)
InverseColumn(m, c) == SolveSystem([r \in DOMAIN m |-> Append(m[r], IF r = c THEN 1 ELSE 0)])

Dot(r, s) == FoldLeft(LAMBDA acc, t : Xor(acc, Mul(r[t], s[t])), 0, Upto(Len(r)))

(* ReedSolomon::new: G = V * V_top^-1.  Row i depends on k alone, so one   *)
(* matrix per k serves every m. *)
Generators ==
  Strict([k \in 1 .. MaxK |->
     LET v   == Vandermonde(k)
         inv == Strict([c \in 1 .. k |-> InverseColumn(SubSeq(v, 1, k), c)])
     IN  Strict([i \in 1 .. MaxN |-> Strict([j \in 1 .. k |-> Dot(v[i], inv[j])])])])

(* The combination of symbols with the coefficients of a row. *)
Combine(row, syms) ==
  Strict([b \in DOMAIN syms[1] |-> Dot(row, [j \in DOMAIN row |-> syms[j][b]])])

(* ReedSolomon::encode: the parity for row k + i. *)
Parity(sources, i) == Combine(Generators[Len(sources)][Len(sources) + i], sources)

(* ReedSolomon::decode for n symbols of which <<>> are erased: the         *)
(* sources, or <<>> when it reports an error.  Known sources are taken out *)
(* of the first parities, as many as sources are erased, and the rest is   *)
(* solved byte by byte. *)
Decode(k, symbols) ==
  LET n       == Len(symbols)
      present == {i \in 1 .. n : symbols[i] # <<>>}
      width   == Len(symbols[Min(present)])
      erased  == SetToSortSeq((1 .. k) \ present, <)
      rows    == SetToSortSeq(present \ (1 .. k), <)
      known   == [j \in 1 .. k |->
                    IF j \in present THEN symbols[j] ELSE [b \in 1 .. width |-> 0]]
      system(b) ==
        [e \in 1 .. Len(erased) |->
           LET g == Generators[k][rows[e]]
           IN  [x \in 1 .. Len(erased) |-> g[erased[x]]]
                 \o <<Xor(symbols[rows[e]][b], Dot(g, [j \in 1 .. k |-> known[j][b]]))>>]
      solved  == Strict([b \in 1 .. width |-> SolveSystem(system(b))])
      value(j) == IF j \in present THEN symbols[j]
                  ELSE LET x == CHOOSE x \in 1 .. Len(erased) : erased[x] = j
                       IN  Strict([b \in 1 .. width |-> solved[b][x]])
  IN  IF \/ \E i \in present : Len(symbols[i]) # width
         \/ Len(rows) < Len(erased)
         \/ Len(erased) > 0 /\ \E b \in 1 .. width : solved[b] = <<>>
        THEN <<>>
        ELSE Strict([j \in 1 .. k |-> value(j)])
=============================================================================
