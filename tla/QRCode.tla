------------------------------- MODULE QRCode -------------------------------
(***************************************************************************)
(* The QR encoder of the link code (core/qrcode.py): bytes to codewords,   *)
(* error correction and interleaving, and the symbol as the set of its     *)
(* dark modules, a module being <<row, column>>.                           *)
(*                                                                         *)
(* A byte is the set of the positions of its one bits, and a polynomial    *)
(* over GF(2) the set of its exponents, so that ^ is SymDiff.              *)
(***************************************************************************)
EXTENDS Integers, FiniteSets, SequencesExt, FiniteSetsExt

Byte(n) == {k \in 0..7 : (n \div 2^k) % 2 = 1}
One == {0}

-----------------------------------------------------------------------------
(* GF(256) *)

\* Twice a byte, reduced by x^8 + x^4 + x^3 + x^2 + 1.
Twice(b) ==
  LET shifted == {k + 1 : k \in b}
  IN  IF 8 \in shifted THEN SymDiff(shifted, {8, 4, 3, 2, 0}) ELSE shifted

\* op(...op(op(base, 1), 2)..., n); the one-element set has TLC finish one step before
\* the next.
Fold(op(_, _), base, n) ==
  LET upTo[i \in 0..n] ==
        IF i = 0 THEN base
        ELSE CHOOSE r \in {op(before, i) : before \in {upTo[i - 1]}} : TRUE
  IN  upTo[n]

\* The sequence of f(1)..f(n); SubSeq has TLC evaluate every element once.
Listed(n, f(_)) == SubSeq([i \in 1..n |-> f(i)], 1, n)

\* 2^n, which the table _EXP holds at n.
Exp(n) == Fold(LAMBDA b, i : Twice(b), One, n)

\* _mul(), by the shifts and additions that its two tables abbreviate.
Mul(a, b) ==
  Fold(LAMBDA sum, i : SymDiff(Twice(sum), IF 8 - i \in a THEN b ELSE {}), {}, 8)

\* _generator_poly(), coefficients high order first.
Generator(degree) ==
  LET TimesFactor(poly, n) ==
        Listed(n + 1, LAMBDA i : SymDiff(IF i <= n THEN poly[i] ELSE {},
                                         IF i > 1 THEN Mul(poly[i - 1], Exp(n - 1)) ELSE {}))
  IN  Fold(TimesFactor, <<One>>, degree)

\* _ec_codewords(): the remainder of a polynomial division.
Correction(data, count) ==
  LET gen == Generator(count)
      Reduce(rest, i) ==
        Listed(Len(rest), LAMBDA k : IF k \in i..i + count
                                       THEN SymDiff(rest[k], Mul(gen[k - i + 1], rest[i]))
                                       ELSE rest[k])
      rest == Fold(Reduce, data \o [i \in 1..count |-> {}], Len(data))
  IN  SubSeq(rest, Len(data) + 1, Len(data) + count)

-----------------------------------------------------------------------------
(* Capacity *)

Levels == {"L", "M", "Q", "H"}
LevelBits == [L |-> {0}, M |-> {}, Q |-> {0, 1}, H |-> {1}]
Versions == 1..10

\* _BLOCKS: codewords of correction per block, then blocks and data codewords per
\* block of the first and of the second group.
BlockTable ==
  << [L |-> <<7, 1, 19, 0, 0>>, M |-> <<10, 1, 16, 0, 0>>,
      Q |-> <<13, 1, 13, 0, 0>>, H |-> <<17, 1, 9, 0, 0>>],
     [L |-> <<10, 1, 34, 0, 0>>, M |-> <<16, 1, 28, 0, 0>>,
      Q |-> <<22, 1, 22, 0, 0>>, H |-> <<28, 1, 16, 0, 0>>],
     [L |-> <<15, 1, 55, 0, 0>>, M |-> <<26, 1, 44, 0, 0>>,
      Q |-> <<18, 2, 17, 0, 0>>, H |-> <<22, 2, 13, 0, 0>>],
     [L |-> <<20, 1, 80, 0, 0>>, M |-> <<18, 2, 32, 0, 0>>,
      Q |-> <<26, 2, 24, 0, 0>>, H |-> <<16, 4, 9, 0, 0>>],
     [L |-> <<26, 1, 108, 0, 0>>, M |-> <<24, 2, 43, 0, 0>>,
      Q |-> <<18, 2, 15, 2, 16>>, H |-> <<22, 2, 11, 2, 12>>],
     [L |-> <<18, 2, 68, 0, 0>>, M |-> <<16, 4, 27, 0, 0>>,
      Q |-> <<24, 4, 19, 0, 0>>, H |-> <<28, 4, 15, 0, 0>>],
     [L |-> <<20, 2, 78, 0, 0>>, M |-> <<18, 4, 31, 0, 0>>,
      Q |-> <<18, 2, 14, 4, 15>>, H |-> <<26, 4, 13, 1, 14>>],
     [L |-> <<24, 2, 97, 0, 0>>, M |-> <<22, 2, 38, 2, 39>>,
      Q |-> <<22, 4, 18, 2, 19>>, H |-> <<26, 4, 14, 2, 15>>],
     [L |-> <<30, 2, 116, 0, 0>>, M |-> <<22, 3, 36, 2, 37>>,
      Q |-> <<20, 4, 16, 4, 17>>, H |-> <<24, 4, 12, 4, 13>>],
     [L |-> <<18, 2, 68, 2, 69>>, M |-> <<26, 4, 43, 1, 44>>,
      Q |-> <<24, 6, 19, 2, 20>>, H |-> <<28, 6, 15, 2, 16>>] >>

\* The sizes of the blocks, in the order they are filled.
Blocks(version, ecl) ==
  LET row == BlockTable[version][ecl]
  IN  [b \in 1..row[2] + row[4] |-> IF b <= row[2] THEN row[3] ELSE row[5]]

PerBlock(version, ecl) == BlockTable[version][ecl][1]

\* data_capacity()
Capacity(version, ecl) ==
  LET row == BlockTable[version][ecl] IN row[2] * row[3] + row[4] * row[5]

\* Fault: 8 bits at every version.
CountBits_Narrow(version) == 8

\* count_bits()
CountBits(version) == IF version <= 9 THEN 8 ELSE 16

\* _fits()
Fits(length, version, ecl) ==
  4 + CountBits(version) + length * 8 <= Capacity(version, ecl) * 8

\* smallest_version(), 0 where it raises.
SmallestVersion(length, ecl) ==
  IF \E v \in Versions : Fits(length, v, ecl)
    THEN Min({v \in Versions : Fits(length, v, ecl)}) ELSE 0

-----------------------------------------------------------------------------
(* Codewords; bits are a sequence of Booleans, the highest first *)

BitsOf(bytes) ==
  [i \in 1..8 * Len(bytes) |-> 7 - ((i - 1) % 8) \in bytes[(i - 1) \div 8 + 1]]
NumberBits(n, width) == [i \in 1..width |-> (n \div 2^(width - i)) % 2 = 1]
Zeros(n) == [i \in 1..n |-> FALSE]
Bytes(bits) == [i \in 1..Len(bits) \div 8 |-> {k \in 0..7 : bits[8 * i - k]}]

\* _encode_data()
DataCodewords(payload, version, ecl) ==
  LET capacity == Capacity(version, ecl)
      header == NumberBits(4, 4) \o NumberBits(Len(payload), CountBits(version))
      text == header \o BitsOf(payload)
      ended == text \o Zeros(Min({4, capacity * 8 - Len(text)}))
      whole == Bytes(ended \o Zeros((-Len(ended)) % 8))
  IN  whole \o [i \in 1..capacity - Len(whole) |-> Byte(IF i % 2 = 1 THEN 236 ELSE 17)]

\* First of every block, second of every block, as far as each goes.
Interleaved(blocks) ==
  LET Row(i) ==
        LET long == SelectSeq(blocks, LAMBDA b : i <= Len(b))
        IN  [j \in 1..Len(long) |-> long[j][i]]
  IN  FlattenSeq(Listed(Max({Len(blocks[b]) : b \in DOMAIN blocks}), Row))

\* _add_ec(), before it interleaves: the blocks of data.
Split(codewords, sizes) ==
  LET Start(b) == Fold(LAMBDA n, i : n + sizes[i], 0, b - 1)
  IN  [b \in DOMAIN sizes |-> SubSeq(codewords, Start(b) + 1, Start(b) + sizes[b])]

\* _add_ec()
Codewords(payload, version, ecl) ==
  LET data == Split(DataCodewords(payload, version, ecl), Blocks(version, ecl))
  IN  Interleaved(data)
        \o Interleaved([b \in DOMAIN data |-> Correction(data[b], PerBlock(version, ecl))])

-----------------------------------------------------------------------------
(* The function patterns, each drawn over the ones before it *)

Size(version) == version * 4 + 17
Square(size) == (0..size - 1) \X (0..size - 1)
Away(a, b) == IF a > b THEN a - b ELSE b - a
Corners(size) == {<<0, 0>>, <<0, size - 7>>, <<size - 7, 0>>}

\* _place_finder()
FinderArea(size) ==
  UNION {((c[1] - 1..c[1] + 7) \X (c[2] - 1..c[2] + 7)) \cap Square(size) :
         c \in Corners(size)}
FinderDark(size) ==
  UNION {{<<c[1] + p[1], c[2] + p[2]>> :
            p \in {q \in (0..6) \X (0..6) :
                     \/ q[1] \in {0, 6} \/ q[2] \in {0, 6}
                     \/ q[1] \in 2..4 /\ q[2] \in 2..4}} : c \in Corners(size)}

\* _ALIGNMENT
Centres(version) ==
  <<{}, {6, 18}, {6, 22}, {6, 26}, {6, 30}, {6, 34}, {6, 22, 38}, {6, 24, 42},
    {6, 26, 46}, {6, 28, 50}>>[version]

\* _place_alignment()
AlignmentAt(version) ==
  LET at == Centres(version) last == Size(version) - 7
  IN  (at \X at) \ {<<6, 6>>, <<6, last>>, <<last, 6>>}
AlignmentArea(version) ==
  UNION {(c[1] - 2..c[1] + 2) \X (c[2] - 2..c[2] + 2) : c \in AlignmentAt(version)}
AlignmentDark(version) ==
  UNION {{p \in (c[1] - 2..c[1] + 2) \X (c[2] - 2..c[2] + 2) :
            Max({Away(p[1], c[1]), Away(p[2], c[2])}) # 1} : c \in AlignmentAt(version)}

\* _place_timing()
TimingArea(size) == ({6} \X (8..size - 9)) \cup ((8..size - 9) \X {6})
TimingDark(size) == {p \in TimingArea(size) : p[1] % 2 = 0 /\ p[2] % 2 = 0}

\* _reserve_format() and the dark module
FormatArea(version) ==
  LET size == Size(version)
      strip == (0..8) \cup (size - 8..size - 1)
      block == (size - 11..size - 9) \X (0..5)
  IN  ({8} \X ((0..8) \cup (size - 8..size - 1)))
        \cup (strip \X {8})
        \cup (IF version >= 7 THEN block \cup {<<p[2], p[1]>> : p \in block} ELSE {})

Reserved(version) ==
  FinderArea(Size(version)) \cup AlignmentArea(version) \cup TimingArea(Size(version))
    \cup FormatArea(version)

\* What _place_finder(), _place_alignment() and _place_timing() leave dark.
FunctionDark(version) ==
  LET size == Size(version)
      placed == (FinderDark(size) \ AlignmentArea(version)) \cup AlignmentDark(version)
  IN  (placed \ TimingArea(size)) \cup TimingDark(size)

-----------------------------------------------------------------------------
(* The data *)

\* The right column of the n-th strip, counted from 0; column 6 is skipped.
StripColumn(size, n) == LET col == size - 1 - 2 * n IN IF col > 6 THEN col ELSE col - 1

\* The order in which _place_data() goes through the modules it may write.
Zigzag(version) ==
  LET size == Size(version)
      reserved == Reserved(version)
      Strip(n) ==
        [k \in 1..2 * size |->
          LET step == (k - 1) \div 2
          IN  <<IF n % 2 = 0 THEN size - 1 - step ELSE step,
                StripColumn(size, n) - ((k - 1) % 2)>>]
      all == FlattenSeq([n \in 1..(size - 1) \div 2 |-> Strip(n - 1)])
  IN  SelectSeq(all, LAMBDA p : p \notin reserved)

\* _place_data(): the modules its bits darken.
DataDark(codewords, version) ==
  LET way == Zigzag(version)
      bits == BitsOf(codewords)
  IN  {way[i] : i \in {j \in 1..Min({Len(way), Len(bits)}) : bits[j]}}

-----------------------------------------------------------------------------
(* Masks and format *)

\* _mask_condition()
Masks(mask, p) ==
  LET row == p[1] col == p[2]
  IN  CASE mask = 0 -> (row + col) % 2 = 0
        [] mask = 1 -> row % 2 = 0
        [] mask = 2 -> col % 3 = 0
        [] mask = 3 -> (row + col) % 3 = 0
        [] mask = 4 -> (row \div 2 + col \div 3) % 2 = 0
        [] mask = 5 -> ((row * col) % 2) + ((row * col) % 3) = 0
        [] mask = 6 -> (((row * col) % 2) + ((row * col) % 3)) % 2 = 0
        [] mask = 7 -> (((row + col) % 2) + ((row * col) % 3)) % 2 = 0

\* The remainder of a division over GF(2), as both BCH codes take it.
Remainder(word, divisor) ==
  LET degree == Max(divisor)
      Reduce(rest, i) ==
        IF i \in rest THEN SymDiff(rest, {k + i - degree : k \in divisor}) ELSE rest
  IN  Fold(LAMBDA rest, j : Reduce(rest, degree + 8 - j), word, 8)

\* _format_bits()
FormatBits(ecl, mask) ==
  LET value == {k + 13 : k \in LevelBits[ecl]} \cup {k + 10 : k \in Byte(mask)}
  IN  SymDiff(value \cup Remainder(value, {10, 8, 5, 4, 2, 1, 0}), {14, 12, 10, 4, 1})

\* _version_bits()
VersionBits(version) ==
  LET value == {k + 12 : k \in Byte(version)}
  IN  value \cup Remainder(value, {12, 11, 10, 9, 8, 5, 2, 0})

\* Where _apply_format() puts bit number 14 - i of the format, in either copy.
FormatPlaces(size, i) ==
  {IF i < 6 THEN <<8, i>> ELSE IF i = 6 THEN <<8, 7>> ELSE IF i = 7 THEN <<8, 8>>
   ELSE IF i = 8 THEN <<7, 8>> ELSE <<14 - i, 8>>}
    \cup (IF i < 8 THEN {<<size - 1 - i, 8>>} ELSE {})
    \cup (IF i >= 7 THEN {<<8, size - 15 + i>>} ELSE {})

\* _apply_format(): what it darkens of the modules reserved for it.
FormatDark(ecl, mask, version) ==
  LET size == Size(version)
      bits == FormatBits(ecl, mask)
      number == VersionBits(version)
      Block(i) == LET row == i \div 3 col == i % 3
                  IN  {<<size - 11 + col, row>>, <<row, size - 11 + col>>}
  IN  UNION {FormatPlaces(size, i) : i \in {j \in 0..14 : 14 - j \in bits}}
        \cup {<<size - 8, 8>>}
        \cup (IF version >= 7 THEN UNION {Block(i) : i \in number} ELSE {})

\* _masked()
Masked(dark, ecl, mask, version) ==
  LET open == Square(Size(version)) \ Reserved(version)
  IN  SymDiff(dark, {p \in open : Masks(mask, p)}) \cup FormatDark(ecl, mask, version)

-----------------------------------------------------------------------------
(* The choice of a mask *)

\* The lines of a symbol, as sequences: its rows and its columns.
Lines(size) ==
  {<<way, n>> : way \in {"row", "column"}, n \in 0..size - 1}
Module(dark, line, i) ==
  (IF line[1] = "row" THEN <<line[2], i>> ELSE <<i, line[2]>>) \in dark

\* The lengths of the runs of one colour, by the module each ends at.
Runs(dark, line, size) ==
  LET ends == {i \in 0..size - 1 :
                 i = size - 1 \/ Module(dark, line, i) # Module(dark, line, i + 1)}
  IN  [e \in ends |-> e - Max({-1} \cup {d \in ends : d < e})]

\* Like a finder, with light modules on one side; the quiet zone is light.
FinderLike == LET right == <<TRUE, FALSE, TRUE, TRUE, TRUE, FALSE, TRUE,
                             FALSE, FALSE, FALSE, FALSE>>
              IN  {right, Reverse(right)}

\* The smallest k >= 0 for which the dark share lies within 50% +- 5(k + 1).
Imbalance(darkCount, total) ==
  Max({0, (Away(darkCount * 20, total * 10) + total - 1) \div total - 1})

\* _penalty()
Penalty(dark, size) ==
  LET lines == Lines(size)
      RunScore(line) ==
        LET runs == Runs(dark, line, size)
        IN  MapThenSumSet(LAMBDA e : IF runs[e] >= 5 THEN runs[e] - 2 ELSE 0, DOMAIN runs)
      Uniform(p) == LET block == {p, <<p[1] + 1, p[2]>>, <<p[1], p[2] + 1>>,
                                  <<p[1] + 1, p[2] + 1>>}
                    IN  block \subseteq dark \/ block \cap dark = {}
      Alike(line) ==
        {i \in -4..size - 7 :
           [k \in 1..11 |-> Module(dark, line, i + k - 1)] \in FinderLike}
  IN  MapThenSumSet(RunScore, lines)
        + 3 * Cardinality({p \in Square(size - 1) : Uniform(p)})
        + 40 * MapThenSumSet(LAMBDA line : Cardinality(Alike(line)), lines)
        + 10 * Imbalance(Cardinality(dark), size * size)

\* What encode() has drawn before it masks.
Drawn(payload, ecl, version) ==
  FunctionDark(version) \cup DataDark(Codewords(payload, version, ecl), version)

\* _best_mask(): the first of those with the lowest penalty.
BestMask(dark, ecl, version) ==
  LET score == [m \in 0..7 |-> Penalty(Masked(dark, ecl, m, version), Size(version))]
  IN  CHOOSE m \in 0..7 :
        \A n \in 0..7 : score[m] < score[n] \/ (score[m] = score[n] /\ m <= n)

=============================================================================
