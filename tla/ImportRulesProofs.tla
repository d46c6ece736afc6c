-------------------------- MODULE ImportRulesProofs --------------------------
(***************************************************************************)
(* What the importers make of a file, of any length and with any amounts:  *)
(* the rows are read in their order, blank ones dropped, and each is       *)
(* judged as the documents ask.                                            *)
(***************************************************************************)
EXTENDS ImportRules, SequenceTheorems, WellFoundedInduction, TLAPS

\* A set of naturals that is not empty has a smallest member.
LEMMA SmallestNat ==
    ASSUME NEW T \in SUBSET Nat, T # {}
    PROVE  \E n \in T : \A m \in T : n <= m
<1> DEFINE R == OpToRel(<, Nat)
<1>1. PICK n \in T : \A m \in T : <<m, n>> \notin R
  <2>1. IsWellFoundedOn(R, Nat)
    BY NatLessThanWellFounded
  <2> HIDE DEF R
  <2> QED
    BY <2>1, WFMin
<1>2. \A m \in T : ~ (m < n)
  BY <1>1 DEF OpToRel
<1> QED
  BY <1>2

\* So a set that holds 0, and with a number below N the next one, holds
\* them all.
LEMMA UpTo ==
    ASSUME NEW N \in Nat, NEW T, 0 \in T, \A n \in 0..N : n < N /\ n \in T => n + 1 \in T
    PROVE  0..N \subseteq T
<1> SUFFICES ASSUME NEW k \in 0..N, k \notin T PROVE FALSE
  OBVIOUS
<1> DEFINE Rest == 0..N \ T
<1>1. PICK n \in Rest : \A m \in Rest : n <= m
  <2>1. Rest \in SUBSET Nat /\ Rest # {}
    OBVIOUS
  <2> HIDE DEF Rest
  <2> QED
    BY <2>1, SmallestNat
<1>2. n # 0 /\ n - 1 \in 0..N /\ n - 1 < N
  BY <1>1
<1>3. n - 1 \in T
  BY <1>1, <1>2
<1> QED
  BY <1>1, <1>2, <1>3
-----------------------------------------------------------------------------
(* One row more, and the rows kept as a function of how many were read.    *)
With(rows, i, last) == IF rows[i] = BlankRow THEN last ELSE Append(last, rows[i])

IsKept(rows, N, g) == g = [i \in 0..N |-> IF i = 0 THEN <<>> ELSE With(rows, i, g[i - 1])]

\* There is one, however many rows there are.
LEMMA KeptExists ==
    ASSUME NEW rows, NEW N \in Nat
    PROVE  \E g : IsKept(rows, N, g)
<1> DEFINE T == {n \in 0..N : \E g : IsKept(rows, n, g)}
<1>1. 0 \in T
  <2> DEFINE g == [n \in 0..0 |-> <<>>]
  <2>1. IsKept(rows, 0, g)
    BY DEF IsKept
  <2> HIDE DEF g
  <2> QED
    BY <2>1
<1>2. ASSUME NEW n \in 0..N, n < N, n \in T PROVE n + 1 \in T
  <2>1. PICK g : IsKept(rows, n, g)
    BY <1>2
  <2> DEFINE h == [m \in 0..(n + 1) |-> IF m = n + 1 THEN With(rows, n + 1, g[n]) ELSE g[m]]
  <2>2. \A m \in 0..n : g[m] = IF m = 0 THEN <<>> ELSE With(rows, m, g[m - 1])
    BY <2>1 DEF IsKept
  <2>3. \A m \in 0..(n + 1) : h[m] = IF m = 0 THEN <<>> ELSE With(rows, m, h[m - 1])
    <3> TAKE m \in 0..(n + 1)
    <3>1. CASE m = n + 1
      <4>1. h[m] = With(rows, m, g[n]) /\ h[m - 1] = g[n] /\ m # 0
        BY <3>1
      <4> QED
        BY <4>1
    <3>2. CASE m # n + 1
      <4>1. m \in 0..n /\ h[m] = g[m] /\ (m # 0 => h[m - 1] = g[m - 1])
        BY <3>2
      <4> QED
        BY <4>1, <2>2
    <3> QED
      BY <3>1, <3>2
  <2>4. IsKept(rows, n + 1, h)
    <3>1. h = [m \in 0..(n + 1) |-> h[m]]
      OBVIOUS
    <3> HIDE DEF h
    <3> QED
      BY <2>3, <3>1 DEF IsKept
  <2>5. n + 1 \in 0..N
    BY <1>2
  <2> HIDE DEF h
  <2> QED
    BY <2>4, <2>5
<1>3. N \in T
  <2> HIDE DEF T
  <2>1. 0..N \subseteq T
    BY <1>1, <1>2, UpTo
  <2> QED
    BY <2>1
<1> QED
  BY <1>3

(* Some rows of the first n, at the places at: in order, and none is left  *)
(* out but the blank ones.                                                 *)
At(rows, n, read, at) ==
    /\ read \in Seq(Row) /\ at \in [1..Len(read) -> 1..n]
    /\ \A i, j \in 1..Len(read) : i < j => at[i] < at[j]
    /\ \A i \in 1..Len(read) : read[i] = rows[at[i]]
    /\ \A k \in 1..n : rows[k] # BlankRow <=> \E i \in 1..Len(read) : at[i] = k

LEMMA WithKeeps ==
    ASSUME NEW rows \in Seq(Row), NEW n \in Nat, n + 1 \in 1..Len(rows), NEW last, \E at : At(rows, n, last, at)
    PROVE  \E at : At(rows, n + 1, With(rows, n + 1, last), at)
<1>1. PICK at : At(rows, n, last, at)
  OBVIOUS
<1>2. PICK L \in Nat : L = Len(last) /\ last \in Seq(Row) /\ at \in [1..L -> 1..n]
  BY <1>1, LenProperties DEF At
<1>3. rows[n + 1] \in Row
  BY ElementOfSeq
<1>4. CASE rows[n + 1] = BlankRow
  <2>1. With(rows, n + 1, last) = last
    BY <1>4 DEF With
  <2>2. at \in [1..L -> 1..(n + 1)] /\ \A i \in 1..L : at[i] # n + 1
    BY <1>2
  <2>3. \A k \in 1..(n + 1) : rows[k] # BlankRow <=> \E i \in 1..L : at[i] = k
    <3> TAKE k \in 1..(n + 1)
    <3>1. CASE k = n + 1
      BY <1>4, <2>2, <3>1
    <3>2. CASE k # n + 1
      <4>1. k \in 1..n
        BY <3>2
      <4> QED
        BY <1>1, <1>2, <4>1 DEF At
    <3> QED
      BY <3>1, <3>2
  <2>4. At(rows, n + 1, last, at)
    BY <1>1, <1>2, <2>2, <2>3 DEF At
  <2> QED
    BY <2>1, <2>4
<1>5. CASE rows[n + 1] # BlankRow
  <2>1. PICK more : more = Append(last, rows[n + 1]) /\ more = With(rows, n + 1, last)
    BY <1>5 DEF With
  <2>2. /\ more \in Seq(Row) /\ Len(more) = L + 1
        /\ \A i \in 1..L : more[i] = last[i]
        /\ more[L + 1] = rows[n + 1]
    <3>1. last \in Seq(Row) /\ rows[n + 1] \in Row
      BY <1>2, <1>3
    <3>2. /\ Append(last, rows[n + 1]) \in Seq(Row) /\ Len(Append(last, rows[n + 1])) = Len(last) + 1
          /\ \A i \in 1..Len(last) : Append(last, rows[n + 1])[i] = last[i]
          /\ Append(last, rows[n + 1])[Len(last) + 1] = rows[n + 1]
      BY <3>1, AppendProperties
    <3> QED
      BY <1>2, <2>1, <3>2
  <2>3. PICK up : up = [i \in 1..(L + 1) |-> IF i = L + 1 THEN n + 1 ELSE at[i]]
    OBVIOUS
  <2>4. /\ up \in [1..(L + 1) -> 1..(n + 1)] /\ up[L + 1] = n + 1
        /\ \A i \in 1..L : up[i] = at[i] /\ up[i] \in 1..n
    <3>1. \A i \in 1..(L + 1) : i # L + 1 => i \in 1..L
      OBVIOUS
    <3>2. \A i \in 1..L : at[i] \in 1..n /\ at[i] \in 1..(n + 1) /\ i # L + 1 /\ i \in 1..(L + 1)
      BY <1>2
    <3>3. L + 1 \in 1..(L + 1) /\ n + 1 \in 1..(n + 1)
      OBVIOUS
    <3> QED
      BY <2>3, <3>1, <3>2, <3>3
  <2>5. ASSUME NEW i \in 1..(L + 1), NEW j \in 1..(L + 1), i < j PROVE up[i] < up[j]
    <3>1. i \in 1..L
      BY <2>5
    <3>2. CASE j = L + 1
      BY <2>4, <3>1, <3>2
    <3>3. CASE j # L + 1
      <4>1. j \in 1..L
        BY <3>3
      <4> QED
        BY <1>1, <1>2, <2>4, <2>5, <3>1, <4>1 DEF At
    <3> QED
      BY <3>2, <3>3
  <2>6. ASSUME NEW i \in 1..(L + 1) PROVE more[i] = rows[up[i]]
    <3>1. CASE i = L + 1
      BY <2>2, <2>4, <3>1
    <3>2. CASE i # L + 1
      <4>1. i \in 1..L
        BY <3>2
      <4> QED
        BY <1>1, <1>2, <2>2, <2>4, <4>1 DEF At
    <3> QED
      BY <3>1, <3>2
  <2>7. \A k \in 1..(n + 1) : rows[k] # BlankRow <=> \E i \in 1..(L + 1) : up[i] = k
    <3> TAKE k \in 1..(n + 1)
    <3>1. CASE k = n + 1
      <4>1. L + 1 \in 1..(L + 1)
        OBVIOUS
      <4> QED
        BY <1>5, <2>4, <3>1, <4>1
    <3>2. CASE k # n + 1
      <4>1. k \in 1..n
        BY <3>2
      <4>2. rows[k] # BlankRow <=> \E i \in 1..L : at[i] = k
        BY <1>1, <1>2, <4>1 DEF At
      <4>3. \A i \in 1..(L + 1) : up[i] = k => i \in 1..L
        BY <2>4, <3>2
      <4>4. \A i \in 1..L : i \in 1..(L + 1)
        OBVIOUS
      <4> QED
        BY <2>4, <4>2, <4>3, <4>4
    <3> QED
      BY <3>1, <3>2
  <2>8. At(rows, n + 1, more, up)
    BY <2>2, <2>4, <2>5, <2>6, <2>7 DEF At
  <2> QED
    BY <2>1, <2>8
<1> QED
  BY <1>4, <1>5

(* What the readers return, for a file of any length. *)
LEMMA RowsAreRead ==
    ASSUME NEW rows \in Seq(Row)
    PROVE  WithoutBlanks(rows) \in Seq(Row) /\ ReadInOrder(rows, WithoutBlanks(rows))
<1>1. PICK N \in Nat : N = Len(rows) /\ DOMAIN rows = 1..N
  BY LenProperties
<1> DEFINE kept == CHOOSE g : IsKept(rows, N, g)
<1>2. WithoutBlanks(rows) = kept[N]
  BY <1>1 DEF WithoutBlanks, IsKept, With
<1>3. IsKept(rows, N, kept)
  BY KeptExists
<1> HIDE DEF kept
<1>4. \A i \in 0..N : kept[i] = IF i = 0 THEN <<>> ELSE With(rows, i, kept[i - 1])
  BY <1>3 DEF IsKept
<1> DEFINE T == {n \in 0..N : \E at : At(rows, n, kept[n], at)}
<1>5. 0 \in T
  <2>1. PICK at : at = [i \in 1..0 |-> 0]
    OBVIOUS
  <2>2. kept[0] = <<>> /\ <<>> \in Seq(Row) /\ Len(<<>>) = 0
    BY <1>4, EmptySeq
  <2>3. at \in [1..0 -> 1..0]
    BY <2>1
  <2>4. At(rows, 0, <<>>, at)
    BY <2>2, <2>3 DEF At
  <2> QED
    BY <2>2, <2>4
<1>6. ASSUME NEW n \in 0..N, n < N, n \in T PROVE n + 1 \in T
  <2>1. n + 1 \in 0..N /\ n + 1 \in 1..Len(rows) /\ n \in Nat /\ (n + 1) - 1 = n /\ n + 1 # 0
    BY <1>1, <1>6
  <2>2. kept[n + 1] = With(rows, n + 1, kept[n])
    BY <1>4, <2>1
  <2>3. \E at : At(rows, n + 1, With(rows, n + 1, kept[n]), at)
    BY <1>6, <2>1, WithKeeps
  <2> QED
    BY <2>1, <2>2, <2>3
<1>7. N \in T
  <2> HIDE DEF T
  <2>1. 0..N \subseteq T
    BY <1>5, <1>6, UpTo
  <2> QED
    BY <2>1
<1>8. PICK read, at : read = kept[N] /\ At(rows, N, read, at)
  BY <1>7
<1>9. DOMAIN read = 1..Len(read)
  BY <1>8, LenProperties DEF At
<1>10. ReadInOrder(rows, read)
  <2>1. at \in [DOMAIN read -> DOMAIN rows]
    BY <1>1, <1>8, <1>9 DEF At
  <2>2. /\ \A i, j \in DOMAIN read : i < j => at[i] < at[j]
        /\ \A i \in DOMAIN read : read[i] = rows[at[i]]
    BY <1>8, <1>9 DEF At
  <2>3. \A k \in DOMAIN rows : rows[k] # BlankRow <=> \E i \in DOMAIN read : at[i] = k
    BY <1>1, <1>8, <1>9 DEF At
  <2> QED
    BY <2>1, <2>2, <2>3 DEF ReadInOrder
<1> QED
  BY <1>2, <1>8, <1>10 DEF At
-----------------------------------------------------------------------------
\* Amounts: half to even is never more than half a cent away.
LEMMA Rounded ==
    ASSUME NEW n \in Int, n >= 0
    PROVE  /\ quantize(n) \in Nat
           /\ 10 * quantize(n) - n \in -5..5
           /\ quantize(n) = 0 => n <= 5
<1> DEFINE low == n \div 10
           half == n % 10
<1>1. low \in Nat /\ half \in 0..9 /\ n = 10 * low + half
  OBVIOUS
<1>2. quantize(n) = IF half < 5 \/ (half = 5 /\ low % 2 = 0) THEN low ELSE low + 1
  BY DEF quantize
<1> HIDE DEF low, half
<1>3. CASE half < 5 \/ (half = 5 /\ low % 2 = 0)
  BY <1>1, <1>2, <1>3
<1>4. CASE ~(half < 5 \/ (half = 5 /\ low % 2 = 0))
  <2>1. half >= 5 /\ quantize(n) = low + 1
    BY <1>1, <1>2, <1>4
  <2> QED
    BY <1>1, <2>1
<1> QED
  BY <1>3, <1>4

LEMMA CellIs ==
    ASSUME NEW cell \in AmountCells
    PROVE  /\ cell.kind \in {"number", "blank", "text", "nan"}
           /\ cell.kind = "number" => cell.mills \in Int
BY ImportAssumption DEF AmountCells

\* parse_amount raises exactly for what is no amount, or one too small.
LEMMA Parsed ==
    ASSUME NEW cell \in AmountCells, NEW allow_zero \in BOOLEAN
    PROVE  parse_amount(cell, allow_zero) # -1
           <=> cell.kind = "number" /\ (IF allow_zero THEN cell.mills >= 0 ELSE cell.mills > 0)
<1>1. CASE cell.kind # "number" \/ cell.mills < 0 \/ (cell.mills = 0 /\ ~allow_zero)
  <2>1. parse_amount(cell, allow_zero) = -1
    BY <1>1 DEF parse_amount
  <2> QED
    BY <1>1, <2>1, CellIs
<1>2. CASE ~(cell.kind # "number" \/ cell.mills < 0 \/ (cell.mills = 0 /\ ~allow_zero))
  <2>1. cell.mills \in Int /\ cell.mills >= 0 /\ cell.kind = "number"
    BY <1>2, CellIs
  <2>2. parse_amount(cell, allow_zero) = quantize(cell.mills)
    BY <1>2 DEF parse_amount
  <2>3. quantize(cell.mills) # -1
    BY <2>1, Rounded
  <2> QED
    BY <1>2, <2>1, <2>2, <2>3
<1> QED
  BY <1>1, <1>2

\* A row has an error exactly if it is not good, whoever judges.
LEMMA RowsJudged ==
    ASSUME NEW importer \in Importers, NEW row \in Row
    PROVE  RowErrors(importer, row) = {} <=> Good(importer, row)
<1>1. row.amount \in AmountCells /\ row.amount.kind \in {"number", "blank", "text", "nan"}
  BY CellIs DEF Row
<1>2. /\ parse_amount(row.amount, TRUE) # -1 <=> row.amount.kind = "number" /\ row.amount.mills >= 0
      /\ parse_amount(row.amount, FALSE) # -1 <=> row.amount.kind = "number" /\ row.amount.mills > 0
  BY <1>1, Parsed
<1>3. CASE importer = "actuals"
  BY <1>2, <1>3 DEF RowErrors, ActualsErrors, Good, AllowZero
<1>4. CASE importer = "budget"
  BY <1>2, <1>4 DEF RowErrors, BudgetErrors, Good, AllowZero
<1>5. CASE importer \in {"personnel", "shared"}
  BY <1>2, <1>5 DEF RowErrors, CostErrors, Good, AllowZero
<1> QED
  BY <1>3, <1>4, <1>5 DEF Importers

LEMMA UnderIs ==
    ASSUME NEW columns, NEW row \in Row
    PROVE  /\ Under(columns, row) \in Row
           /\ Under(columns, row).amount = row.amount \/ Under(columns, row).amount.kind = "blank"
BY DEF Under, Row, UnitCells, AccountCells, AmountCells, BlankCell

\* The amounts of an accepted file.
LEMMA LinesKept ==
    ASSUME NEW importer \in Importers, NEW columns, NEW row \in Row, Good(importer, Under(columns, row))
    PROVE  LET line  == parse_amount(row.amount, AllowZero(importer))
               mills == Under(columns, row).amount.mills
           IN  /\ line \in Nat
               /\ 10 * line - mills \in -5..5
               /\ line = 0 => AllowZero(importer) \/ mills \in 1..5
<1>1. PICK cell \in AmountCells : /\ cell = row.amount /\ cell = Under(columns, row).amount /\ cell.kind = "number"
                                  /\ IF AllowZero(importer) THEN cell.mills >= 0 ELSE cell.mills > 0
  BY UnderIs DEF Good, Row
<1>2. cell.mills \in Int /\ cell.mills >= 0
  BY <1>1, CellIs
<1>3. parse_amount(cell, AllowZero(importer)) = quantize(cell.mills)
  BY <1>1, <1>2 DEF parse_amount
<1> QED
  BY <1>1, <1>2, <1>3, Rounded

\* A whole file.
LEMMA FileJudged ==
    ASSUME NEW importer \in Importers, NEW columns, NEW rows \in Seq(Row)
    PROVE  Complete([importer |-> importer, columns |-> columns, rows |-> rows], validate(importer, columns, rows))
<1>1. PICK read \in Seq(Row) : read = parse_table(importer, rows) /\ ReadInOrder(rows, read)
  BY RowsAreRead DEF parse_table, parse_dicts, read_rows
<1>2. PICK N \in Nat : N = Len(read) /\ DOMAIN read = 1..N /\ \A i \in 1..N : read[i] \in Row
  BY LenProperties, ElementOfSeq
<1> DEFINE seen   == [i \in 1..N |-> Under(columns, read[i])]
           faulty == {i \in 1..N : ~Good(importer, seen[i])}
           errors == {Number(importer, i) : i \in faulty}
           lines  == [i \in 1..N |-> parse_amount(read[i].amount, AllowZero(importer))]
           judged == validate(importer, columns, rows)
<1>3. faulty = {i \in 1..N : RowErrors(importer, Under(columns, read[i])) # {}}
  <2>1. \A i \in 1..N : RowErrors(importer, Under(columns, read[i])) # {} <=> ~Good(importer, seen[i])
    BY <1>2, UnderIs, RowsJudged
  <2> QED
    BY <2>1
<1>4. judged = IF ~normalize_headers(importer, columns, read)
               THEN [ok |-> FALSE, errors |-> {0}, lines |-> <<>>]
               ELSE [ok |-> faulty = {}, errors |-> errors, lines |-> IF faulty # {} THEN <<>> ELSE lines]
  <2> HIDE DEF faulty
  <2> QED
    BY <1>1, <1>2, <1>3 DEF validate
<1> HIDE DEF judged
<1>5. faulty # {} => errors # {}
  OBVIOUS
<1>6. ASSUME faulty = {}
      PROVE  /\ Len(lines) = N
             /\ \A i \in 1..N : /\ 10 * lines[i] - seen[i].amount.mills \in -5..5
                                /\ lines[i] = 0 => AllowZero(importer) \/ seen[i].amount.mills \in 1..5
  <2>1. \A i \in 1..N : Good(importer, Under(columns, read[i]))
    BY <1>6
  <2>2. \A i \in 1..N : /\ lines[i] \in Nat
                        /\ 10 * lines[i] - seen[i].amount.mills \in -5..5
                        /\ lines[i] = 0 => AllowZero(importer) \/ seen[i].amount.mills \in 1..5
    BY <1>2, <2>1, LinesKept
  <2>3. lines \in Seq(Nat) /\ DOMAIN lines = 1..N
    <3>1. lines \in [1..N -> Nat]
      BY <2>2
    <3> HIDE DEF lines
    <3> QED
      BY <3>1, SeqDef
  <2>4. Len(lines) = N
    <3> HIDE DEF lines
    <3> QED
      BY <2>3, LenProperties
  <2> QED
    BY <2>2, <2>4
<1>7. /\ IF judged.ok THEN faulty = {} /\ Len(judged.lines) = N ELSE judged.lines = <<>> /\ judged.errors # {}
      /\ judged.errors # {0} => judged.errors = errors
      /\ judged.lines = <<>> \/ (faulty = {} /\ judged.lines = lines)
  <2> HIDE DEF faulty, errors, lines
  <2>1. CASE ~normalize_headers(importer, columns, read)
    BY <1>4, <2>1
  <2>2. CASE normalize_headers(importer, columns, read) /\ faulty = {}
    BY <1>4, <1>6, <2>2
  <2>3. CASE normalize_headers(importer, columns, read) /\ faulty # {}
    BY <1>4, <1>5, <2>3
  <2> QED
    BY <2>1, <2>2, <2>3
<1>8. \A i \in DOMAIN judged.lines :
        /\ 10 * judged.lines[i] - seen[i].amount.mills \in -5..5
        /\ judged.lines[i] = 0 => AllowZero(importer) \/ seen[i].amount.mills \in 1..5
  <2>1. CASE judged.lines = <<>>
    BY <2>1
  <2>2. CASE faulty = {} /\ judged.lines = lines
    <3>1. DOMAIN lines = 1..N
      OBVIOUS
    <3> HIDE DEF faulty, lines, seen
    <3> QED
      BY <1>6, <2>2, <3>1
  <2> HIDE DEF faulty, lines, seen
  <2> QED
    BY <1>7, <2>1, <2>2
<1>9. seen = [i \in DOMAIN read |-> Under(columns, read[i])]
  BY <1>2
<1>10. faulty = {i \in DOMAIN read : ~Good(importer, seen[i])}
  BY <1>2
<1> DEFINE f == [importer |-> importer, columns |-> columns, rows |-> rows]
<1>11. f.importer = importer /\ f.columns = columns /\ f.rows = rows
  OBVIOUS
<1> HIDE DEF f, seen, faulty
<1> QED
  BY <1>1, <1>2, <1>7, <1>8, <1>9, <1>10, <1>11 DEF Complete, judged, f
-----------------------------------------------------------------------------
FileInv ==
    /\ file \in Files
    /\ result # Pending => result = validate(file.importer, file.columns, file.rows)

LEMMA FilesAreSequences ==
    ASSUME NEW f \in Files
    PROVE  f.importer \in Importers /\ f.rows \in Seq(Row)
           /\ f = [importer |-> f.importer, columns |-> f.columns, rows |-> f.rows]
<1>1. PICK n \in Nat : f.rows \in [1..n -> Row]
  BY ImportAssumption DEF Files
<1> QED
  BY <1>1, SeqDef DEF Files

(* The validators accept a file exactly if its headers pass and every row  *)
(* is good, name each faulty row and no other, keep no line of a refused   *)
(* file, and change an accepted amount only by rounding: for files of any  *)
(* length, and for every amount, parse_amount's ROUND_HALF_EVEN included.  *)
THEOREM FilesAreJudged == FileSpec => []ValidationComplete
<1>1. FileInit => FileInv
  BY DEF FileInit, FileInv
<1>2. FileInv /\ [Judge]_filevars => FileInv'
  BY DEF FileInv, Judge, filevars
<1>3. FileInv => ValidationComplete
  BY FilesAreSequences, FileJudged DEF FileInv, ValidationComplete
<1> QED
  BY <1>1, <1>2, <1>3, PTL DEF FileSpec
=============================================================================
