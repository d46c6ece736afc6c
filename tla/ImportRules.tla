----------------------------- MODULE ImportRules ----------------------------
(***************************************************************************)
(* What the four importers make of a file: actuals (accounts/), budgets    *)
(* (budget_uploads/), personnel and shared costs, over the shared helpers  *)
(* of _shared/row_validation.py and infra/tabular.py.  Cells are classes:  *)
(* a unit or an account that is known, unknown or blank; an amount in      *)
(* thousandths, or what Decimal() does not take.                           *)
(***************************************************************************)
EXTENDS Integers, Sequences

CONSTANTS
    Amounts,     \* amounts looked at, in thousandths
    MaxRows,     \* bound: the longest file looked at
    Pending      \* no result yet

ASSUME ImportAssumption == Amounts \subseteq Int /\ MaxRows \in Nat

VARIABLES
    file,        \* a file: what it is imported as, its columns, its rows
    result       \* what validation makes of it

filevars == <<file, result>>

Importers == {"actuals", "budget", "personnel", "shared"}
Columns == {"org_unit_code", "account_code", "amount", "other", "blank"}
UnitCells == {"known", "unknown", "blank"}
AccountCells == {"operational", "personnel", "shared_cost", "unknown", "blank"}
AmountCells == {[kind |-> "number", mills |-> n] : n \in Amounts}
               \cup {[kind |-> k, mills |-> 0] : k \in {"blank", "text", "nan"}}

Row == [unit: UnitCells, account: AccountCells, amount: AmountCells]
BlankCell == [kind |-> "blank", mills |-> 0]
BlankRow == [unit |-> "blank", account |-> "blank", amount |-> BlankCell]
-----------------------------------------------------------------------------
(* csv_io.parse_dicts and excel.read_rows, row by row: those without any   *)
(* text are dropped, so rows are numbered without them.                    *)
WithoutBlanks(rows) ==
    LET kept[i \in 0..Len(rows)] ==
          IF i = 0 THEN <<>>
          ELSE IF rows[i] = BlankRow THEN kept[i - 1] ELSE Append(kept[i - 1], rows[i])
    IN  kept[Len(rows)]

parse_dicts(rows) == WithoutBlanks(rows)
read_rows(rows)   == WithoutBlanks(rows)

(* A budget is a workbook, the others come as either. *)
parse_table(importer, rows) == IF importer = "budget" THEN read_rows(rows) ELSE parse_dicts(rows)

(* A row under the columns a file has: a column it lacks reads as None. *)
Under(columns, row) ==
    [unit    |-> IF "org_unit_code" \in columns THEN row.unit ELSE "blank",
     account |-> IF "account_code" \in columns THEN row.account ELSE "blank",
     amount  |-> IF "amount" \in columns THEN row.amount ELSE BlankCell]

Required == {"org_unit_code", "account_code", "amount"}

(* The header checks.  Actuals want the three columns and a row ... *)
ActualsHeaders(columns, rows) == rows # <<>> /\ Required \subseteq columns

(* ... personnel want the three and refuse any other, a blank one too ... *)
PersonnelHeaders(columns, rows) == rows = <<>> \/ columns = Required

(* ... shared costs refuse unknown ones and skip blank ones. *)
SharedHeaders(columns, rows) == rows = <<>> \/ "other" \notin columns

(* A budget workbook's columns are not looked at.  (dept_id is an alias of *)
(* org_unit_code.)                                                         *)
normalize_headers(importer, columns, rows) ==
    CASE importer = "actuals"   -> ActualsHeaders(columns, rows)
      [] importer = "personnel" -> PersonnelHeaders(columns, rows)
      [] importer = "shared"    -> SharedHeaders(columns, rows)
      [] importer = "budget"    -> TRUE

(* Decimal.quantize(0.01, ROUND_HALF_EVEN), thousandths to hundredths. *)
quantize(n) ==
    LET low == n \div 10  half == n % 10
    IN  IF half < 5 \/ (half = 5 /\ low % 2 = 0) THEN low ELSE low + 1

(* parse_amount: the amount in hundredths, or -1 where it raises.  The     *)
(* sign and zero are asked of the value as written, before it is rounded.  *)
parse_amount(cell, allow_zero) ==
    IF cell.kind # "number" \/ cell.mills < 0 \/ (cell.mills = 0 /\ ~allow_zero)
    THEN -1
    ELSE quantize(cell.mills)

AllowZero(importer) == importer \in {"actuals", "budget"}

AccountsOf(importer) ==
    CASE importer = "actuals"   -> {"operational", "personnel", "shared_cost"}
      [] importer = "budget"    -> {"operational"}
      [] importer = "personnel" -> {"personnel"}
      [] importer = "shared"    -> {"shared_cost"}

(* ActualsRowValidator._validate_row: every column of a row is judged. *)
ActualsErrors(row) ==
    (IF row.unit = "known" THEN {} ELSE {"ACCOUNT_002 unit"})
    \cup (IF row.account \in AccountsOf("actuals") THEN {} ELSE {"ACCOUNT_002 account"})
    \cup (IF parse_amount(row.amount, TRUE) = -1 THEN {"ACCOUNT_002 amount"} ELSE {})

(* BudgetUploadValidator._validate_rows: the first fault of a row. *)
BudgetErrors(row) ==
    IF row.account \notin AccountsOf("budget") THEN {"UPLOAD_004"}
    ELSE IF row.amount.kind = "blank" THEN {"UPLOAD_004"}
    ELSE IF parse_amount(row.amount, TRUE) # -1 THEN {}
    ELSE IF row.amount.kind = "number" THEN {"UPLOAD_006"} ELSE {"UPLOAD_005"}

(* (mutant: the unit is not looked at.) *)
CostErrorsAnyUnit(importer, row) ==
    IF row.account \notin AccountsOf(importer) THEN {"002"}
    ELSE IF parse_amount(row.amount, FALSE) = -1 THEN {"003"} ELSE {}

(* PersonnelImportValidator.validate and SharedCostImportValidator.        *)
(* validate, row by row: the first fault.                                  *)
CostErrors(importer, row) ==
    IF row.unit # "known" THEN {"001"}
    ELSE IF row.account \notin AccountsOf(importer) THEN {"002"}
    ELSE IF parse_amount(row.amount, FALSE) = -1 THEN {"003"} ELSE {}

RowErrors(importer, row) ==
    CASE importer = "actuals" -> ActualsErrors(row)
      [] importer = "budget"  -> BudgetErrors(row)
      [] OTHER                -> CostErrors(importer, row)

(* The row number an error carries: actuals and personnel count the rows   *)
(* that were read, budgets and shared costs add the header.                *)
Number(importer, i) == IF importer \in {"budget", "shared"} THEN i + 1 ELSE i

(* A whole file: refused for its headers (row 0), refused with the numbers *)
(* of its faulty rows, or accepted with the amounts of its lines.          *)
validate(importer, columns, rows) ==
    LET read   == parse_table(importer, rows)
        faulty == {i \in DOMAIN read : RowErrors(importer, Under(columns, read[i])) # {}}
    IN  IF ~normalize_headers(importer, columns, read)
        THEN [ok |-> FALSE, errors |-> {0}, lines |-> <<>>]
        ELSE [ok     |-> faulty = {},
              errors |-> {Number(importer, i) : i \in faulty},
              lines  |-> IF faulty # {} THEN <<>>
                         ELSE [i \in DOMAIN read |->
                                parse_amount(read[i].amount, AllowZero(importer))]]
-----------------------------------------------------------------------------
(* What the documents ask of a row, in one line. *)
Good(importer, row) ==
    /\ importer # "budget" => row.unit = "known"
    /\ row.account \in AccountsOf(importer)
    /\ row.amount.kind = "number"
    /\ IF AllowZero(importer) THEN row.amount.mills >= 0 ELSE row.amount.mills > 0

Files ==
    [importer: Importers,
     columns: {Required, Required \ {"amount"}, Required \cup {"other"}, Required \cup {"blank"}},
     rows: UNION {[1..n -> Row] : n \in 0..MaxRows}]

FileInit == file \in Files /\ result = Pending

Judge ==
    /\ result = Pending
    /\ result' = validate(file.importer, file.columns, file.rows)
    /\ UNCHANGED file

FileSpec == FileInit /\ [][Judge]_filevars

(* What was read is the rows that hold something, in their order. *)
ReadInOrder(rows, read) ==
    \E at \in [DOMAIN read -> DOMAIN rows] :
      /\ \A i, j \in DOMAIN read : i < j => at[i] < at[j]
      /\ \A i \in DOMAIN read : read[i] = rows[at[i]]
      /\ \A k \in DOMAIN rows : rows[k] # BlankRow <=> \E i \in DOMAIN read : at[i] = k

Complete(f, judged) ==
    LET read   == parse_table(f.importer, f.rows)
        seen   == [i \in DOMAIN read |-> Under(f.columns, read[i])]
        faulty == {i \in DOMAIN read : ~Good(f.importer, seen[i])}
    IN  /\ ReadInOrder(f.rows, read)
        /\ IF judged.ok
           THEN faulty = {} /\ Len(judged.lines) = Len(read)
           ELSE judged.lines = <<>> /\ judged.errors # {}
        /\ judged.errors # {0} => judged.errors = {Number(f.importer, i) : i \in faulty}
        /\ \A i \in DOMAIN judged.lines :
             LET mills == seen[i].amount.mills IN
             /\ 10 * judged.lines[i] - mills \in -5..5
             /\ judged.lines[i] = 0 => AllowZero(f.importer) \/ mills \in 1..5

(* All or nothing, and the whole truth: the rows that hold something are   *)
(* read in their order, and a file with rows is accepted exactly if its    *)
(* headers pass and every row is good; a refused one names each faulty row *)
(* and no other (by its place among the rows that were read) and yields no *)
(* line.  An accepted amount is what was written, rounded to the cent: it  *)
(* fits the table's CHECK unless the amount was less than a cent.          *)
ValidationComplete == result # Pending => Complete(file, result)
=============================================================================
