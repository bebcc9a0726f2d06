----------------------------- MODULE MCCompiler -----------------------------
(***************************************************************************)
(* The opening of a sub-account: inquiry, member view, form, receipt, and  *)
(* the way back to the member view, where the new account is read.  All    *)
(* pages but the first are frames of one top document; the statement has   *)
(* no heading, and the receipt may be slow to show.                        *)
(***************************************************************************)
EXTENDS Compiler

Pages == {"inquiry", "member", "form", "receipt", "statement"}

Headings == [p \in Pages |-> CASE p = "inquiry" -> "Inquiry"
                               [] p = "member" -> "Member"
                               [] p = "form" -> "Open account"
                               [] p = "receipt" -> "Receipt"
                               [] p = "statement" -> None]

Routes == [p \in Pages |-> IF p = "inquiry" THEN "/inquiry" ELSE "/workspace"]

Step(action, target, to) ==
  [action |-> action, target |-> target, risk |-> "read_only", param |-> None,
   output |-> None, to |-> to]

TypeNumber == [Step("type", "number", "inquiry") EXCEPT !.param = "member_number"]
Search == Step("click", "search", "member")
Open == Step("click", "open", "form")
TypeAmount == [Step("type", "amount", "form") EXCEPT !.param = "amount"]
Create(to) == [Step("click", "create", to) EXCEPT !.risk = "consequential_write"]
Back(to) == Step("click", "back", to)
Show(p) == Step("click", p, p)
ReadStatus(p) == [Step("extract", "status_cell", p) EXCEPT !.output = "status"]
ReadBalance == [Step("extract", "balance_cell", "member") EXCEPT !.output = "balance"]

\* The status shows on every page but the form; the write may lead back to the
\* first page.
TellerMoves ==
  [p \in Pages |->
    CASE p = "inquiry" -> {TypeNumber, Search, ReadStatus("inquiry")}
      [] p = "member" -> {Open, Back("inquiry"), Show("receipt"), Show("statement"),
                          ReadStatus("member"), ReadBalance}
      [] p = "form" -> {TypeAmount, Create("receipt"), Create("inquiry"), Back("member")}
      [] p = "receipt" -> {Back("member"), ReadStatus("receipt")}
      [] p = "statement" -> {Back("member"), ReadStatus("statement")}]

Targets ==
  {"number", "search", "open", "amount", "create", "back", "receipt", "statement",
   "status_cell", "balance_cell"}

Effects == [t \in Targets |-> IF t = "balance_cell" THEN None ELSE t]

OneBinding ==
  {[action |-> "click", target |-> "back", code |-> "RECORD_LOCKED"]}

=============================================================================
