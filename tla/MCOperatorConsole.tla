-------------------------- MODULE MCOperatorConsole --------------------------
(***************************************************************************)
(* A shell with one workspace frame, whose documents show the same control  *)
(* twice, in two cases, behind a dialog, in both frames, or out of scope.   *)
(***************************************************************************)
EXTENDS OperatorConsole

TwoFrames == << "top", "work" >>
Documents == {"shell", "profile", "dialog", "outside"}
Controls_ == {"OK", "ok", "Help"}
Cells == {"savings"}

On(listed, modal, cells, headings, url) ==
  [listed |-> listed, modal |-> modal, cells |-> [c \in Cells |-> cells],
   matches |-> [c \in Controls_ |-> Len(SelectSeq(listed, LAMBDA d : d = c))],
   headings |-> headings, texts |-> Range(headings), url |-> url]

Pages ==
  [shell |-> On(<< "Help" >>, << >>, << >>, << >>, "core"),
   profile |-> On(<< "OK", "" >>, << >>, << "1250" >>, << "Member" >>, "core/member"),
   dialog |-> On(<< "OK", "ok", "Help" >>, << << "ok", "Help", "" >> >>, << "1250", "40" >>,
                 << "Notice", "Member" >>, "core/member"),
   outside |-> On(<< "ok", "ok" >>, << << >> >>, << >>, << >>, "elsewhere")]

Work == Documents \ {"shell"}
First == [top |-> "shell", work |-> "profile"]
GoesTo == [top |-> {}, work |-> Work]
Scopes == [OK |-> TwoFrames, ok |-> TwoFrames, Help |-> TwoFrames, savings |-> << "work" >>]
Folded == [OK |-> "ok", ok |-> "ok", Help |-> "help"]
InScope == {"core", "core/member"}

Calls ==
  {<< "observe", None >>, << "capture", None >>, << "count", "OK" >>, << "count", "savings" >>,
   << "extract", "savings" >>, << "has", "dialog" >>, << "has", "Notice" >>,
   << "heading_change", None >>, << "heading_change", "Member" >>, << "click", "Help" >>,
   << "commit", "OK" >>, << "type", "ok" >>}

=============================================================================
