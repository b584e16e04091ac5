--------------------------- MODULE MCBookingFlow ----------------------------
(***************************************************************************)
(* BookingFlow for TLC: days of two hours, stays of two or three nights    *)
(* and periods that begin or end on either side of the dates that matter.  *)
(***************************************************************************)
EXTENDS BookingFlow

P(s, e) == [start |-> s, end |-> e]
MCWindows == <<1, 3>>

\* None; begun before the search and an exact fit; begins at noon; ends at
\* noon and too short; longer and later; the nearer one last, one ending at
\* noon.
MCAnswers ==
  {<<>>, <<P(0, 6)>>, <<P(3, 8)>>, <<P(2, 5)>>, <<P(4, 10)>>,
   <<P(6, 10), P(4, 8)>>, <<P(2, 5), P(4, 9)>>}

\* DefaultBookingFlow in twentieths, and a graph with edges switched off.
Default ==
  [ListCottages |-> <<Weighted("SelectCottage", 16), Weighted("End", 4)>>,
   SelectCottage |-> <<Weighted("SelectPeriod", 12), Weighted("ListCottages", 6),
                       Weighted("End", 2)>>,
   SelectPeriod |-> <<Weighted("SelectPeriod", 6), Weighted("SelectCottage", 4),
                      Weighted("ListCottages", 1), Weighted("BookCottage", 8),
                      Weighted("End", 1)>>,
   BookCottage |-> <<Weighted("End", 20)>>]
SwitchedOff ==
  [Default EXCEPT
     !.SelectCottage = <<Weighted("ListCottages", -1), Weighted("SelectPeriod", 1),
                         Weighted("End", 0)>>,
     !.SelectPeriod = <<Weighted("SelectPeriod", 0), Weighted("SelectCottage", 3),
                        Weighted("End", -2), Weighted("BookCottage", 2)>>,
     !.BookCottage = <<Weighted("End", 0)>>]
MCGraphs == {Default, SwitchedOff}
=============================================================================
