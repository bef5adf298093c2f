----------------------------- MODULE MCEvening -----------------------------
(* TLC instances of the two models of the evening, side by side: EodLedger  *)
(* takes the versions of closes for data and keeps every commit,            *)
(* SessionBooks takes a strike for one step and keeps its arithmetic.  A    *)
(* behaviour is one of the one or one of the other, the rest stands still.  *)
(* The dividend is early enough for sessions to follow its pay date.        *)
EXTENDS EodLedger, SessionBooks, TLC

VARIABLE part

EveningInit ==
  /\ Init /\ BooksInit
  /\ part \in {"ledger", "books"}
  /\ dividend.ex <= 2 /\ dividend.pay \in {None, 3}
  /\ part = "books" => dividend = [ex |-> 1, pay |-> None]

EveningNext ==
  /\ UNCHANGED part
  /\ \/ part = "ledger" /\ Next /\ UNCHANGED books
     \/ part = "books" /\ BooksNext /\ UNCHANGED vars

EveningSpec == EveningInit /\ [][EveningNext]_<<vars, books, part>>

\* Both models keep their types.
EveningTypeOK == TypeOK /\ BooksTypeOK

-----------------------------------------------------------------------------
(* What a name may do in a session.                                        *)

Day(shares, close, mark, range, fill) ==
  [shares |-> shares, close |-> close, mark |-> mark, range |-> range, fill |-> fill,
   arrival |-> fill - 3, filled |-> TRUE, anchored |-> TRUE]

Lively ==
  { Day(2, 2000, 2000, {1990, 2010}, 1995),      \* marked at the close
    Day(2, 2004, 2005, {1990, 2010}, 1995),      \* a mark within a few basis points
    Day(1, 2004, 2009, {1990, 2010}, 2001),      \* trimmed or bought, a mark off the close
    Day(1, 2000, 2015, {1990, 2010}, 2001),      \* a mark above the range
    Day(2, 2020, 2015, {1990, 2010}, 1995),      \* a close outside the range as well
    Day(2, 2000, 2100, {1990, 2010}, 1995),      \* a mark too far off to correct
    Day(2, 2004, 2000, {}, 1995),                \* no range
    Day(0, 2004, 2000, {}, 2002),                \* sold out
    [Day(1, 2004, 2004, {1990, 2010}, 2001) EXCEPT !.filled = FALSE],
    [Day(2, 2004, 2004, {1990, 2010}, 1995) EXCEPT !.anchored = FALSE] }

Quiet == {Day(1, 1000, 1000, {990, 1010}, 998), Day(1, 1003, 1015, {990, 1010}, 998)}

CONSTANTS lively, quiet
MCStories == (lively :> Lively) @@ (quiet :> Quiet)
=============================================================================
