--------------------------- MODULE MCPositionTable ---------------------------
(* PositionTable on three securities and a table of two rows.               *)
EXTENDS PositionTable

\* A row with t0 volume to sell, t1 bought today and x frozen for sells.
Row(s, f, t0, t1, x) ==
  [key |-> [sec |-> s, form |-> f], volume |-> [t0 |-> t0, t1 |-> t1, sell |-> x]]

\* A duplicate in the old spelling, a row that does not parse behind a good
\* one, more securities than rows, no account, no file.
MCSnapshots ==
  [rows : {<<Row("a", "mic", 1, 0, 0), Row("a", "legacy", 1, 1, 0)>>,
           <<Row("b", "mic", 0, 1, 0), Row("c", "legacy", 1, 0, 1)>>,
           <<Row("a", "mic", 1, 0, 0), Row("b", "other", 1, 0, 0)>>,
           <<Row("a", "mic", 1, 0, 0), Row("b", "mic", 1, 0, 0), Row("c", "mic", 1, 0, 0)>>},
   fund : {"account"}, readable : {TRUE}]
  \cup [rows : {<<Row("a", "mic", 1, 0, 0)>>}, fund : {NoFund}, readable : {TRUE}]
  \cup [rows : {<<>>}, fund : {"account"}, readable : {FALSE}]

\* An old spelling with a frozen volume, and a key no parser accepts behind one
\* that is fine.
MCLeftovers ==
  {<<Row("a", "legacy", 0, 0, 1)>>,
   <<Row("a", "legacy", 1, 0, 0), Row("b", "other", 1, 0, 0)>>}
=============================================================================
