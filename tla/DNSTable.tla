------------------------------ MODULE DNSTable ------------------------------
(***************************************************************************)
(* What the record store of the DNS runtime promises: a table that holds   *)
(* one record per name and ID, and answers a question with the enabled     *)
(* records of that name and type.  DNSStore is the store itself, with the  *)
(* answer index and the step by step restore; it implements this module.   *)
(***************************************************************************)
EXTENDS DNSRecords

VARIABLES
  table,  \* the records
  answer  \* the last question asked, and the records of its answer

tableVars == <<table, answer>>

-----------------------------------------------------------------------------

TableInit ==
  /\ table = {}
  /\ answer \in {[question |-> q, records |-> {}] : q \in Questions}

Replace == \E s \in Lists : table' = LastWins(s) /\ UNCHANGED answer

Insert == \E r \in Records : table' = Put(table, Normalized(r)) /\ UNCHANGED answer

\* The record keeps its ID; it may move to another name, and replaces the
\* record of that ID there.
Change ==
  /\ \E old \in table, new \in Records :
       new.id = old.id /\ table' = Put(table \ {old}, Normalized(new))
  /\ UNCHANGED answer

Remove == \E old \in table : table' = table \ {old} /\ UNCHANGED answer

Empty == table' = {} /\ UNCHANGED answer

Ask ==
  /\ \E q \in Questions : answer' = [question |-> q, records |-> Matching(table, q)]
  /\ UNCHANGED table

TableNext == Replace \/ Insert \/ Change \/ Remove \/ Empty \/ Ask

TableSpec == TableInit /\ [][TableNext]_tableVars

=============================================================================
