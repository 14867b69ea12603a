----------------------------- MODULE PageCalls -----------------------------
(***************************************************************************)
(* The calls a page of the dashboard has under way: a sequence in the      *)
(* order in which they were sent.  They are answered in any order, and the *)
(* page takes every answer as if it were the newest.                       *)
(*                                                                         *)
(* A call is a record with a field what, the thing it asks for, and a      *)
(* history field overtaken: a later call for the same thing has been       *)
(* answered already.                                                       *)
(***************************************************************************)
EXTENDS Naturals, Sequences, SequencesExt, FiniteSets

None == "none"

Call(what, group) == [what |-> what, group |-> group, overtaken |-> FALSE]

\* The calls without the ith, which has been answered.
Answered(calls, i) ==
  RemoveAt([j \in DOMAIN calls |->
              IF j < i /\ calls[j].what = calls[i].what
              THEN [calls[j] EXCEPT !.overtaken = TRUE] ELSE calls[j]], i)

\* The ith call is the last one for its thing and was not overtaken.
InTurn(calls, i) ==
  /\ ~calls[i].overtaken
  /\ \A j \in i + 1 .. Len(calls) : calls[j].what # calls[i].what
=============================================================================
