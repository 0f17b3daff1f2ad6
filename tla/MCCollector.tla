----------------------------- MODULE MCCollector -----------------------------
(* A small instance of Collector: texts with and without a phase, of every  *)
(* form, in the phases in which the form makes a difference.                *)
EXTENDS Collector

SomeTexts == {<<"prose", "">>, <<"decision", "">>, <<"prose", "commentary">>,
              <<"milestone", "commentary">>, <<"decision", "final_answer">>}
=============================================================================
