------------------------------ MODULE MCDriver -------------------------------
(* Every text with one object, and texts with two where the first may be   *)
(* skipped.                                                                *)
EXTENDS Driver

OneObject == {<<c>> : c \in Candidates}
TwoObjects ==
  LET Skipped == [action : {"nonstring", "delegate", "reply_user"}, message : {"text", "other"},
                  task : {"text"}]
      Envelope == [action : {"progress", "final_answer", "delegate", "reply_user"},
                   message : {"text", "absent"}, task : {"text", "absent"}]
  IN {<<c, d>> : c \in Skipped, d \in Envelope}
SomeTexts == {<<>>} \cup OneObject \cup TwoObjects
=============================================================================
