------------------------------ MODULE MCEditor ------------------------------
(***************************************************************************)
(* Two flows; the draft of the first has the trigger and two steps, not    *)
(* joined yet.  The two steps are alike.                                   *)
(***************************************************************************)
EXTENDS EditorProps, TLC

MCForms == {[fields |-> "set", reads |-> {}]}
MCLeft == {With(EmptyFlow(Default),
                [x \in StepIds |-> IF x = Trigger THEN NewStep("trigger", 0)
                                   ELSE NewStep("http", 0)], {})}
MCSymmetry == Permutations(StepIds \ {Trigger})
=============================================================================
