------------------------------- MODULE Harness -------------------------------
(***************************************************************************)
(* The product this seller sells (examples/harness) and the bytes it is    *)
(* computed from.                                                          *)
(*                                                                         *)
(* A body is what the code tells apart about a byte string: which JSON it  *)
(* parses as ("object", "null", any "other" JSON value, or "none"), its    *)
(* "model" field and the text at content[0].text ("absent" when the path   *)
(* does not lead to one).  Texts are compared by how they begin: "yes"     *)
(* stands for those that begin with yes once trimmed and lowercased.       *)
(***************************************************************************)
EXTENDS Receipt

Body(json, model, text) == [json |-> json, model |-> model, text |-> text]
Bodies == [json : {"object", "null", "other", "none"},
           model : {"absent", "premium", "substitute"},
           text : {"absent", "yes", "no", "substituted", "0", "1"}]

MANIFEST_ID == "starts-with-yes-v1"
VERDICT_FN_ID == "starts_with_yes"

\* The bytes "1" and "0" parse as JSON numbers.
Verdict(yes) == Body("other", "absent", IF yes THEN "1" ELSE "0")
Empty == Body("none", "absent", "absent")

StartsWithYes(answer) == Verdict(answer.json = "object" /\ answer.text = "yes")

\* recompute(): the transform named fn_id over the inputs, or None.
Rerun(fn_id, inputs) ==
    IF fn_id = VERDICT_FN_ID
    THEN Some(StartsWithYes(IF inputs = << >> THEN Empty ELSE inputs[1]))
    ELSE None
=============================================================================
