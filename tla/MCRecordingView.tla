-------------------------- MODULE MCRecordingView --------------------------
(***************************************************************************)
(* Small instances of RecordingView: a few presses of Record, one or two   *)
(* matches for each engine.                                                *)
(***************************************************************************)
EXTENDS RecordingView

\* A complete response, one without an item, and one that cannot be read.
AnyResponse == {Token, {"xml", "SigOffset", "MatchDuration"}, {}}

\* A complete response, and one that lacks the duration or the item.
PartialResponse == {Token, Token \ {"MatchDuration"}, {"xml"}}
=============================================================================
