--------------------------- MODULE MCComposeQueue ---------------------------
(* Instances of ComposeQueue for TLC. *)
EXTENDS ComposeQueue, TLC

\* A picked file next to an old queue, so that drafts and two queued rows meet
\* both drains; each kind of share and a typed text by itself.
MCMixes == {Picked \cup Legacy, SharedText, SharedFile, Typed}
=============================================================================
