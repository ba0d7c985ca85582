----------------------------- MODULE MCPlayback -----------------------------
(* TLC instances of Playback. *)
EXTENDS Playback

CONSTANTS ada, nobody, drift, harbor, missing

(* Two streams, a title and a user that do not exist. *)
MCWanted == {<<ada, drift>>, <<ada, harbor>>, <<ada, missing>>, <<nobody, drift>>}
=============================================================================
