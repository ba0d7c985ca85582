---------------------------- MODULE MCAlarmStore ----------------------------
(* TLC instances of AlarmStore. *)
EXTENDS AlarmStore, TLC

CONSTANTS playback, recovered, s1

MCSegments == {playback, recovered, s1}
MCRecovered == {recovered}

(* Names without ":", as catalog-api and chaos-agent send them. *)
SimpleUeis == {<<playback>>, <<recovered>>}
SimpleStreams == {<<s1>>}

(* Names with ":": "playback" + "recovered:s1" and "playback:recovered" +  *)
(* "s1" are the same reduction key.                                        *)
ColonUeis == {<<playback>>, <<playback, recovered>>}
ColonStreams == {<<s1>>, <<recovered, s1>>}

Symmetry == Permutations(Recorders) \cup Permutations(Messages)
=============================================================================
