---------------------------- MODULE MCRedisWire ----------------------------
(* TLC instances of RedisWire: "e'" is a character of two bytes. *)
EXTENDS RedisWire

MCCharacters == {"P", "d", "1", "$", "e'", CR, LF}
MCEncoding == [c \in MCCharacters |-> IF c = "e'" THEN <<"c3", "a9">> ELSE <<c>>]
MCCommand == <<"P">>
MCChannel == <<"d">>
UpTo(n) == UNION {[1..m -> MCCharacters \ {"P", "d"}] : m \in 0..n}
Long == [i \in 1..11 |-> IF i = 9 THEN LF ELSE "e'"]
MCMessages == UpTo(2) \cup {<<"$", "1", CR>>, <<CR, LF, "$">>, <<"e'", CR, LF>>, Long}
=============================================================================
