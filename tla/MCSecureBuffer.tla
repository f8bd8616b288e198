----------------------------- MODULE MCSecureBuffer -----------------------------
(* Narrow and wide characters, typed and pasted: eight wide ones fill the    *)
(* first allocation to the byte and leave no room for the terminator.        *)
EXTENDS SecureBuffer

MCChar   == {"e", "w"}
MCWidth  == [c \in MCChar |-> IF c = "e" THEN 1 ELSE 4]
MCPastes == {<<"e">>, <<"w">>, <<"e", "w">>, [j \in 1..8 |-> "w"]}

(* No guard reads the last signal: a buffer is followed up once.             *)
MCView == buffer
================================================================================
